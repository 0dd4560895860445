------------------------------ MODULE MCMirror ------------------------------
(* A small instance of Mirror for TLC. *)
EXTENDS Mirror

Reading(valid, humidity, temperature) ==
  [valid |-> valid, humidity |-> humidity, temperature |-> temperature]

\* Below, inside and above the band, slow and fast rises, a failed reading, and a
\* humid one at an impossible temperature.
MirrorReadings ==
  {Reading(TRUE, h, 20) : h \in {60, 65, 70}} \cup
  {Reading(FALSE, 65, 20), Reading(TRUE, 70, 61)}

=============================================================================
