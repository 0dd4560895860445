---------------------------- MODULE MCController ----------------------------
(* Small instances of Controller for TLC. *)
EXTENDS Controller

Reading(valid, humidity, temperature) ==
  [valid |-> valid, humidity |-> humidity, temperature |-> temperature]

\* Both thresholds exactly, and the band between them.
GoodReadings == {Reading(TRUE, h, 20) : h \in {60, 65, 70}}

\* A sensor that does not answer, and one that answers nonsense; the valid flag
\* and each of the ranges are tested by InRange in turn.
BadReadings == {Reading(FALSE, 65, 20), Reading(TRUE, 65, 61)}

AllReadings == GoodReadings \cup BadReadings

=============================================================================
