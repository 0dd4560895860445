----------------------------- MODULE MCFirmware -----------------------------
(* Small instances of Firmware for TLC. *)
EXTENDS Firmware

Reading(valid, humidity, temperature) ==
  [valid |-> valid, humidity |-> humidity, temperature |-> temperature]

\* Both thresholds exactly.
WetDryReadings == {Reading(TRUE, h, 20) : h \in {60, 70}}

DryReading == {Reading(TRUE, 60, 20)}

\* A broker that holds nothing, and one that holds a message sent `age` ago.
Retained(on, age, actual, mode) ==
  [desired |-> [topic |-> "desired", on |-> on, source |-> "automation",
                issuedAt |-> Seconds(- age), sentAt |-> - age],
   actual |-> actual, mode |-> mode]

FreshBroker ==
  {[desired |-> NoMessage, actual |-> "none", mode |-> "none"]}

OldBroker == {Retained(TRUE, 9, "on", "automatic")}

=============================================================================
