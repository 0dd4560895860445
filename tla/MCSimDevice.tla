---------------------------- MODULE MCSimDevice ----------------------------
(* A small instance of SimDevice for TLC. *)
EXTENDS SimDevice

Reading(valid, humidity) == [valid |-> valid, humidity |-> humidity]

\* Both thresholds, and a failed reading.
SimReadings == {Reading(TRUE, 60), Reading(TRUE, 70), Reading(FALSE, 70)}

\* A broker with a message issued long before the device started.
OldMessage == {[on |-> TRUE, sentAt |-> -9]}

\* A device that was stopped in automatic mode with its relay on.
OldTopics == {[actual |-> "on", mode |-> "automatic of an earlier life"]}

=============================================================================
