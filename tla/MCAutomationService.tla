------------------------- MODULE MCAutomationService -------------------------
(* Small instances of AutomationService for TLC. *)
EXTENDS AutomationService

Reading(valid, humidity, temperature) ==
  [valid |-> valid, humidity |-> humidity, temperature |-> temperature]

\* Humid, and a reading the driver marks as failed.
ServiceReadings ==
  {Reading(TRUE, 70, 20), Reading(FALSE, 70, 20)}

\* The device that repeats itself says more than the other, and is the one reset.
MessageBound == [d \in DeviceIds |-> IF d \in Resending THEN 3 ELSE 1]
ResetBound   == [d \in DeviceIds |-> IF d \in Resending THEN 1 ELSE 0]

=============================================================================
