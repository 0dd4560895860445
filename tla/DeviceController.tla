-------------------------- MODULE DeviceController --------------------------
(***************************************************************************)
(* DeviceController of simulator/simulator/device_controller.py, the       *)
(* Python port of the firmware's controller that the simulator runs.  An   *)
(* object is a record, a method an operator from the record to the new     *)
(* one.  It knows no override, no rise detector and no temperature range.  *)
(* on_mqtt_desired is three assignments to fields another thread reads, so *)
(* it is left to the module of the threads, and so are the moments at      *)
(* which a tick reads these fields: `fresh` is what _mqtt_fresh found.     *)
(***************************************************************************)
EXTENDS Integers

CONSTANTS
  FanOnPercent, FanOffPercent,     \* hysteresis thresholds
  HumidityMin, HumidityMax,        \* valid range of a reading
  MinFanOn, MinFanOff,             \* minimum dwell times
  MaxRuntime,                      \* max_continuous_runtime_seconds
  StaleTimeout,                    \* stale_command_timeout_seconds
  FailureLimit,                    \* sensor_consecutive_failure_limit
  HoldLastState                    \* sensor_invalid_hold_last_state

ASSUME DeviceAssumption ==
  /\ {FanOnPercent, FanOffPercent, HumidityMin, HumidityMax} \subseteq Int
  /\ {MinFanOn, MinFanOff, StaleTimeout, FailureLimit} \subseteq Nat
  /\ MaxRuntime \in Nat \ {0}
  /\ HoldLastState \in BOOLEAN

\* None, for a time.
Never == -1

NewController ==
  [relayOn |-> FALSE, lastChangeTime |-> 0, relayOnSince |-> Never,
   hasValidReading |-> FALSE, lastHumidity |-> 0, failures |-> 0,
   mqttReceived |-> FALSE, mqttDesiredOn |-> FALSE, mqttIssuedAt |-> Never]

InRange(reading) ==
  reading.valid /\ reading.humidity \in HumidityMin .. HumidityMax

\* Beyond FailureLimit the value of the counter makes no difference.
OnSensorReading(device, reading) ==
  IF InRange(reading)
    THEN [device EXCEPT !.failures = 0, !.hasValidReading = TRUE,
                        !.lastHumidity = reading.humidity]
    ELSE [device EXCEPT !.failures = IF @ < FailureLimit THEN @ + 1 ELSE @]

\* An issue time later than `now` is fresh: the times are not unsigned.
MqttFresh(device, now) ==
  /\ device.mqttReceived
  /\ device.mqttIssuedAt # Never
  /\ now - device.mqttIssuedAt <= StaleTimeout

SensorFailed(device) ==
  ~device.hasValidReading \/ device.failures >= FailureLimit

Candidate(device, fresh) ==
  IF fresh
    THEN [on |-> device.mqttDesiredOn, reason |-> "mqtt_command"]
  ELSE IF SensorFailed(device)
    THEN [on |-> HoldLastState /\ device.relayOn,
          reason |-> "sensor_invalid_safe_state"]
  ELSE IF device.lastHumidity >= FanOnPercent
    THEN [on |-> TRUE, reason |-> "humidity_above_threshold"]
  ELSE IF device.lastHumidity <= FanOffPercent
    THEN [on |-> FALSE, reason |-> "humidity_below_threshold"]
  ELSE [on |-> device.relayOn, reason |-> "hysteresis_hold"]

MaxRuntimeExceeded(device, now) ==
  /\ device.relayOn
  /\ device.relayOnSince # Never
  /\ now - device.relayOnSince >= MaxRuntime

\* Mutant: the minimum off-time forgotten.
MutantDwellHolds(device, now) ==
  device.relayOn /\ now - device.lastChangeTime < MinFanOn

DwellHolds(device, now) ==
  now - device.lastChangeTime < (IF device.relayOn THEN MinFanOn ELSE MinFanOff)

\* The cutoff wins, then the dwell, then the candidate.
Outcome(device, fresh, now) ==
  LET candidate == Candidate(device, fresh)
  IN  IF MaxRuntimeExceeded(device, now)
        THEN [on |-> FALSE, reason |-> "max_runtime_cutoff"]
      ELSE IF candidate.on # device.relayOn /\ DwellHolds(device, now)
        THEN [on |-> device.relayOn,
              reason |-> IF device.relayOn THEN "min_on_time_hold"
                                           ELSE "min_off_time_hold"]
      ELSE candidate

\* Mutant: the start of the run kept when the run ends.
MutantTicked(device, fresh, now) ==
  LET on == Outcome(device, fresh, now).on
  IN  IF on = device.relayOn THEN device
      ELSE [device EXCEPT !.relayOn = on, !.lastChangeTime = now,
                          !.relayOnSince = IF on THEN now ELSE @]

\* tick: the controller after the decision.
Ticked(device, fresh, now) ==
  LET on == Outcome(device, fresh, now).on
  IN  IF on = device.relayOn THEN device
      ELSE [device EXCEPT !.relayOn = on, !.lastChangeTime = now,
                          !.relayOnSince = IF on THEN now ELSE Never]

=============================================================================
