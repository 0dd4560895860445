----------------------------- MODULE Controller -----------------------------
(***************************************************************************)
(* VentilationController of firmware/src/controller.cpp: the decision to   *)
(* run the fan.  It is fed sensor readings, fan/desired messages and       *)
(* operator commands, and Tick turns what it knows into a relay state.     *)
(*                                                                         *)
(* Each method is an operator taking the time `now` its caller passes (a   *)
(* uint32_t), so that a module of the main loop can pass a late one; here  *)
(* the callers pass millis().  The variables from uptime on are history:   *)
(* what really happened and when, on a clock that does not wrap.  The code *)
(* keeps none of them; the properties compare it with them.                *)
(***************************************************************************)
EXTENDS RiseRate

CONSTANTS
  FanOnPercent, FanOffPercent,     \* hysteresis thresholds
  HumidityMin, HumidityMax,        \* valid ranges of a reading
  TemperatureMin, TemperatureMax,
  MinFanOn, MinFanOff,             \* minimum dwell times
  MaxRuntime,                      \* max_continuous_runtime_ms
  StaleTimeout,                    \* stale_command_timeout_ms
  OverrideDefault, OverrideMax,    \* manual override durations
  FailureLimit,                    \* sensor_consecutive_failure_limit
  FailureMax,                      \* 255: consecutive_failures_ is a uint8_t
  HoldLastState,                   \* sensor_invalid_hold_last_state
  Readings,                        \* the readings a sensor may deliver
  Ages,                            \* ages a message may have on arrival
  Durations,                       \* durations a command may ask for
  TickPeriod,                      \* longest time between two ticks
  Horizon                          \* bound on the uptime explored

ASSUME ConfigAssumption ==
  /\ {FanOnPercent, FanOffPercent, HumidityMin, HumidityMax,
      TemperatureMin, TemperatureMax} \subseteq Int
  /\ {MinFanOn, MinFanOff, StaleTimeout, OverrideDefault, OverrideMax}
       \subseteq UInt32
  /\ MaxRuntime \in UInt32 \ {0}
  /\ FailureMax \in Nat
  /\ FailureLimit \in 0 .. FailureMax
  /\ HoldLastState \in BOOLEAN

ASSUME EnvironmentAssumption ==
  /\ Readings \subseteq [valid : BOOLEAN, humidity : Int, temperature : Int]
  /\ Ages \subseteq UInt32
  /\ Durations \subseteq UInt32
  /\ TickPeriod \in Nat \ {0}
  /\ Horizon \in Nat

VARIABLES
  relayOn,            \* relay_on_
  lastRelayChange,    \* last_relay_change_ms_
  relayOnSince,       \* relay_on_since_ms_
  hasValidReading,    \* has_valid_reading_
  lastHumidity,       \* last_valid_reading_.humidity_percent
  failures,           \* consecutive_failures_
  mqttReceived,       \* mqtt_command_received_
  mqttDesiredOn,      \* mqtt_desired_on_
  mqttIssuedAt,       \* mqtt_issued_at_ms_
  overrideType,       \* override_type_
  overrideExpiresAt,  \* override_expires_at_ms_
  riseBuffer,         \* rise_buffer_, rise_buffer_head_, rise_buffer_count_
  decision,           \* what the last Tick returned
  uptime,             \* real time since power-up
  switchedAt,         \* when the relay really last changed
  tickedAt,           \* when Tick last ran
  starts,             \* how often the relay has been switched on
  missed,             \* failed readings in a row, counted up to FailureLimit
  mqttSentAt,         \* when the held fan/desired message was really issued
  overrideSentAt      \* when the operator issued the override last accepted

relayVars    == <<relayOn, lastRelayChange, relayOnSince>>
sensorVars   == <<hasValidReading, lastHumidity, failures, riseBuffer, missed>>
mqttVars     == <<mqttReceived, mqttDesiredOn, mqttIssuedAt, mqttSentAt>>
overrideVars == <<overrideType, overrideExpiresAt, overrideSentAt>>
tickVars     == <<decision, switchedAt, tickedAt, starts>>
vars == <<relayVars, sensorVars, mqttVars, overrideVars, tickVars, uptime>>

Modes == {"automatic", "local_fallback", "manual_on", "manual_off"}
Reasons == {"startup_safe_state", "humidity_above_threshold",
            "humidity_below_threshold", "hysteresis_hold", "min_on_time_hold",
            "min_off_time_hold", "max_runtime_cutoff",
            "sensor_invalid_safe_state", "manual_override",
            "rise_rate_trigger", "mqtt_command"}
OverrideTypes == {"none", "on", "off", "auto"}

ControlDecision ==
  [relayOn : BOOLEAN, changed : BOOLEAN, mode : Modes,
   source : {"mqtt", "local"}, reason : Reasons, fallback : BOOLEAN,
   overrideActive : BOOLEAN, overrideExpiresAt : UInt32]

\* An override issued so long ago that no timeout can still allow it.
LongAgo == - (OverrideMax + StaleTimeout)

Init ==
  /\ relayOn = FALSE
  /\ lastRelayChange = 0
  /\ relayOnSince = 0
  /\ hasValidReading = FALSE
  /\ lastHumidity = 0
  /\ failures = 0
  /\ mqttReceived = FALSE
  /\ mqttDesiredOn = FALSE
  /\ mqttIssuedAt = 0
  /\ overrideType = "none"
  /\ overrideExpiresAt = 0
  /\ riseBuffer = <<>>
  /\ decision = [relayOn |-> FALSE, changed |-> FALSE,
                 mode |-> "local_fallback", source |-> "local",
                 reason |-> "startup_safe_state", fallback |-> TRUE,
                 overrideActive |-> FALSE, overrideExpiresAt |-> 0]
  /\ uptime = 0
  /\ switchedAt = 0
  /\ tickedAt = 0
  /\ starts = 0
  /\ missed = 0
  /\ mqttSentAt = 0
  /\ overrideSentAt = LongAgo

-----------------------------------------------------------------------------
(* Inputs *)

InRange(reading) ==
  /\ reading.valid
  /\ reading.humidity \in HumidityMin .. HumidityMax
  /\ reading.temperature \in TemperatureMin .. TemperatureMax

\* Mutants: the saturation guard forgotten on a wide and on a uint8_t counter.
MutantCountWide(count, largest) == count + 1
MutantCountWraps(count, largest) == (count + 1) % (largest + 1)

\* One more failure on a counter that sticks at its largest value.
CountFailure(count, largest) == IF count < largest THEN count + 1 ELSE count

OnSensorReading(reading, now) ==
  /\ IF InRange(reading)
       THEN /\ failures' = 0
            /\ hasValidReading' = TRUE
            /\ lastHumidity' = reading.humidity
            /\ riseBuffer' = UpdateRiseRateBuffer(riseBuffer, reading.humidity, now)
            /\ missed' = 0
       ELSE /\ failures' = CountFailure(failures, FailureMax)
            /\ missed' = IF missed < FailureLimit THEN missed + 1 ELSE missed
            /\ UNCHANGED <<hasValidReading, lastHumidity, riseBuffer>>
  /\ UNCHANGED <<relayVars, mqttVars, overrideVars, tickVars, uptime>>

\* Mutant: a message counts from its arrival, whatever its issued_at says.
MutantIssuedAt(age, now) == now

\* When a message of that age was issued, on the device's clock.
IssuedAt(age, now) == SaturatingSub(now, age)

OnMqttDesired(desiredOn, age, now) ==
  /\ mqttReceived' = TRUE
  /\ mqttDesiredOn' = desiredOn
  /\ mqttIssuedAt' = IssuedAt(age, now)
  /\ mqttSentAt' = uptime - age
  /\ UNCHANGED <<relayVars, sensorVars, overrideVars, tickVars, uptime>>

\* Mutant: the clamp to the longest override forgotten.
MutantEffectiveDuration(duration) ==
  IF duration = 0 THEN OverrideDefault ELSE duration

\* The duration a command is granted: its own or the default, clamped.
EffectiveDuration(duration) ==
  LET asked == IF duration = 0 THEN OverrideDefault ELSE duration
  IN  IF asked > OverrideMax THEN OverrideMax ELSE asked

Rejected(age) == age > StaleTimeout

OnCommand(type, duration, age, now) ==
  /\ IF Rejected(age) THEN UNCHANGED overrideVars
     ELSE IF type \in {"auto", "none"}
       THEN /\ overrideType' = "none"
            /\ overrideExpiresAt' = 0
            /\ overrideSentAt' = LongAgo
     ELSE /\ overrideType' = type
          /\ overrideExpiresAt' = Add32(now, EffectiveDuration(duration))
          /\ overrideSentAt' = uptime - age
  /\ UNCHANGED <<relayVars, sensorVars, mqttVars, tickVars, uptime>>

-----------------------------------------------------------------------------
(* Tick *)

IsOverrideActive(now) == overrideType # "none" /\ now < overrideExpiresAt

\* Mutant: the timeout excluded.
MutantFreshStrict(now) == mqttReceived /\ Sub32(now, mqttIssuedAt) < StaleTimeout

\* Mutant: a message that never goes stale.
MutantFreshAlways(now) == mqttReceived

IsMqttFresh(now) == mqttReceived /\ Sub32(now, mqttIssuedAt) <= StaleTimeout

SensorFailed == ~hasValidReading \/ failures >= FailureLimit

\* Mutant: off anywhere below the upper threshold.
MutantHysteresis ==
  IF lastHumidity >= FanOnPercent
    THEN [on |-> TRUE, reason |-> "humidity_above_threshold"]
    ELSE [on |-> FALSE, reason |-> "humidity_below_threshold"]

\* What the local sensor asks for, and why.
HysteresisCandidate ==
  IF lastHumidity >= FanOnPercent
    THEN [on |-> TRUE, reason |-> "humidity_above_threshold"]
  ELSE IF lastHumidity <= FanOffPercent
    THEN [on |-> FALSE, reason |-> "humidity_below_threshold"]
  ELSE [on |-> relayOn, reason |-> "hysteresis_hold"]

FallbackCandidate(now) ==
  IF SensorFailed
    THEN [on |-> HoldLastState /\ relayOn, reason |-> "sensor_invalid_safe_state"]
  ELSE IF ~HysteresisCandidate.on /\ RiseRateTriggered(riseBuffer, now)
    THEN [on |-> TRUE, reason |-> "rise_rate_trigger"]
  ELSE HysteresisCandidate

\* The mode in charge: an override, then a fresh message, then the sensor.
OperatingMode(now) ==
  IF IsOverrideActive(now)
    THEN IF overrideType = "on" THEN "manual_on" ELSE "manual_off"
  ELSE IF IsMqttFresh(now) THEN "automatic" ELSE "local_fallback"

ComputeCandidate(now) ==
  LET mode == OperatingMode(now)
  IN  IF mode = "automatic"
        THEN [on |-> mqttDesiredOn, reason |-> "mqtt_command"]
      ELSE IF mode = "local_fallback" THEN FallbackCandidate(now)
      ELSE [on |-> mode = "manual_on", reason |-> "manual_override"]

\* Mutants: the cutoff one step late, and the cutoff of a relay long off; the
\* two dwell times swapped, and the minimum off-time forgotten.
MutantCutoffLate(now) ==
  relayOn /\ SaturatingSub(now, relayOnSince) > MaxRuntime
MutantCutoffAlways(now) ==
  SaturatingSub(now, relayOnSince) >= MaxRuntime
MutantDwellSwapped(now) ==
  SaturatingSub(now, lastRelayChange) < (IF relayOn THEN MinFanOff ELSE MinFanOn)
MutantNoMinOff(now) ==
  relayOn /\ SaturatingSub(now, lastRelayChange) < MinFanOn

\* The maximum-runtime cutoff, and the minimum dwell a change has to respect.
MaxRuntimeExceeded(now) ==
  relayOn /\ SaturatingSub(now, relayOnSince) >= MaxRuntime

DwellHolds(now) ==
  SaturatingSub(now, lastRelayChange) < (IF relayOn THEN MinFanOn ELSE MinFanOff)

\* The cutoff wins over everything, then the dwell, then the candidate.
Outcome(now) ==
  LET candidate == ComputeCandidate(now)
  IN  IF MaxRuntimeExceeded(now)
        THEN [on |-> FALSE, reason |-> "max_runtime_cutoff"]
      ELSE IF candidate.on # relayOn /\ DwellHolds(now)
        THEN [on |-> relayOn, reason |-> IF relayOn THEN "min_on_time_hold"
                                                    ELSE "min_off_time_hold"]
      ELSE candidate

\* A change of the relay restarts the timers.
SwitchRelay(on, now) ==
  /\ relayOn' = on
  /\ IF on # relayOn
       THEN /\ lastRelayChange' = now
            /\ relayOnSince' = IF on THEN now ELSE relayOnSince
            /\ switchedAt' = uptime
            /\ starts' = IF on THEN starts + 1 ELSE starts
       ELSE UNCHANGED <<lastRelayChange, relayOnSince, switchedAt, starts>>

Tick(now) ==
  LET outcome == Outcome(now)
      mode    == OperatingMode(now)
      active  == IsOverrideActive(now)
  IN  /\ SwitchRelay(outcome.on, now)
      /\ overrideType' = IF active THEN overrideType ELSE "none"
      /\ decision' = [relayOn |-> outcome.on, changed |-> outcome.on # relayOn,
                      mode |-> mode,
                      source |-> IF mode = "automatic" THEN "mqtt" ELSE "local",
                      reason |-> outcome.reason,
                      fallback |-> mode = "local_fallback",
                      overrideActive |-> active,
                      overrideExpiresAt |-> IF active THEN overrideExpiresAt ELSE 0]
      /\ tickedAt' = uptime
      /\ UNCHANGED <<overrideExpiresAt, overrideSentAt, sensorVars, mqttVars, uptime>>

-----------------------------------------------------------------------------
(* The environment: inputs in any order, and a caller that ticks in time *)

Now == Millis(uptime)

ReadSensor == \E reading \in Readings : OnSensorReading(reading, Now)

ReceiveDesired == \E on \in BOOLEAN, age \in Ages : OnMqttDesired(on, age, Now)

ReceiveCommand ==
  \E type \in {"on", "off", "auto"}, duration \in Durations, age \in Ages :
    OnCommand(type, duration, age, Now)

TickNow == Tick(Now)

\* Time passes, but not beyond the moment the next Tick is due.
Advance ==
  /\ uptime < Horizon
  /\ uptime + 1 - tickedAt <= TickPeriod
  /\ uptime' = uptime + 1
  /\ UNCHANGED <<relayVars, sensorVars, mqttVars, overrideVars, tickVars>>

Next == ReadSensor \/ ReceiveDesired \/ ReceiveCommand \/ TickNow \/ Advance

Spec == Init /\ [][Next]_vars

-----------------------------------------------------------------------------
(* Properties *)

\* Every variable has its type; the time stamps are uint32_t.
TypeOK ==
  /\ relayOn \in BOOLEAN
  /\ lastRelayChange \in UInt32 /\ relayOnSince \in UInt32
  /\ mqttIssuedAt \in UInt32 /\ overrideExpiresAt \in UInt32
  /\ hasValidReading \in BOOLEAN
  /\ lastHumidity \in Int
  /\ failures \in 0 .. FailureMax
  /\ mqttReceived \in BOOLEAN
  /\ mqttDesiredOn \in BOOLEAN
  /\ overrideType \in {"none", "on", "off"}
  /\ riseBuffer \in Seq(RiseSample)
  /\ Len(riseBuffer) <= RiseBufferSize
  /\ decision \in ControlDecision
  /\ uptime \in Nat /\ switchedAt \in Nat /\ tickedAt \in Nat /\ starts \in Nat
  /\ missed \in 0 .. FailureLimit
  /\ mqttSentAt \in Int /\ overrideSentAt \in Int

\* No matter who asks for it, the fan never runs longer than the runtime limit
\* and the wait for the next Tick (the cutoff in Tick, docs/safety.md).
RuntimeBounded == relayOn => uptime - switchedAt < MaxRuntime + TickPeriod

\* A run that the cutoff ends may be shorter than the minimum on-time.
ShortestRun == IF MinFanOn < MaxRuntime THEN MinFanOn ELSE MaxRuntime

\* The relay never changes before its real dwell is over, whichever of the
\* sources asked for both changes (the anti-cycling gate in Tick).
DwellKept ==
  [][relayOn' # relayOn =>
       uptime - switchedAt >= IF relayOn THEN ShortestRun ELSE MinFanOff]_vars

\* Relay wear: the fan starts at most once per shortest on-off cycle, over
\* the whole life of the device (both dwells of Tick together).
StartsBounded == starts * (ShortestRun + MinFanOff) <= uptime + ShortestRun

\* A manual override governs a Tick only while the command is recent: at most
\* its clamped duration after it was accepted, which is at most the stale
\* timeout after the operator sent it (OnCommand, IsOverrideActive).
OverrideLapses ==
  [][decision'.mode \in {"manual_on", "manual_off"} /\ TickNow =>
       uptime - overrideSentAt < OverrideMax + StaleTimeout]_vars

\* A fan/desired message older than the stale timeout never decides a Tick
\* (OnMqttDesired, IsMqttFresh; docs/mqtt-api.md).
StaleCommandIgnored ==
  [][decision'.mode = "automatic" /\ TickNow =>
       uptime - mqttSentAt <= StaleTimeout]_vars

\* The same once the device has been up for longer than the stale timeout: by
\* then the clamp of OnMqttDesired at time zero has lost its effect.
StaleCommandIgnoredAfterBoot ==
  [][decision'.mode = "automatic" /\ uptime > StaleTimeout /\ TickNow =>
       uptime - mqttSentAt <= StaleTimeout]_vars

\* A relay that does not follow its authority is explained by a safety timer
\* that is really running: it may be held ON only within the minimum on-time,
\* held OFF only within the minimum off-time or by the cutoff (Tick).
OnlyTimersOverrule ==
  [][decision'.mode # "local_fallback" /\ TickNow =>
       LET asked == \/ decision'.mode = "manual_on"
                    \/ decision'.mode = "automatic" /\ mqttDesiredOn
           silenced == \/ decision'.mode = "manual_off"
                       \/ decision'.mode = "automatic" /\ ~mqttDesiredOn
       IN  /\ silenced /\ relayOn' => uptime - switchedAt' < MinFanOn
           /\ asked /\ ~relayOn' =>
                IF relayOn THEN uptime - switchedAt >= MaxRuntime
                           ELSE uptime - switchedAt < MinFanOff]_vars

\* In local fallback a sensor with FailureLimit failures in a row (or one that
\* never answered) keeps the fan on only to finish the minimum on-time, however
\* long the failure lasts (OnSensorReading, ComputeCandidate).
FailSafeOff ==
  [][decision'.mode = "local_fallback" /\ ~HoldLastState /\ relayOn'
     /\ (missed = FailureLimit \/ ~hasValidReading) /\ TickNow =>
       uptime - switchedAt' < MinFanOn]_vars

\* In local fallback with a working sensor the fan starts only at the upper
\* threshold (or on a rise) and stops only at the lower one (or at the
\* cutoff): anywhere between the thresholds it holds (ComputeCandidate).
HysteresisHolds ==
  [][relayOn' # relayOn /\ decision'.mode = "local_fallback"
     /\ missed < FailureLimit /\ TickNow =>
       /\ ~relayOn /\ relayOn' =>
            \/ lastHumidity >= FanOnPercent
            \/ RiseEnabled /\ decision'.reason = "rise_rate_trigger"
       /\ relayOn /\ ~relayOn' /\ hasValidReading =>
            \/ lastHumidity <= FanOffPercent
            \/ uptime - switchedAt >= MaxRuntime]_vars

\* The relay the controller drives is the abstract one of AntiCyclingRelay.
Relay == INSTANCE AntiCyclingRelay
           WITH MinOn <- ShortestRun, MinOff <- MinFanOff,
                MaxOn <- MaxRuntime + TickPeriod - 1,
                on <- relayOn, since <- switchedAt, time <- uptime

\* Every step of the controller is a step of that relay, or leaves it alone.
ImplementsRelay == Relay!Spec

=============================================================================
