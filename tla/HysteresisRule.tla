--------------------------- MODULE HysteresisRule ---------------------------
(***************************************************************************)
(* HysteresisRule of automation/automation_service/rules.py: the copy of   *)
(* the firmware's local fallback that the automation service keeps for     *)
(* each device.  An object of the class is a record, a method is an        *)
(* operator from the record to the new one.  Time is the POSIX time the    *)
(* caller passes: it does not wrap and it does not start at zero.          *)
(***************************************************************************)
EXTENDS Integers, Sequences, FiniteSets

CONSTANTS
  FanOnPercent, FanOffPercent,     \* hysteresis thresholds
  HumidityMin, HumidityMax,        \* valid ranges of a reading
  TemperatureMin, TemperatureMax,
  MinFanOn, MinFanOff,             \* minimum dwell times
  MaxRuntime,                      \* max_continuous_runtime_seconds
  FailureLimit,                    \* sensor_consecutive_failure_limit
  HoldLastState,                   \* sensor_invalid_hold_last_state
  RiseEnabled, RiseThreshold, RiseWindow, RiseMinSamples, Minute,
  RuleBufferSize                   \* maxlen of _rise_buffer

ASSUME RuleAssumption ==
  /\ {FanOnPercent, FanOffPercent, HumidityMin, HumidityMax,
      TemperatureMin, TemperatureMax, RiseThreshold} \subseteq Int
  /\ {MinFanOn, MinFanOff, FailureLimit, RiseWindow} \subseteq Nat
  /\ {MaxRuntime, Minute, RiseMinSamples, RuleBufferSize} \subseteq Nat \ {0}
  /\ {HoldLastState, RiseEnabled} \subseteq BOOLEAN

\* None, for relay_on_since.
Never == -1

\* __init__: last_change_time is 0.0, the epoch itself.
NewRule ==
  [relayOn |-> FALSE, lastChangeTime |-> 0, relayOnSince |-> Never,
   hasValidReading |-> FALSE, lastHumidity |-> 0, failures |-> 0,
   riseBuffer |-> <<>>]

InRange(reading) ==
  /\ reading.valid
  /\ reading.humidity \in HumidityMin .. HumidityMax
  /\ reading.temperature \in TemperatureMin .. TemperatureMax

\* The deque drops its oldest sample when full.
Appended(buffer, sample) ==
  LET longer == Append(buffer, sample)
  IN  IF Len(longer) > RuleBufferSize THEN Tail(longer) ELSE longer

\* The counter of failures has no limit in the code; beyond FailureLimit its
\* value makes no difference.
OnReading(rule, reading, now) ==
  IF InRange(reading)
    THEN [rule EXCEPT
            !.failures = 0, !.hasValidReading = TRUE,
            !.lastHumidity = reading.humidity,
            !.riseBuffer =
               IF RiseEnabled
                 THEN Appended(@, [time |-> now, humidity |-> reading.humidity])
                 ELSE @]
    ELSE [rule EXCEPT !.failures = IF @ < FailureLimit THEN @ + 1 ELSE @]

\* The samples inside the window; they stay in the order of the deque.
InWindow(buffer, now) == {i \in 1 .. Len(buffer) : buffer[i].time >= now - RiseWindow}

\* The slope is compared without division, as in RiseRate.
RuleRiseTriggered(rule, now) ==
  LET buffer   == rule.riseBuffer
      inWindow == InWindow(buffer, now)
  IN  /\ RiseEnabled
      /\ Cardinality(inWindow) >= RiseMinSamples
      /\ \E oldest, newest \in inWindow :
           /\ inWindow \subseteq oldest .. newest
           /\ LET elapsed == buffer[newest].time - buffer[oldest].time
                  rise    == buffer[newest].humidity - buffer[oldest].humidity
              IN  elapsed > 0 /\ rise * Minute >= RiseThreshold * elapsed

\* Mutants: the band forgotten, and the failure limit exceeded by one.
MutantBand(rule) ==
  IF rule.lastHumidity >= FanOnPercent
    THEN [on |-> TRUE, reason |-> "humidity_above_threshold"]
    ELSE [on |-> FALSE, reason |-> "humidity_below_threshold"]
MutantRuleFailed(rule) == ~rule.hasValidReading \/ rule.failures > FailureLimit

Band(rule) ==
  IF rule.lastHumidity >= FanOnPercent
    THEN [on |-> TRUE, reason |-> "humidity_above_threshold"]
  ELSE IF rule.lastHumidity <= FanOffPercent
    THEN [on |-> FALSE, reason |-> "humidity_below_threshold"]
  ELSE [on |-> rule.relayOn, reason |-> "hysteresis_hold"]

RuleFailed(rule) == ~rule.hasValidReading \/ rule.failures >= FailureLimit

Candidate(rule, now) ==
  IF RuleFailed(rule)
    THEN [on |-> HoldLastState /\ rule.relayOn, reason |-> "sensor_invalid_safe_state"]
  ELSE IF ~Band(rule).on /\ RuleRiseTriggered(rule, now)
    THEN [on |-> TRUE, reason |-> "rise_rate_trigger"]
  ELSE Band(rule)

\* Mutant: the cutoff only after the limit.
MutantRuleCutoff(rule, now) ==
  /\ rule.relayOn
  /\ rule.relayOnSince # Never
  /\ now - rule.relayOnSince > MaxRuntime

RuleCutoff(rule, now) ==
  /\ rule.relayOn
  /\ rule.relayOnSince # Never
  /\ now - rule.relayOnSince >= MaxRuntime

\* Mutant: the minimum off-time forgotten.
MutantRuleHolds(rule, now) ==
  rule.relayOn /\ now - rule.lastChangeTime < MinFanOn

RuleHolds(rule, now) ==
  now - rule.lastChangeTime < (IF rule.relayOn THEN MinFanOn ELSE MinFanOff)

\* The cutoff wins, then the dwell, then the candidate.
RuleOutcome(rule, now) ==
  LET candidate == Candidate(rule, now)
  IN  IF RuleCutoff(rule, now)
        THEN [on |-> FALSE, reason |-> "max_runtime_cutoff"]
      ELSE IF candidate.on # rule.relayOn /\ RuleHolds(rule, now)
        THEN [on |-> rule.relayOn,
              reason |-> IF rule.relayOn THEN "min_on_time_hold"
                                         ELSE "min_off_time_hold"]
      ELSE candidate

\* evaluate: the rule after the decision; what it decides is RuleOutcome.
Evaluated(rule, now) ==
  LET on == RuleOutcome(rule, now).on
  IN  IF on = rule.relayOn THEN rule
      ELSE [rule EXCEPT !.relayOn = on, !.lastChangeTime = now,
                        !.relayOnSince = IF on THEN now ELSE Never]

=============================================================================
