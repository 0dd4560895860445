-------------------------- MODULE ControllerProofs --------------------------
(***************************************************************************)
(* What holds of the controller for every value of its constants.  The     *)
(* dwell times and the bound on starts hold whatever the clock does; the   *)
(* runtime limit, the lapse of overrides and the staleness guard need an   *)
(* uptime that stays below the wrap of the clock, and so does what is said *)
(* of single decisions.                                                    *)
(***************************************************************************)
EXTENDS Controller, TLAPS

-----------------------------------------------------------------------------
(* The clock *)

\* The reading of the clock is a uint32_t.
LEMMA MillisType == ASSUME NEW t \in Nat PROVE Millis(t) \in UInt32
  BY ClockModulusAssumption, SMT DEF Millis, UInt32

\* A wrapping sum of two uint32_t values is one.
LEMMA Add32Type == ASSUME NEW a \in UInt32, NEW b \in UInt32 PROVE Add32(a, b) \in UInt32
  BY ClockModulusAssumption, SMT DEF Add32, UInt32

\* A saturating difference of two uint32_t values is one.
LEMMA SaturatingSubType ==
  ASSUME NEW a \in UInt32, NEW b \in UInt32 PROVE SaturatingSub(a, b) \in UInt32
  BY ClockModulusAssumption, SMT DEF SaturatingSub, UInt32

\* A clock reading is the time less a whole number of wraps.
LEMMA MillisSplit ==
  ASSUME NEW t \in Nat
  PROVE  /\ t = ClockModulus * (t \div ClockModulus) + (t % ClockModulus)
         /\ t \div ClockModulus \in Nat
         /\ t % ClockModulus \in 0 .. ClockModulus - 1
  BY ClockModulusAssumption, SMT

\* Before the first wrap the clock is the uptime.
LEMMA MillisExact == ASSUME NEW t \in Nat, t < ClockModulus PROVE Millis(t) = t
  BY ClockModulusAssumption, SMT DEF Millis

\* A saturating difference of two clock readings never exceeds the real time
\* between them, across any number of wraps.
LEMMA ElapsedNeverLate ==
  ASSUME NEW s \in Nat, NEW t \in Nat, s <= t
  PROVE  SaturatingSub(Millis(t), Millis(s)) <= t - s
<1> DEFINE p == t \div ClockModulus
           q == s \div ClockModulus
<1>1. /\ t = ClockModulus * p + (t % ClockModulus)
      /\ s = ClockModulus * q + (s % ClockModulus)
      /\ p \in Nat /\ q \in Nat
      /\ t % ClockModulus \in 0 .. ClockModulus - 1
      /\ s % ClockModulus \in 0 .. ClockModulus - 1
  BY MillisSplit
<1> HIDE DEF p, q
<1>2. CASE p >= q
  <2>1. ClockModulus * p >= ClockModulus * q BY <1>1, <1>2, ClockModulusAssumption
  <2>2. (t % ClockModulus) - (s % ClockModulus) <= t - s
    BY <1>1, <2>1, ClockModulusAssumption
  <2>3. QED BY <1>1, <2>2 DEF SaturatingSub, Millis
<1>3. CASE p < q
  <2>1. ClockModulus * (p + 1) <= ClockModulus * q
    BY <1>1, <1>3, ClockModulusAssumption
  <2>2. ClockModulus * (p + 1) = ClockModulus * p + ClockModulus
    BY <1>1, ClockModulusAssumption
  <2>3. FALSE BY <1>1, <2>1, <2>2, ClockModulusAssumption
  <2>4. QED BY <2>3
<1>4. QED BY <1>1, <1>2, <1>3

-----------------------------------------------------------------------------
(* Types *)

\* The rise buffer holds time-stamped samples and never outgrows its size.
LEMMA RiseBufferType ==
  ASSUME NEW buffer \in Seq(RiseSample), Len(buffer) <= RiseBufferSize,
         NEW humidity \in Int, NEW now \in UInt32
  PROVE  LET new == UpdateRiseRateBuffer(buffer, humidity, now)
         IN  new \in Seq(RiseSample) /\ Len(new) <= RiseBufferSize
<1> DEFINE sample == [time |-> now, humidity |-> humidity]
           kept == IF Len(buffer) < RiseBufferSize THEN Len(buffer)
                                                   ELSE RiseBufferSize - 1
           rest == SubSeq(buffer, 1, kept)
<1>1. sample \in RiseSample BY DEF RiseSample
<1>2. Len(buffer) \in Nat OBVIOUS
<1>3. kept \in 0 .. Len(buffer) /\ kept <= RiseBufferSize - 1
  BY <1>2, RiseRateAssumption
<1>4. rest \in Seq(RiseSample) /\ Len(rest) = kept
  <2> HIDE DEF kept
  <2>1. kept <= Len(buffer) /\ kept \in Nat BY <1>2, <1>3
  <2>2. \A i \in 1 .. kept : buffer[i] \in RiseSample BY <1>2, <2>1
  <2>3. QED BY <2>1, <2>2, <1>2
<1> HIDE DEF sample, rest, kept
<1>5. <<sample>> \in Seq(RiseSample) /\ Len(<<sample>>) = 1 BY <1>1
<1>6. /\ <<sample>> \o rest \in Seq(RiseSample)
      /\ Len(<<sample>> \o rest) = 1 + kept
  BY <1>4, <1>5
<1>7. CASE RiseEnabled
  <2>1. UpdateRiseRateBuffer(buffer, humidity, now) = <<sample>> \o rest
    BY <1>7 DEF UpdateRiseRateBuffer, sample, rest, kept
  <2>2. QED BY <2>1, <1>3, <1>6, RiseRateAssumption
<1>8. CASE ~RiseEnabled BY <1>8 DEF UpdateRiseRateBuffer
<1>9. QED BY <1>7, <1>8

\* The state at power-up is well typed.
LEMMA InitType == Init => TypeOK
<1> SUFFICES ASSUME Init PROVE TypeOK OBVIOUS
<1>1. 0 \in UInt32 BY ClockModulusAssumption DEF UInt32
<1>2. LongAgo \in Int BY ConfigAssumption, ClockModulusAssumption DEF LongAgo, UInt32
<1>3. decision \in ControlDecision BY <1>1 DEF Init, ControlDecision, Modes, Reasons
<1>4. riseBuffer \in Seq(RiseSample) /\ Len(riseBuffer) <= RiseBufferSize
  BY RiseRateAssumption DEF Init
<1>5. failures \in 0 .. FailureMax /\ missed \in 0 .. FailureLimit
  BY ConfigAssumption DEF Init
<1>6. /\ relayOn \in BOOLEAN /\ hasValidReading \in BOOLEAN
      /\ mqttReceived \in BOOLEAN /\ mqttDesiredOn \in BOOLEAN
      /\ overrideType \in {"none", "on", "off"}
  BY DEF Init
<1>7. /\ lastRelayChange \in UInt32 /\ relayOnSince \in UInt32
      /\ mqttIssuedAt \in UInt32 /\ overrideExpiresAt \in UInt32
  BY <1>1 DEF Init
<1>8. /\ uptime \in Nat /\ switchedAt \in Nat /\ tickedAt \in Nat
      /\ starts \in Nat /\ lastHumidity \in Int
      /\ mqttSentAt \in Int /\ overrideSentAt \in Int
  BY <1>2 DEF Init
<1>9. QED BY <1>3, <1>4, <1>5, <1>6, <1>7, <1>8 DEF TypeOK

\* What Tick decides, in types.
LEMMA OutcomeType ==
  ASSUME TypeOK, NEW now \in UInt32
  PROVE  Outcome(now).on \in BOOLEAN /\ Outcome(now).reason \in Reasons
<1>1. /\ HysteresisCandidate.on \in BOOLEAN
      /\ HysteresisCandidate.reason \in Reasons
  BY DEF HysteresisCandidate, TypeOK, Reasons
<1>2. /\ FallbackCandidate(now).on \in BOOLEAN
      /\ FallbackCandidate(now).reason \in Reasons
  BY <1>1, ConfigAssumption DEF FallbackCandidate, TypeOK, Reasons
<1>3. /\ ComputeCandidate(now).on \in BOOLEAN
      /\ ComputeCandidate(now).reason \in Reasons
  BY <1>2 DEF ComputeCandidate, TypeOK, Reasons
<1>4. QED BY <1>3 DEF Outcome, TypeOK, Reasons

\* Tick keeps every variable in its type.
LEMMA TickType ==
  ASSUME TypeOK, NEW now \in UInt32, Tick(now)
  PROVE  TypeOK'
<1>1. Outcome(now).on \in BOOLEAN /\ Outcome(now).reason \in Reasons
  BY OutcomeType
<1>2. decision' \in ControlDecision
  <2>1. OperatingMode(now) \in Modes BY DEF OperatingMode, Modes
  <2>2. (IF IsOverrideActive(now) THEN overrideExpiresAt ELSE 0) \in UInt32
    BY ClockModulusAssumption DEF TypeOK, UInt32
  <2>3. IsOverrideActive(now) \in BOOLEAN BY DEF IsOverrideActive
  <2>4. QED BY <1>1, <2>1, <2>2, <2>3 DEF Tick, ControlDecision
<1>3. /\ relayOn' \in BOOLEAN /\ lastRelayChange' \in UInt32
      /\ relayOnSince' \in UInt32 /\ switchedAt' \in Nat /\ starts' \in Nat
  BY <1>1 DEF Tick, SwitchRelay, TypeOK
<1>4. overrideType' \in {"none", "on", "off"} BY DEF Tick, TypeOK
<1>5. QED
  BY <1>2, <1>3, <1>4 DEF Tick, TypeOK, overrideVars, sensorVars, mqttVars

\* OnSensorReading keeps every variable in its type.
LEMMA ReadingType ==
  ASSUME TypeOK, NEW reading \in Readings, NEW now \in UInt32,
         OnSensorReading(reading, now)
  PROVE  TypeOK'
<1>1. reading.humidity \in Int BY EnvironmentAssumption
<1>2. riseBuffer' \in Seq(RiseSample) /\ Len(riseBuffer') <= RiseBufferSize
  BY <1>1, RiseBufferType DEF OnSensorReading, TypeOK
<1>3. failures' \in 0 .. FailureMax /\ missed' \in 0 .. FailureLimit
  BY ConfigAssumption DEF OnSensorReading, CountFailure, TypeOK
<1>4. hasValidReading' \in BOOLEAN /\ lastHumidity' \in Int
  BY <1>1 DEF OnSensorReading, TypeOK
<1>5. QED
  BY <1>2, <1>3, <1>4
  DEF OnSensorReading, TypeOK, relayVars, mqttVars, overrideVars, tickVars

\* OnMqttDesired keeps every variable in its type.
LEMMA DesiredType ==
  ASSUME TypeOK, NEW on \in BOOLEAN, NEW age \in UInt32, NEW now \in UInt32,
         OnMqttDesired(on, age, now)
  PROVE  TypeOK'
<1>1. mqttIssuedAt' \in UInt32 BY SaturatingSubType DEF OnMqttDesired, IssuedAt
<1>2. mqttSentAt' \in Int
  BY ClockModulusAssumption DEF OnMqttDesired, TypeOK, UInt32
<1>3. QED
  BY <1>1, <1>2
  DEF OnMqttDesired, TypeOK, relayVars, sensorVars, overrideVars, tickVars

\* The duration granted to a command is clamped to the longest override.
LEMMA DurationType ==
  ASSUME NEW duration \in Durations
  PROVE  EffectiveDuration(duration) \in UInt32 /\ EffectiveDuration(duration) <= OverrideMax
<1>1. duration \in UInt32 BY EnvironmentAssumption
<1>2. QED
  BY <1>1, ConfigAssumption, ClockModulusAssumption DEF EffectiveDuration, UInt32

\* OnCommand keeps every variable in its type.
LEMMA CommandType ==
  ASSUME TypeOK, NEW type \in {"on", "off", "auto"}, NEW duration \in Durations,
         NEW age \in UInt32, NEW now \in UInt32,
         OnCommand(type, duration, age, now)
  PROVE  TypeOK'
<1>1. age \in Int BY ClockModulusAssumption DEF UInt32
<1>2. LongAgo \in Int /\ 0 \in UInt32
  BY ConfigAssumption, ClockModulusAssumption DEF LongAgo, UInt32
<1>3. Add32(now, EffectiveDuration(duration)) \in UInt32 BY DurationType, Add32Type
<1>4. /\ overrideType' \in {"none", "on", "off"}
      /\ overrideExpiresAt' \in UInt32 /\ overrideSentAt' \in Int
  BY <1>1, <1>2, <1>3 DEF OnCommand, TypeOK, overrideVars
<1>5. QED
  BY <1>4 DEF OnCommand, TypeOK, relayVars, sensorVars, mqttVars, tickVars

\* The time the callers pass is a uint32_t.
LEMMA NowType == ASSUME TypeOK PROVE Now \in UInt32
  BY MillisType DEF Now, TypeOK

\* No step of the controller leaves the types.
LEMMA NextType == TypeOK /\ [Next]_vars => TypeOK'
<1> SUFFICES ASSUME TypeOK, [Next]_vars PROVE TypeOK' OBVIOUS
<1>1. Now \in UInt32 BY NowType
<1>2. CASE ReadSensor BY <1>1, <1>2, ReadingType DEF ReadSensor
<1>3. CASE ReceiveDesired
  BY <1>1, <1>3, DesiredType, EnvironmentAssumption DEF ReceiveDesired
<1>4. CASE ReceiveCommand
  BY <1>1, <1>4, CommandType, EnvironmentAssumption DEF ReceiveCommand
<1>5. CASE TickNow BY <1>1, <1>5, TickType DEF TickNow
<1>6. CASE Advance
  BY <1>6 DEF Advance, TypeOK, relayVars, sensorVars, mqttVars, overrideVars, tickVars
<1>7. CASE UNCHANGED vars
  BY <1>7
  DEF vars, TypeOK, relayVars, sensorVars, mqttVars, overrideVars, tickVars
<1>8. QED BY <1>2, <1>3, <1>4, <1>5, <1>6, <1>7 DEF Next

\* The type invariant: in particular no counter of the controller leaves its
\* width and the stored time stamps are always uint32_t values.
THEOREM TypesHold == Spec => []TypeOK
<1>1. Init => TypeOK BY InitType
<1>2. TypeOK /\ [Next]_vars => TypeOK' BY NextType
<1>3. QED BY <1>1, <1>2, PTL DEF Spec

-----------------------------------------------------------------------------
(* The dwell times, whatever the clock does *)

\* The controller's time stamps are the real times, seen through the clock.
TimersInv ==
  /\ switchedAt <= uptime
  /\ lastRelayChange = Millis(switchedAt)
  /\ relayOn => relayOnSince = lastRelayChange

\* Every start is paid for with a whole cycle, the run in progress excepted.
StartsInv ==
  starts * (ShortestRun + MinFanOff)
    <= switchedAt + IF relayOn THEN ShortestRun ELSE 0

\* The configured times are naturals, and the shortest run is the least of two.
LEMMA ShortestRunType ==
  /\ ShortestRun \in Nat /\ MinFanOff \in Nat /\ MinFanOn \in Nat
  /\ MaxRuntime \in Nat \ {0} /\ StaleTimeout \in Nat /\ OverrideMax \in Nat
  /\ ShortestRun <= MinFanOn /\ ShortestRun <= MaxRuntime
  BY ConfigAssumption, ClockModulusAssumption DEF ShortestRun, UInt32

\* Only the cutoff and a finished dwell let a Tick change the relay, whatever time
\* its caller passes.
LEMMA SwitchElapsed ==
  ASSUME TypeOK, NEW now \in UInt32, relayOn => relayOnSince = lastRelayChange,
         Tick(now), relayOn' # relayOn
  PROVE  /\ SaturatingSub(now, lastRelayChange) \in Nat
         /\ SaturatingSub(now, lastRelayChange) >=
              IF relayOn THEN ShortestRun ELSE MinFanOff
<1>1. SaturatingSub(now, lastRelayChange) \in Nat
  <2>1. lastRelayChange \in UInt32 BY DEF TypeOK
  <2>2. SaturatingSub(now, lastRelayChange) \in UInt32 BY <2>1, SaturatingSubType
  <2>3. QED BY <2>2, ClockModulusAssumption DEF UInt32
<1>2. relayOn' = Outcome(now).on BY DEF Tick, SwitchRelay
<1>3. CASE MaxRuntimeExceeded(now)
  <2>1. relayOn /\ SaturatingSub(now, lastRelayChange) >= MaxRuntime
    BY <1>3 DEF MaxRuntimeExceeded
  <2>2. QED BY <1>1, <2>1, ShortestRunType
<1>4. CASE ~MaxRuntimeExceeded(now)
  <2>1. ~DwellHolds(now) BY <1>2, <1>4 DEF Outcome
  <2>2. QED BY <1>1, <2>1, ShortestRunType DEF DwellHolds
<1>5. QED BY <1>3, <1>4

\* With the time of a Tick on the clock, the dwell is a real one.
LEMMA SwitchDwell ==
  ASSUME TypeOK, TimersInv, Tick(Now), relayOn' # relayOn
  PROVE  uptime - switchedAt >= IF relayOn THEN ShortestRun ELSE MinFanOff
<1>1. SaturatingSub(Now, lastRelayChange) <= uptime - switchedAt
  BY ElapsedNeverLate DEF TypeOK, TimersInv, Now
<1>2. /\ SaturatingSub(Now, lastRelayChange) \in Nat
      /\ SaturatingSub(Now, lastRelayChange) >=
           IF relayOn THEN ShortestRun ELSE MinFanOff
  BY SwitchElapsed, NowType DEF TimersInv
<1>3. QED BY <1>1, <1>2, ShortestRunType DEF TypeOK

\* Everything but a Tick leaves the relay and its timers alone.
LEMMA OnlyTickSwitches ==
  ASSUME [Next]_vars, ~TickNow
  PROVE  UNCHANGED <<relayVars, tickVars>> /\ (uptime' = uptime \/ Advance)
<1>1. CASE ReadSensor BY <1>1 DEF ReadSensor, OnSensorReading
<1>2. CASE ReceiveDesired BY <1>2 DEF ReceiveDesired, OnMqttDesired
<1>3. CASE ReceiveCommand BY <1>3 DEF ReceiveCommand, OnCommand
<1>4. CASE Advance BY <1>4 DEF Advance
<1>5. CASE UNCHANGED vars BY <1>5 DEF vars
<1>6. QED BY <1>1, <1>2, <1>3, <1>4, <1>5 DEF Next

\* The timers and the count of starts are right at power-up.
LEMMA TimersInit == Init => TimersInv /\ StartsInv
<1> SUFFICES ASSUME Init PROVE TimersInv /\ StartsInv OBVIOUS
<1>1. Millis(0) = 0 BY MillisExact, ClockModulusAssumption
<1>2. TimersInv BY <1>1 DEF Init, TimersInv
<1>3. StartsInv BY ShortestRunType DEF Init, StartsInv
<1>4. QED BY <1>2, <1>3

\* Every step keeps the stored time stamps the images of the real times.
LEMMA TimersNext ==
  ASSUME TypeOK, TimersInv, [Next]_vars
  PROVE  TimersInv'
<1>1. CASE TickNow
  <2>1. uptime' = uptime BY <1>1 DEF TickNow, Tick
  <2>2. relayOn' = Outcome(Now).on BY <1>1 DEF TickNow, Tick, SwitchRelay
  <2>3. CASE relayOn' # relayOn
    <3>1. /\ lastRelayChange' = Now /\ switchedAt' = uptime
          /\ relayOn' => relayOnSince' = Now
      BY <1>1, <2>2, <2>3 DEF TickNow, Tick, SwitchRelay
    <3>2. QED BY <2>1, <3>1 DEF TimersInv, Now, TypeOK
  <2>4. CASE relayOn' = relayOn
    <3>1. UNCHANGED <<lastRelayChange, relayOnSince, switchedAt>>
      BY <1>1, <2>2, <2>4 DEF TickNow, Tick, SwitchRelay
    <3>2. QED BY <2>1, <2>4, <3>1 DEF TimersInv
  <2>5. QED BY <2>3, <2>4
<1>2. CASE ~TickNow
  <2>1. UNCHANGED <<relayVars, tickVars>> /\ (uptime' = uptime \/ Advance)
    BY <1>2, OnlyTickSwitches
  <2>2. uptime' >= uptime BY <2>1 DEF Advance, TypeOK
  <2>3. switchedAt' <= uptime'
    <3>1. uptime' \in Nat BY <2>1 DEF Advance, TypeOK
    <3>2. QED BY <2>1, <2>2, <3>1 DEF TimersInv, TypeOK, tickVars
  <2>4. QED BY <2>1, <2>3 DEF TimersInv, relayVars, tickVars
<1>3. QED BY <1>1, <1>2

\* Every step keeps the starts within the cycles that were paid for.
LEMMA StartsNext ==
  ASSUME TypeOK, TimersInv, StartsInv, [Next]_vars
  PROVE  StartsInv'
<1> DEFINE cycle == ShortestRun + MinFanOff
<1>1. cycle \in Nat /\ starts \in Nat BY ShortestRunType DEF TypeOK
<1>2. CASE TickNow /\ relayOn' # relayOn
  <2>1. uptime - switchedAt >= IF relayOn THEN ShortestRun ELSE MinFanOff
    BY <1>2, SwitchDwell DEF TickNow
  <2>2. /\ switchedAt' = uptime
        /\ starts' = IF relayOn' THEN starts + 1 ELSE starts
    BY <1>2 DEF TickNow, Tick, SwitchRelay
  <2>3. (starts + 1) * cycle = starts * cycle + cycle BY <1>1
  <2>4. CASE relayOn
    <3>1. ~relayOn' BY <1>2, <2>4, NextType DEF TypeOK
    <3>2. starts * cycle <= switchedAt + ShortestRun BY <2>4 DEF StartsInv
    <3>3. starts * cycle \in Nat BY <1>1
    <3>4. starts * cycle <= uptime
      BY <2>1, <2>4, <3>2, <3>3, ShortestRunType DEF TypeOK
    <3>5. QED BY <2>2, <3>1, <3>4 DEF StartsInv, TypeOK
  <2>5. CASE ~relayOn
    <3>1. relayOn' BY <1>2, <2>5, NextType DEF TypeOK
    <3>2. starts * cycle <= switchedAt
      BY <2>5 DEF StartsInv, TypeOK
    <3>3. starts * cycle \in Nat BY <1>1
    <3>4. starts * cycle + cycle <= uptime + ShortestRun
      BY <2>1, <2>5, <3>2, <3>3, ShortestRunType DEF TypeOK
    <3>5. QED BY <2>2, <2>3, <3>1, <3>4 DEF StartsInv
  <2>6. QED BY <2>4, <2>5
<1>3. CASE ~(TickNow /\ relayOn' # relayOn)
  <2>1. UNCHANGED <<relayOn, switchedAt, starts>>
    <3>1. CASE TickNow BY <1>3, <3>1 DEF TickNow, Tick, SwitchRelay
    <3>2. CASE ~TickNow BY <3>2, OnlyTickSwitches DEF relayVars, tickVars
    <3>3. QED BY <3>1, <3>2
  <2>2. QED BY <2>1 DEF StartsInv
<1>4. QED BY <1>2, <1>3

\* No clock value, wrapped or not, lets a source shorten a dwell.
THEOREM DwellTimesHold == Spec => DwellKept
<1>1. Init => TypeOK /\ TimersInv BY InitType, TimersInit
<1>2. TypeOK /\ TimersInv /\ [Next]_vars => (TypeOK /\ TimersInv)'
  BY NextType, TimersNext
<1>3. TypeOK /\ TimersInv /\ [Next]_vars =>
        [relayOn' # relayOn =>
           uptime - switchedAt >= IF relayOn THEN ShortestRun ELSE MinFanOff]_vars
  <2> SUFFICES ASSUME TypeOK, TimersInv, [Next]_vars, relayOn' # relayOn
               PROVE  uptime - switchedAt >= IF relayOn THEN ShortestRun ELSE MinFanOff
    OBVIOUS
  <2>1. TickNow BY OnlyTickSwitches DEF relayVars
  <2>2. QED BY <2>1, SwitchDwell DEF TickNow
<1>4. QED BY <1>1, <1>2, <1>3, PTL DEF Spec, DwellKept

\* The fan starts at most once per shortest cycle, over any number of wraps.
THEOREM StartsAreBounded == Spec => []StartsBounded
<1> DEFINE Inv == TypeOK /\ TimersInv /\ StartsInv
<1>1. Init => Inv BY InitType, TimersInit
<1>2. Inv /\ [Next]_vars => Inv' BY NextType, TimersNext, StartsNext
<1>3. Inv => StartsBounded
  <2> SUFFICES ASSUME Inv PROVE StartsBounded OBVIOUS
  <2>1. starts * (ShortestRun + MinFanOff) \in Nat
    BY ShortestRunType DEF TypeOK
  <2>2. switchedAt + (IF relayOn THEN ShortestRun ELSE 0) <= uptime + ShortestRun
    BY ShortestRunType DEF TimersInv, TypeOK
  <2>3. QED BY <2>1, <2>2, ShortestRunType DEF StartsInv, StartsBounded, TypeOK
<1>4. QED BY <1>1, <1>2, <1>3, PTL DEF Spec

-----------------------------------------------------------------------------
(* The runtime limit, for an uptime below the wrap *)

\* The controller ticks in time, and a Tick that leaves the relay on found it
\* on for less than the limit.
RuntimeInv ==
  /\ uptime <= Horizon
  /\ switchedAt <= tickedAt /\ tickedAt <= uptime
  /\ uptime - tickedAt <= TickPeriod
  /\ relayOn => tickedAt - switchedAt < MaxRuntime

\* Before the first wrap the saturating differences are exact.
LEMMA ElapsedExact ==
  ASSUME Horizon < ClockModulus, TypeOK, TimersInv, RuntimeInv
  PROVE  /\ Now = uptime
         /\ SaturatingSub(Now, lastRelayChange) = uptime - switchedAt
<1>1. uptime < ClockModulus /\ switchedAt < ClockModulus
  BY ClockModulusAssumption, EnvironmentAssumption DEF TypeOK, TimersInv, RuntimeInv
<1>2. Now = uptime /\ lastRelayChange = switchedAt
  BY <1>1, MillisExact DEF Now, TypeOK, TimersInv
<1>3. QED BY <1>2 DEF SaturatingSub, TimersInv, TypeOK

\* The runtime invariant holds at power-up.
LEMMA RuntimeInit == Init => RuntimeInv
  BY ShortestRunType, EnvironmentAssumption DEF Init, RuntimeInv

\* Every step keeps a relay that stays on within the limit at its last Tick.
LEMMA RuntimeNext ==
  ASSUME Horizon < ClockModulus, TypeOK, TimersInv, RuntimeInv, [Next]_vars
  PROVE  RuntimeInv'
<1>1. CASE TickNow
  <2>1. uptime' = uptime /\ tickedAt' = uptime BY <1>1 DEF TickNow, Tick
  <2>2. relayOn' = Outcome(Now).on BY <1>1 DEF TickNow, Tick, SwitchRelay
  <2>3. CASE relayOn' # relayOn
    <3>1. switchedAt' = uptime BY <1>1, <2>2, <2>3 DEF TickNow, Tick, SwitchRelay
    <3>2. QED
      BY <2>1, <3>1, ShortestRunType, EnvironmentAssumption DEF RuntimeInv, TypeOK
  <2>4. CASE relayOn' = relayOn
    <3>1. switchedAt' = switchedAt
      BY <1>1, <2>2, <2>4 DEF TickNow, Tick, SwitchRelay
    <3>2. relayOn => uptime - switchedAt < MaxRuntime
      <4> SUFFICES ASSUME relayOn PROVE uptime - switchedAt < MaxRuntime OBVIOUS
      <4>0. relayOn = TRUE BY DEF TypeOK
      <4>1. ~MaxRuntimeExceeded(Now) BY <2>2, <2>4, <4>0 DEF Outcome
      <4>2. ~(uptime - switchedAt >= MaxRuntime)
        BY <4>1, ElapsedExact DEF MaxRuntimeExceeded, TimersInv
      <4>3. QED BY <4>2, ShortestRunType DEF TypeOK
    <3>3. QED
      BY <2>1, <2>4, <3>1, <3>2, EnvironmentAssumption DEF RuntimeInv, TimersInv, TypeOK
  <2>5. QED BY <2>3, <2>4
<1>2. CASE ~TickNow
  <2>1. UNCHANGED <<relayVars, tickVars>> /\ (uptime' = uptime \/ Advance)
    BY <1>2, OnlyTickSwitches
  <2>2. CASE uptime' = uptime
    <3>1. UNCHANGED <<relayOn, switchedAt, tickedAt>>
      BY <2>1 DEF relayVars, tickVars
    <3>2. QED BY <2>2, <3>1 DEF RuntimeInv
  <2>3. CASE Advance
    BY <2>1, <2>3, EnvironmentAssumption
    DEF Advance, RuntimeInv, relayVars, tickVars, TypeOK
  <2>4. QED BY <2>1, <2>2, <2>3
<1>3. QED BY <1>1, <1>2

\* A run within the limit at the last Tick is within the stated bound now.
LEMMA RuntimeInvBounds == TypeOK /\ RuntimeInv => RuntimeBounded
  BY ShortestRunType, EnvironmentAssumption DEF TypeOK, RuntimeInv, RuntimeBounded

\* The invariant of the relay's timers, below the wrap.
RelayInv == TypeOK /\ TimersInv /\ RuntimeInv

\* Below the wrap the types, the timers and the runtime invariant all hold.
LEMMA RelayInvHolds ==
  ASSUME Horizon < ClockModulus
  PROVE  Spec => []RelayInv
<1>1. Init => RelayInv BY InitType, TimersInit, RuntimeInit DEF RelayInv
<1>2. RelayInv /\ [Next]_vars => RelayInv'
  BY NextType, TimersNext, RuntimeNext DEF RelayInv
<1>3. QED BY <1>1, <1>2, PTL DEF Spec

\* As long as the clock does not wrap, no run of the fan exceeds the limit by
\* more than the wait for the next Tick.
THEOREM RuntimeIsBounded ==
  ASSUME Horizon < ClockModulus
  PROVE  Spec => []RuntimeBounded
<1>1. RelayInv => RuntimeBounded BY RuntimeInvBounds DEF RelayInv
<1>2. QED BY <1>1, RelayInvHolds, PTL

\* As long as the clock does not wrap, the controller implements the abstract
\* relay: its dwell times, its longest run and its count of starts.
THEOREM RelayIsImplemented ==
  ASSUME Horizon < ClockModulus
  PROVE  Spec => ImplementsRelay
<1>1. Init => Relay!Init BY DEF Init, Relay!Init
<1>2. RelayInv /\ RelayInv' /\ [Next]_vars => [Relay!Next]_(Relay!vars)
  <2> SUFFICES ASSUME RelayInv, RelayInv', [Next]_vars
               PROVE  Relay!Next \/ UNCHANGED Relay!vars
    OBVIOUS
  <2>1. CASE TickNow /\ relayOn' # relayOn
    <3>1. uptime - switchedAt >= IF relayOn THEN ShortestRun ELSE MinFanOff
      BY <2>1, SwitchDwell DEF TickNow, RelayInv
    <3>2. /\ switchedAt' = uptime /\ uptime' = uptime
          /\ starts' = IF relayOn' THEN starts + 1 ELSE starts
      BY <2>1 DEF TickNow, Tick, SwitchRelay
    <3>3. relayOn \in BOOLEAN /\ relayOn' \in BOOLEAN BY DEF RelayInv, TypeOK
    <3>4. CASE relayOn
      <4>1. Relay!TurnOff BY <2>1, <3>1, <3>2, <3>3, <3>4 DEF Relay!TurnOff
      <4>2. QED BY <4>1 DEF Relay!Next
    <3>5. CASE ~relayOn
      <4>1. Relay!TurnOn BY <2>1, <3>1, <3>2, <3>3, <3>5 DEF Relay!TurnOn
      <4>2. QED BY <4>1 DEF Relay!Next
    <3>6. QED BY <3>4, <3>5
  <2>2. CASE Advance
    <3>1. uptime' = uptime + 1 /\ UNCHANGED <<relayOn, switchedAt, starts>>
      BY <2>2 DEF Advance, relayVars, tickVars
    <3>2. RuntimeBounded'
      <4>1. (TypeOK /\ RuntimeInv)' BY DEF RelayInv
      <4>2. QED BY <4>1, RuntimeInvBounds, PTL
    <3>3. relayOn => uptime + 1 - switchedAt <= MaxRuntime + TickPeriod - 1
      BY <3>1, <3>2, ShortestRunType, EnvironmentAssumption
      DEF RuntimeBounded, RelayInv, TypeOK
    <3>4. QED BY <3>1, <3>3 DEF Relay!Pass, Relay!Next
  <2>3. CASE TickNow /\ relayOn' = relayOn
    BY <2>3 DEF TickNow, Tick, SwitchRelay, Relay!vars
  <2>4. CASE ~TickNow /\ ~Advance
    BY <2>4, OnlyTickSwitches DEF relayVars, tickVars, Relay!vars
  <2>5. QED BY <2>1, <2>2, <2>3, <2>4
<1>3. QED BY <1>1, <1>2, RelayInvHolds, PTL DEF Spec, ImplementsRelay, Relay!Spec

-----------------------------------------------------------------------------
(* Overrides and messages, for an uptime below the wrap *)

\* An override expires within its longest duration and the stale timeout of
\* the command; a message is dated at its issue, or at power-up if it is older.
MessagesInv ==
  /\ uptime <= Horizon
  /\ overrideType # "none" =>
       overrideExpiresAt <= overrideSentAt + StaleTimeout + OverrideMax
  /\ mqttReceived =>
       mqttIssuedAt = IF mqttSentAt >= 0 THEN mqttSentAt ELSE 0
  /\ mqttIssuedAt <= uptime

\* The invariant of messages and overrides holds at power-up.
LEMMA MessagesInit == Init => MessagesInv
  BY EnvironmentAssumption DEF Init, MessagesInv

\* Every step keeps the dates of messages and overrides tied to the real ones.
LEMMA MessagesNext ==
  ASSUME Horizon + OverrideMax < ClockModulus, TypeOK, MessagesInv, [Next]_vars
  PROVE  MessagesInv'
<1>1. Horizon \in Nat /\ uptime < ClockModulus
  BY EnvironmentAssumption, ShortestRunType, ClockModulusAssumption
  DEF MessagesInv, TypeOK
<1>2. Now = uptime BY <1>1, MillisExact DEF Now, TypeOK
<1>3. CASE ReadSensor
  BY <1>3 DEF ReadSensor, OnSensorReading, MessagesInv, mqttVars, overrideVars
<1>4. CASE ReceiveDesired
  <2>1. PICK on \in BOOLEAN, age \in Ages : OnMqttDesired(on, age, Now)
    BY <1>4 DEF ReceiveDesired
  <2>2. age \in Nat BY EnvironmentAssumption, ClockModulusAssumption DEF UInt32
  <2>3. /\ mqttIssuedAt' = SaturatingSub(uptime, age)
        /\ mqttSentAt' = uptime - age
        /\ UNCHANGED <<uptime, overrideType, overrideExpiresAt, overrideSentAt>>
    BY <1>2, <2>1 DEF OnMqttDesired, IssuedAt, overrideVars
  <2>4. /\ mqttIssuedAt' = IF mqttSentAt' >= 0 THEN mqttSentAt' ELSE 0
        /\ mqttIssuedAt' <= uptime'
    BY <2>2, <2>3 DEF SaturatingSub, TypeOK
  <2>5. QED BY <2>3, <2>4 DEF MessagesInv
<1>5. CASE ReceiveCommand
  <2>1. PICK type \in {"on", "off", "auto"}, duration \in Durations, age \in Ages :
          OnCommand(type, duration, age, Now)
    BY <1>5 DEF ReceiveCommand
  <2>2. age \in Nat BY EnvironmentAssumption, ClockModulusAssumption DEF UInt32
  <2>3. UNCHANGED <<uptime, mqttReceived, mqttIssuedAt, mqttSentAt>>
    BY <2>1 DEF OnCommand, mqttVars
  <2>4. overrideType' # "none" =>
          overrideExpiresAt' <= overrideSentAt' + StaleTimeout + OverrideMax
    <3>1. CASE Rejected(age)
      BY <2>1, <3>1 DEF OnCommand, overrideVars, MessagesInv
    <3>2. CASE ~Rejected(age) /\ type \in {"auto", "none"}
      BY <2>1, <3>2 DEF OnCommand
    <3>3. CASE ~Rejected(age) /\ type \notin {"auto", "none"}
      <4>1. /\ overrideExpiresAt' = Add32(uptime, EffectiveDuration(duration))
            /\ overrideSentAt' = uptime - age
        BY <1>2, <2>1, <3>3 DEF OnCommand
      <4>2. /\ EffectiveDuration(duration) \in Nat
            /\ EffectiveDuration(duration) <= OverrideMax
        BY DurationType, ClockModulusAssumption DEF UInt32
      <4>3. /\ uptime + EffectiveDuration(duration) \in Nat
            /\ uptime + EffectiveDuration(duration) < ClockModulus
        BY <1>1, <4>2, ShortestRunType, ClockModulusAssumption DEF MessagesInv, TypeOK
      <4>4. overrideExpiresAt' = uptime + EffectiveDuration(duration)
        BY <4>1, <4>3, MillisExact DEF Add32, Millis
      <4>5. age <= StaleTimeout BY <2>2, <3>3, ShortestRunType DEF Rejected
      <4>6. QED BY <2>2, <4>1, <4>2, <4>4, <4>5, ShortestRunType DEF TypeOK
    <3>4. QED BY <3>1, <3>2, <3>3
  <2>5. QED BY <2>3, <2>4 DEF MessagesInv
<1>6. CASE TickNow
  BY <1>6 DEF TickNow, Tick, MessagesInv, mqttVars
<1>7. CASE Advance
  <2>1. UNCHANGED <<mqttReceived, mqttIssuedAt, mqttSentAt, overrideType,
                    overrideExpiresAt, overrideSentAt>>
    BY <1>7 DEF Advance, mqttVars, overrideVars
  <2>2. uptime' = uptime + 1 /\ uptime' <= Horizon
    BY <1>1, <1>7 DEF Advance, TypeOK
  <2>3. mqttIssuedAt <= uptime'
    BY <2>2, ClockModulusAssumption DEF MessagesInv, TypeOK, UInt32
  <2>4. QED BY <2>1, <2>2, <2>3 DEF MessagesInv
<1>8. CASE UNCHANGED vars
  BY <1>8 DEF vars, MessagesInv, mqttVars, overrideVars
<1>9. QED BY <1>3, <1>4, <1>5, <1>6, <1>7, <1>8 DEF Next

\* Below the wrap the invariant of messages and overrides always holds.
LEMMA MessagesHold ==
  ASSUME Horizon + OverrideMax < ClockModulus
  PROVE  Spec => [](TypeOK /\ MessagesInv)
<1>1. Init => TypeOK /\ MessagesInv BY InitType, MessagesInit
<1>2. (TypeOK /\ MessagesInv) /\ [Next]_vars => (TypeOK /\ MessagesInv)'
  BY NextType, MessagesNext
<1>3. QED BY <1>1, <1>2, PTL DEF Spec

\* The clock is exact and the decision's mode is the one Tick computed.
LEMMA TickMode ==
  ASSUME Horizon + OverrideMax < ClockModulus, TypeOK, MessagesInv, TickNow
  PROVE  Now = uptime /\ decision'.mode = OperatingMode(uptime)
<1>1. uptime < ClockModulus
  BY EnvironmentAssumption, ShortestRunType, ClockModulusAssumption
  DEF MessagesInv, TypeOK
<1>2. Now = uptime BY <1>1, MillisExact DEF Now, TypeOK
<1>3. decision'.mode = OperatingMode(Now) BY DEF TickNow, Tick
<1>4. QED BY <1>2, <1>3

\* As long as neither the clock nor an expiry time wraps, no override governs
\* the fan longer than its command allows.
THEOREM OverridesLapse ==
  ASSUME Horizon + OverrideMax < ClockModulus
  PROVE  Spec => OverrideLapses
<1>1. TypeOK /\ MessagesInv /\ [Next]_vars =>
        [decision'.mode \in {"manual_on", "manual_off"} /\ TickNow =>
           uptime - overrideSentAt < OverrideMax + StaleTimeout]_vars
  <2> SUFFICES ASSUME TypeOK, MessagesInv, TickNow,
                      decision'.mode \in {"manual_on", "manual_off"}
               PROVE  uptime - overrideSentAt < OverrideMax + StaleTimeout
    OBVIOUS
  <2>1. IsOverrideActive(uptime) BY TickMode DEF OperatingMode
  <2>2. overrideType # "none" /\ uptime < overrideExpiresAt
    BY <2>1 DEF IsOverrideActive
  <2>3. QED
    BY <2>2, ShortestRunType, ClockModulusAssumption DEF MessagesInv, TypeOK, UInt32
<1>2. QED BY <1>1, MessagesHold, PTL DEF Spec, OverrideLapses

\* As long as the clock does not wrap and once the device has been up for the
\* stale timeout, no stale message decides.
THEOREM StaleMessagesAreIgnored ==
  ASSUME Horizon + OverrideMax < ClockModulus
  PROVE  Spec => StaleCommandIgnoredAfterBoot
<1>1. TypeOK /\ MessagesInv /\ [Next]_vars =>
        [decision'.mode = "automatic" /\ uptime > StaleTimeout /\ TickNow =>
           uptime - mqttSentAt <= StaleTimeout]_vars
  <2> SUFFICES ASSUME TypeOK, MessagesInv, TickNow,
                      decision'.mode = "automatic", uptime > StaleTimeout
               PROVE  uptime - mqttSentAt <= StaleTimeout
    OBVIOUS
  <2>1. IsMqttFresh(uptime) BY TickMode DEF OperatingMode
  <2>2. mqttReceived /\ Sub32(uptime, mqttIssuedAt) <= StaleTimeout
    BY <2>1 DEF IsMqttFresh
  <2>3. /\ uptime - mqttIssuedAt \in Nat
        /\ uptime - mqttIssuedAt < ClockModulus
    BY EnvironmentAssumption, ShortestRunType, ClockModulusAssumption
    DEF MessagesInv, TypeOK, UInt32
  <2>4. Sub32(uptime, mqttIssuedAt) = uptime - mqttIssuedAt
    BY <2>3, MillisExact DEF Sub32, Millis
  <2>5. QED BY <2>2, <2>4, ShortestRunType DEF MessagesInv, TypeOK
<1>2. QED BY <1>1, MessagesHold, PTL DEF Spec, StaleCommandIgnoredAfterBoot

-----------------------------------------------------------------------------
(* What a Tick decides, for an uptime below the wrap *)

\* The history of failures is the code's counter, cut off at the limit.
SensorInv ==
  missed = IF failures < FailureLimit THEN failures ELSE FailureLimit

\* Every step keeps the two counts of failures together, although the code's
\* own goes on to its largest value.
LEMMA SensorNext ==
  ASSUME TypeOK, SensorInv, [Next]_vars
  PROVE  SensorInv'
<1>1. CASE ReadSensor
  <2>1. PICK reading \in Readings : OnSensorReading(reading, Now) BY <1>1 DEF ReadSensor
  <2>2. CASE InRange(reading)
    BY <2>1, <2>2, ConfigAssumption DEF OnSensorReading, SensorInv
  <2>3. CASE ~InRange(reading)
    BY <2>1, <2>3, ConfigAssumption DEF OnSensorReading, CountFailure, SensorInv, TypeOK
  <2>4. QED BY <2>2, <2>3
<1>2. CASE ~ReadSensor
  <2>1. UNCHANGED <<missed, failures>>
    BY <1>2
    DEF Next, ReceiveDesired, OnMqttDesired, ReceiveCommand, OnCommand, TickNow, Tick,
        Advance, vars, sensorVars
  <2>2. QED BY <2>1 DEF SensorInv
<1>3. QED BY <1>1, <1>2

\* What the proofs about single decisions rest on.
DecisionInv == RelayInv /\ SensorInv

\* Below the wrap it always holds.
LEMMA DecisionInvHolds ==
  ASSUME Horizon < ClockModulus
  PROVE  Spec => []DecisionInv
<1>1. Init => SensorInv BY ConfigAssumption DEF Init, SensorInv
<1>2. RelayInv /\ SensorInv /\ [Next]_vars => SensorInv'
  BY SensorNext DEF RelayInv
<1>3. QED BY <1>1, <1>2, RelayInvHolds, PTL DEF Spec, DecisionInv

\* The state after a Tick is the outcome's.
LEMMA TickEffect ==
  ASSUME NEW now, Tick(now)
  PROVE  /\ relayOn' = Outcome(now).on
         /\ switchedAt' = IF relayOn' # relayOn THEN uptime ELSE switchedAt
         /\ decision'.mode = OperatingMode(now)
         /\ decision'.reason = Outcome(now).reason
<1>1. relayOn' = Outcome(now).on BY DEF Tick, SwitchRelay
<1>2. switchedAt' = IF relayOn' # relayOn THEN uptime ELSE switchedAt
  BY <1>1 DEF Tick, SwitchRelay
<1>3. QED BY <1>1, <1>2 DEF Tick

\* Why a Tick leaves the relay on or off: the cutoff, a dwell, or its candidate;
\* the timers it looked at are the real ones.
LEMMA WhyDecided ==
  ASSUME Horizon < ClockModulus, RelayInv, TickNow
  PROVE  \/ /\ relayOn /\ ~relayOn'
            /\ uptime - switchedAt >= MaxRuntime
         \/ /\ relayOn' = relayOn
            /\ ComputeCandidate(Now).on # relayOn
            /\ uptime - switchedAt < IF relayOn THEN MinFanOn ELSE MinFanOff
         \/ /\ relayOn' = ComputeCandidate(Now).on
            /\ decision'.reason = ComputeCandidate(Now).reason
<1>1. /\ relayOn' = Outcome(Now).on
      /\ decision'.reason = Outcome(Now).reason
  BY TickEffect DEF TickNow
<1>2. /\ SaturatingSub(Now, lastRelayChange) = uptime - switchedAt
      /\ relayOn => relayOnSince = lastRelayChange
  BY ElapsedExact DEF RelayInv, TimersInv
<1>3. CASE MaxRuntimeExceeded(Now)
  <2>1. Outcome(Now).on = FALSE BY <1>3 DEF Outcome
  <2>2. relayOn /\ uptime - switchedAt >= MaxRuntime
    BY <1>2, <1>3 DEF MaxRuntimeExceeded
  <2>3. QED BY <1>1, <2>1, <2>2
<1>4. CASE /\ ~MaxRuntimeExceeded(Now)
           /\ ComputeCandidate(Now).on # relayOn /\ DwellHolds(Now)
  <2>1. Outcome(Now).on = relayOn BY <1>4 DEF Outcome
  <2>2. uptime - switchedAt < IF relayOn THEN MinFanOn ELSE MinFanOff
    BY <1>2, <1>4 DEF DwellHolds
  <2>3. QED BY <1>1, <1>4, <2>1, <2>2
<1>5. CASE /\ ~MaxRuntimeExceeded(Now)
           /\ ~(ComputeCandidate(Now).on # relayOn /\ DwellHolds(Now))
  <2>1. Outcome(Now) = ComputeCandidate(Now) BY <1>5 DEF Outcome
  <2>2. QED BY <1>1, <2>1
<1>6. QED BY <1>3, <1>4, <1>5

\* As long as the clock does not wrap, a sensor that has failed, for however long
\* and through however full a counter, keeps the fan on for a dwell at most.
THEOREM FailedSensorFailsSafe ==
  ASSUME Horizon < ClockModulus
  PROVE  Spec => FailSafeOff
<1>1. DecisionInv /\ [Next]_vars =>
        [decision'.mode = "local_fallback" /\ ~HoldLastState /\ relayOn'
         /\ (missed = FailureLimit \/ ~hasValidReading) /\ TickNow =>
           uptime - switchedAt' < MinFanOn]_vars
  <2> SUFFICES ASSUME DecisionInv, TickNow, decision'.mode = "local_fallback",
                      ~HoldLastState, relayOn',
                      missed = FailureLimit \/ ~hasValidReading
               PROVE  uptime - switchedAt' < MinFanOn
    OBVIOUS
  <2>1. OperatingMode(Now) = "local_fallback" BY TickEffect DEF TickNow
  <2>2. SensorFailed
    BY ConfigAssumption DEF SensorFailed, DecisionInv, SensorInv, RelayInv, TypeOK
  <2>3. ComputeCandidate(Now).on = FALSE
    BY <2>1, <2>2 DEF ComputeCandidate, FallbackCandidate
  <2>4. relayOn' = relayOn /\ relayOn /\ uptime - switchedAt < MinFanOn
    BY <2>3, WhyDecided DEF DecisionInv
  <2>5. switchedAt' = switchedAt BY <2>4, TickEffect DEF TickNow
  <2>6. QED BY <2>4, <2>5
<1>2. QED BY <1>1, DecisionInvHolds, PTL DEF Spec, FailSafeOff

\* As long as the clock does not wrap, nothing but the upper threshold or a rise
\* starts the fan in local fallback with a working sensor, and nothing but the
\* lower one or the cutoff stops it.
THEOREM HysteresisIsKept ==
  ASSUME Horizon < ClockModulus
  PROVE  Spec => HysteresisHolds
<1> DEFINE Kept == /\ ~relayOn /\ relayOn' =>
                        \/ lastHumidity >= FanOnPercent
                        \/ RiseEnabled /\ decision'.reason = "rise_rate_trigger"
                   /\ relayOn /\ ~relayOn' /\ hasValidReading =>
                        \/ lastHumidity <= FanOffPercent
                        \/ uptime - switchedAt >= MaxRuntime
<1>1. DecisionInv /\ [Next]_vars =>
        [relayOn' # relayOn /\ decision'.mode = "local_fallback"
         /\ missed < FailureLimit /\ TickNow => Kept]_vars
  <2> SUFFICES ASSUME DecisionInv, TickNow, decision'.mode = "local_fallback",
                      relayOn' # relayOn, missed < FailureLimit
               PROVE  Kept
    OBVIOUS
  <2>1. OperatingMode(Now) = "local_fallback" BY TickEffect DEF TickNow
  <2>2. failures < FailureLimit
    BY ConfigAssumption DEF DecisionInv, SensorInv, RelayInv, TypeOK
  <2>3. ComputeCandidate(Now) = FallbackCandidate(Now) BY <2>1 DEF ComputeCandidate
  <2>4. relayOn \in BOOLEAN /\ lastHumidity \in Int /\ failures \in Nat
    BY ConfigAssumption DEF DecisionInv, RelayInv, TypeOK
  <2>5. CASE relayOn /\ ~relayOn' /\ uptime - switchedAt >= MaxRuntime BY <2>5
  <2>6. CASE /\ relayOn' = FallbackCandidate(Now).on
             /\ decision'.reason = FallbackCandidate(Now).reason
    <3>1. CASE ~hasValidReading
      <4>1. FallbackCandidate(Now).on = (HoldLastState /\ relayOn)
        BY <3>1 DEF FallbackCandidate, SensorFailed
      <4>2. QED BY <2>6, <3>1, <4>1
    <3>2. CASE hasValidReading
      <4>1. ~SensorFailed BY <2>2, <2>4, <3>2, ConfigAssumption DEF SensorFailed
      <4>2. CASE ~HysteresisCandidate.on /\ RiseRateTriggered(riseBuffer, Now)
        BY <2>6, <4>1, <4>2 DEF FallbackCandidate, RiseRateTriggered
      <4>3. CASE ~(~HysteresisCandidate.on /\ RiseRateTriggered(riseBuffer, Now))
        <5>1. relayOn' = HysteresisCandidate.on BY <2>6, <4>1, <4>3 DEF FallbackCandidate
        <5>2. QED BY <5>1, <2>4 DEF HysteresisCandidate
      <4>4. QED BY <4>2, <4>3
    <3>3. QED BY <3>1, <3>2
  <2>7. QED BY <2>3, <2>5, <2>6, WhyDecided DEF DecisionInv
<1>2. QED BY <1>1, DecisionInvHolds, PTL DEF Spec, HysteresisHolds

\* As long as the clock does not wrap, a relay that does not do what an override or
\* a message asks is held by a timer that is really running.
THEOREM OnlyTimersOverruleHolds ==
  ASSUME Horizon < ClockModulus
  PROVE  Spec => OnlyTimersOverrule
<1> DEFINE asked == \/ decision'.mode = "manual_on"
                    \/ decision'.mode = "automatic" /\ mqttDesiredOn
           silenced == \/ decision'.mode = "manual_off"
                       \/ decision'.mode = "automatic" /\ ~mqttDesiredOn
           Explained == /\ silenced /\ relayOn' => uptime - switchedAt' < MinFanOn
                        /\ asked /\ ~relayOn' =>
                             IF relayOn THEN uptime - switchedAt >= MaxRuntime
                                        ELSE uptime - switchedAt < MinFanOff
<1>1. DecisionInv /\ [Next]_vars =>
        [decision'.mode # "local_fallback" /\ TickNow => Explained]_vars
  <2> SUFFICES ASSUME DecisionInv, TickNow, decision'.mode # "local_fallback"
               PROVE  Explained
    OBVIOUS
  <2>1. decision'.mode = OperatingMode(Now) BY TickEffect DEF TickNow
  <2>2. relayOn \in BOOLEAN /\ mqttDesiredOn \in BOOLEAN
    BY DEF DecisionInv, RelayInv, TypeOK
  <2>3. /\ asked => ComputeCandidate(Now).on = TRUE
        /\ silenced => ComputeCandidate(Now).on = FALSE
    BY <2>1, <2>2 DEF ComputeCandidate
  <2>4. relayOn' = relayOn => switchedAt' = switchedAt BY TickEffect DEF TickNow
  <2> HIDE DEF asked, silenced
  <2>5. QED BY <2>2, <2>3, <2>4, WhyDecided DEF DecisionInv
<1>2. QED BY <1>1, DecisionInvHolds, PTL DEF Spec, OnlyTimersOverrule

=============================================================================
