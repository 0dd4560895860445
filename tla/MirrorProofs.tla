---------------------------- MODULE MirrorProofs ----------------------------
(***************************************************************************)
(* The three copies of the policy agree, for every sequence of readings    *)
(* and messages, every configuration the hypotheses admit, and every       *)
(* uptime below the wrap of the clock.  The simulator's controller and the *)
(* service's rule are functions of the state of the firmware's controller, *)
(* but for the rule's buffer of samples, which another size cuts elsewhere.*)
(***************************************************************************)
EXTENDS Mirror, ControllerProofs, FiniteSetTheorems

-----------------------------------------------------------------------------
(* The inductive invariant *)

\* What all of it rests on: the types, and no time kept lies in the future.
CommonInv ==
  /\ TypeOK /\ SensorInv
  /\ uptime <= Horizon /\ tickedAt <= uptime
  /\ lastRelayChange <= uptime /\ relayOnSince <= uptime /\ mqttIssuedAt <= uptime
  /\ overrideType = "none"
  /\ due \in BOOLEAN /\ alike \in BOOLEAN
  /\ due => FirstReading <= uptime

\* The simulator's controller that is in the state of the firmware's.
Simulated ==
  [relayOn |-> relayOn, lastChangeTime |-> lastRelayChange,
   relayOnSince |-> IF relayOn THEN relayOnSince ELSE S!Never,
   hasValidReading |-> hasValidReading, lastHumidity |-> lastHumidity,
   failures |-> missed, mqttReceived |-> mqttReceived, mqttDesiredOn |-> mqttDesiredOn,
   mqttIssuedAt |-> IF mqttReceived THEN mqttIssuedAt ELSE S!Never]

SimInv == alike => sim = Simulated

\* The same of the service's rule, on its own clock; it does not know when the device
\* was powered up, and holds that its fan last changed at the epoch.
Ruled(changed, buffer) ==
  [relayOn |-> relayOn, lastChangeTime |-> changed,
   relayOnSince |-> IF relayOn THEN Epoch + relayOnSince ELSE R!Never,
   hasValidReading |-> hasValidReading, lastHumidity |-> lastHumidity,
   failures |-> missed, riseBuffer |-> buffer]

RuledInv ==
  /\ rule = Ruled(rule.lastChangeTime, rule.riseBuffer)
  /\ \/ rule.lastChangeTime = Epoch + lastRelayChange
     \/ ~relayOn /\ lastRelayChange = 0 /\ rule.lastChangeTime = 0

Least(m, n) == IF m < n THEN m ELSE n

\* The device keeps its samples newest first, the rule newest last; each keeps as many
\* of the same samples as it has room for, and they are a unit of time apart.
Aligned(kept, ruled, last) ==
  /\ \E n \in Nat : /\ Len(kept) = Least(n, RiseBufferSize)
                    /\ Len(ruled) = Least(n, RuleBufferSize)
  /\ \A i \in 1 .. Len(kept) :
       i <= Len(ruled) =>
         /\ ruled[Len(ruled) + 1 - i].time = Epoch + kept[i].time
         /\ ruled[Len(ruled) + 1 - i].humidity = kept[i].humidity
  /\ \A i \in 1 .. Len(kept) : kept[i].time <= last
  /\ \A i \in 1 .. Len(ruled) : ruled[i].time <= Epoch + last
  /\ \A i, j \in 1 .. Len(kept) : i < j => kept[j].time + (j - i) <= kept[i].time
  /\ \A i, j \in 1 .. Len(ruled) : i < j => ruled[i].time + (j - i) <= ruled[j].time

TimedSample == [time : Int, humidity : Int]
Samples == Seq(TimedSample)

\* When the last reading came in, if one did.
LastReading == IF due THEN uptime ELSE tickedAt

SamplesInv ==
  /\ rule.riseBuffer \in Samples
  /\ Aligned(riseBuffer, rule.riseBuffer, LastReading)
  /\ decision.reason = "startup_safe_state" /\ ~due =>
       riseBuffer = <<>> /\ rule.riseBuffer = <<>>

RuleInv == ~mqttReceived => RuledInv /\ SamplesInv

\* The device's buffer and the rule's have room for all samples of a window.
WindowCovered == RiseWindow < RiseBufferSize /\ RiseWindow < RuleBufferSize

-----------------------------------------------------------------------------
(* What all of it rests on *)

\* The configured values as numbers.
LEMMA Numbers ==
  /\ FanOnPercent \in Int /\ FanOffPercent \in Int
  /\ MinFanOn \in Nat /\ MinFanOff \in Nat /\ MaxRuntime \in Nat /\ StaleTimeout \in Nat
  /\ FailureLimit \in Nat /\ HoldLastState \in BOOLEAN
  /\ RiseWindow \in Nat /\ RiseThreshold \in Int /\ Minute \in Nat
  /\ RiseMinSamples \in Nat /\ RiseBufferSize \in Nat \ {0} /\ RiseEnabled \in BOOLEAN
  /\ RuleBufferSize \in Nat \ {0} /\ Epoch \in Nat /\ FirstReading \in Nat
  BY ConfigAssumption, RiseRateAssumption, MirrorAssumption, ClockModulusAssumption
  DEF UInt32

\* The steps of the firmware's controller.
LEMMA FirmwareSteps ==
  [MirrorNext]_mirrorVars =>
    ReadSensor \/ ReceiveDesired \/ TickNow \/ Elapse \/ UNCHANGED vars
BY DEF MirrorNext, mirrorVars, ShareReading, ShareDesired, Decide, ReadSensor,
       ReceiveDesired, TickNow

\* Below the wrap the clock is the uptime.
LEMMA NowIsUptime ==
  ASSUME Horizon < ClockModulus, CommonInv
  PROVE  Now = uptime /\ uptime \in Nat /\ uptime \in UInt32
<1>1. uptime \in Nat /\ uptime <= Horizon /\ Horizon \in Nat
  BY EnvironmentAssumption DEF CommonInv, TypeOK
<1>2. uptime < ClockModulus BY <1>1, ClockModulusAssumption
<1>3. QED BY <1>1, <1>2, MillisExact, ClockModulusAssumption DEF Now, UInt32

\* Every step keeps it.
LEMMA CommonNext ==
  ASSUME Horizon < ClockModulus, CommonInv, [MirrorNext]_mirrorVars
  PROVE  CommonInv'
<1>1. /\ Now = uptime /\ uptime \in Nat /\ Now \in UInt32 /\ 0 \in UInt32
      /\ TypeOK /\ SensorInv /\ tickedAt \in Nat /\ tickedAt <= uptime
  BY NowIsUptime, ClockModulusAssumption DEF CommonInv, TypeOK, UInt32
<1>2. TypeOK' /\ SensorInv'
  <2>1. CASE ReadSensor \/ ReceiveDesired \/ TickNow \/ UNCHANGED vars
    <3>1. [Next]_vars BY <2>1 DEF Next
    <3>2. QED BY <1>1, <3>1, NextType, SensorNext
  <2>2. CASE Elapse
    BY <1>1, <2>2 DEF Elapse, TypeOK, SensorInv, relayVars, sensorVars, mqttVars,
       overrideVars, tickVars
  <2>3. QED BY <2>1, <2>2, FirmwareSteps
<1>3. CASE ShareReading
  BY <1>1, <1>2, <1>3 DEF ShareReading, OnSensorReading, CommonInv, relayVars, mqttVars,
     overrideVars, tickVars
<1>4. CASE ShareDesired
  <2>1. PICK on \in BOOLEAN, age \in Ages : OnMqttDesired(on, age, Now)
    BY <1>4 DEF ShareDesired
  <2>2. age \in Nat BY EnvironmentAssumption, ClockModulusAssumption DEF UInt32
  <2>3. mqttIssuedAt' <= uptime
    BY <1>1, <2>1, <2>2 DEF OnMqttDesired, IssuedAt, SaturatingSub
  <2>4. QED
    BY <1>2, <1>4, <2>1, <2>3 DEF ShareDesired, OnMqttDesired, CommonInv, relayVars,
       overrideVars, tickVars
<1>5. CASE Decide
  <2>1. /\ lastRelayChange' \in {lastRelayChange, uptime}
        /\ relayOnSince' \in {relayOnSince, uptime}
        /\ UNCHANGED <<uptime, mqttIssuedAt>> /\ tickedAt' = uptime
        /\ overrideType' = "none"
    BY <1>1, <1>5 DEF Decide, Tick, SwitchRelay, CommonInv, IsOverrideActive, mqttVars
  <2>2. due' = FALSE /\ alike' \in BOOLEAN BY <1>5 DEF Decide, CommonInv
  <2>3. /\ lastRelayChange <= uptime /\ relayOnSince <= uptime
        /\ uptime <= Horizon /\ mqttIssuedAt <= uptime
    BY DEF CommonInv
  <2>4. uptime' <= Horizon /\ tickedAt' <= uptime'
    BY <1>1, <2>1, <2>3
  <2>5. /\ lastRelayChange' <= uptime' /\ relayOnSince' <= uptime'
        /\ mqttIssuedAt' <= uptime'
    BY <1>1, <2>1, <2>3
  <2>6. QED BY <1>2, <2>1, <2>2, <2>4, <2>5 DEF CommonInv
<1>6. CASE Elapse
  <2>1. /\ uptime' = uptime + 1 /\ uptime < Horizon /\ ~due
        /\ UNCHANGED <<due, alike, lastRelayChange, relayOnSince, mqttIssuedAt,
                       overrideType, tickedAt>>
    BY <1>6 DEF Elapse, relayVars, mqttVars, overrideVars, tickVars
  <2>2. /\ lastRelayChange \in Nat /\ relayOnSince \in Nat /\ mqttIssuedAt \in Nat
        /\ Horizon \in Nat
    BY <1>1, ClockModulusAssumption, EnvironmentAssumption DEF TypeOK, UInt32
  <2>3. /\ lastRelayChange <= uptime /\ relayOnSince <= uptime /\ mqttIssuedAt <= uptime
        /\ alike \in BOOLEAN /\ overrideType = "none"
    BY DEF CommonInv
  <2>4. uptime' <= Horizon /\ tickedAt' <= uptime'
    BY <1>1, <2>1, <2>2
  <2>5. /\ lastRelayChange' <= uptime' /\ relayOnSince' <= uptime'
        /\ mqttIssuedAt' <= uptime'
    BY <1>1, <2>1, <2>2, <2>3
  <2>6. due' = FALSE /\ alike' \in BOOLEAN /\ overrideType' = "none"
    BY <2>1, <2>3 DEF CommonInv
  <2>7. QED BY <1>2, <2>4, <2>5, <2>6 DEF CommonInv
<1>7. CASE UNCHANGED mirrorVars
  BY <1>2, <1>7 DEF mirrorVars, vars, CommonInv, relayVars, sensorVars, mqttVars,
     overrideVars, tickVars
<1>8. QED BY <1>3, <1>4, <1>5, <1>6, <1>7 DEF MirrorNext

-----------------------------------------------------------------------------
(* Firmware and simulator *)

\* In the same state both find the message equally fresh and make the same of it and
\* of the sensor, unless the rise detector has its say.
LEMMA SimCandidate ==
  ASSUME Horizon < ClockModulus, CommonInv,
         ComputeCandidate(Now).reason # "rise_rate_trigger"
  PROVE  S!Candidate(Simulated, S!MqttFresh(Simulated, uptime)) = ComputeCandidate(Now)
<1>1. /\ Now = uptime /\ uptime \in Nat
      /\ mqttIssuedAt \in Nat /\ mqttIssuedAt <= uptime /\ uptime < ClockModulus
      /\ mqttReceived \in BOOLEAN
  BY NowIsUptime, ClockModulusAssumption DEF CommonInv, TypeOK, UInt32
<1>2. S!MqttFresh(Simulated, uptime) <=> IsMqttFresh(Now)
  <2>1. Sub32(Now, mqttIssuedAt) = uptime - mqttIssuedAt
    BY <1>1, ClockModulusAssumption, MillisExact DEF Sub32, Millis
  <2>2. QED BY <1>1, <2>1 DEF S!MqttFresh, S!Never, Simulated, IsMqttFresh
<1>3. OperatingMode(Now) = IF IsMqttFresh(Now) THEN "automatic" ELSE "local_fallback"
  BY DEF OperatingMode, IsOverrideActive, CommonInv
<1>4. CASE IsMqttFresh(Now)
  BY <1>2, <1>3, <1>4 DEF S!Candidate, ComputeCandidate, Simulated
<1>5. CASE ~IsMqttFresh(Now)
  <2>1. ComputeCandidate(Now) = FallbackCandidate(Now)
    BY <1>3, <1>5 DEF ComputeCandidate
  <2>2. S!SensorFailed(Simulated) <=> SensorFailed
    BY Numbers DEF S!SensorFailed, SensorFailed, Simulated, CommonInv, SensorInv, TypeOK
  <2>3. CASE SensorFailed
    BY <1>2, <1>5, <2>1, <2>2, <2>3 DEF S!Candidate, FallbackCandidate, Simulated
  <2>4. CASE ~SensorFailed
    <3>1. FallbackCandidate(Now) = HysteresisCandidate
      BY <2>1, <2>4 DEF FallbackCandidate
    <3>2. QED
      BY <1>2, <1>5, <2>1, <2>2, <2>4, <3>1
      DEF S!Candidate, HysteresisCandidate, Simulated
  <2>5. QED BY <2>3, <2>4
<1>6. QED BY <1>4, <1>5

\* So they decide the same, for the same reason.
LEMMA SimOutcome ==
  ASSUME Horizon < ClockModulus, CommonInv,
         ComputeCandidate(Now).reason # "rise_rate_trigger"
  PROVE  S!Outcome(Simulated, S!MqttFresh(Simulated, uptime), uptime) = Outcome(Now)
<1>1. /\ Now = uptime /\ uptime \in Nat /\ relayOn \in BOOLEAN
      /\ lastRelayChange \in Nat /\ lastRelayChange <= uptime
      /\ relayOnSince \in Nat /\ relayOnSince <= uptime
  BY NowIsUptime, ClockModulusAssumption DEF CommonInv, TypeOK, UInt32
<1>2. /\ SaturatingSub(Now, lastRelayChange) = uptime - lastRelayChange
      /\ SaturatingSub(Now, relayOnSince) = uptime - relayOnSince
  BY <1>1 DEF SaturatingSub
<1>3. S!MaxRuntimeExceeded(Simulated, uptime) <=> MaxRuntimeExceeded(Now)
  BY <1>1, <1>2 DEF S!MaxRuntimeExceeded, MaxRuntimeExceeded, Simulated, S!Never
<1>4. S!DwellHolds(Simulated, uptime) <=> DwellHolds(Now)
  BY <1>1, <1>2 DEF S!DwellHolds, DwellHolds, Simulated
<1>5. Simulated.relayOn = relayOn BY DEF Simulated
<1>6. QED BY <1>3, <1>4, <1>5, SimCandidate DEF S!Outcome, Outcome

\* A reading that both or neither take for valid leaves them in the same state.
LEMMA SimReads ==
  ASSUME CommonInv, SimInv, ShareReading, alike' PROVE sim' = Simulated'
<1>1. PICK reading \in Readings :
        /\ OnSensorReading(reading, Now)
        /\ sim' = S!OnSensorReading(sim, reading)
        /\ alike' = (alike /\ (InRange(reading) <=> S!InRange(reading)))
  BY DEF ShareReading
<1>2. sim = Simulated /\ (InRange(reading) <=> S!InRange(reading)) BY <1>1 DEF SimInv
<1>3. QED
  BY <1>1, <1>2 DEF S!OnSensorReading, OnSensorReading, Simulated, relayVars, mqttVars

\* So does a message.
LEMMA SimToldAlike ==
  ASSUME Horizon < ClockModulus, CommonInv, SimInv, ShareDesired, alike'
  PROVE  sim' = Simulated'
<1>1. PICK on \in BOOLEAN, age \in Ages :
        OnMqttDesired(on, age, Now) /\ sim' = Told(sim, on, age, uptime)
  BY DEF ShareDesired
<1>2. sim = Simulated BY DEF ShareDesired, SimInv
<1>3. Now = uptime /\ uptime \in Nat /\ age \in Nat
  BY NowIsUptime, EnvironmentAssumption, ClockModulusAssumption DEF UInt32
<1>4. mqttIssuedAt' = IF age > uptime THEN 0 ELSE uptime - age
  BY <1>1, <1>3 DEF OnMqttDesired, IssuedAt, SaturatingSub
<1>5. QED
  BY <1>1, <1>2, <1>4 DEF OnMqttDesired, Told, Simulated, relayVars, sensorVars

\* And so does a decision.
LEMMA SimDecides ==
  ASSUME Horizon < ClockModulus, CommonInv, SimInv, Decide, alike'
  PROVE  /\ sim' = Simulated'
         /\ relayOn' = sim'.relayOn
         /\ decision'.reason = S!Outcome(sim, S!MqttFresh(sim, uptime), uptime).reason
<1>1. /\ alike /\ ComputeCandidate(Now).reason # "rise_rate_trigger" /\ Tick(Now)
      /\ sim' = S!Ticked(sim, S!MqttFresh(sim, uptime), uptime)
  BY DEF Decide
<1>2. sim = Simulated BY <1>1 DEF SimInv
<1>3. S!Outcome(sim, S!MqttFresh(sim, uptime), uptime) = Outcome(Now)
  BY <1>1, <1>2, SimOutcome
<1>4. /\ Now = uptime /\ relayOn' = Outcome(Now).on
      /\ decision'.reason = Outcome(Now).reason
      /\ UNCHANGED <<hasValidReading, lastHumidity, missed, mqttReceived,
                     mqttDesiredOn, mqttIssuedAt>>
  BY <1>1, NowIsUptime, TickEffect DEF Tick, sensorVars, mqttVars
<1>5. /\ lastRelayChange' = IF relayOn' = relayOn THEN lastRelayChange ELSE uptime
      /\ relayOnSince' = IF relayOn' = relayOn \/ ~relayOn' THEN relayOnSince ELSE uptime
  BY <1>1, <1>4 DEF Tick, SwitchRelay
<1>6. relayOn \in BOOLEAN /\ relayOn' \in BOOLEAN
  BY <1>1, NowType, TickType DEF CommonInv, TypeOK
<1>7. sim' = Simulated'
  <2>1. CASE relayOn' = relayOn
    <3>1. S!Outcome(sim, S!MqttFresh(sim, uptime), uptime).on = sim.relayOn
      BY <1>2, <1>3, <1>4, <2>1 DEF Simulated
    <3>2. sim' = sim BY <1>1, <3>1 DEF S!Ticked
    <3>3. QED BY <1>2, <1>4, <1>5, <2>1, <3>2 DEF Simulated
  <2>2. CASE relayOn' # relayOn
    <3>1. /\ S!Outcome(sim, S!MqttFresh(sim, uptime), uptime).on = relayOn'
          /\ relayOn' # sim.relayOn
      BY <1>2, <1>3, <1>4, <2>2 DEF Simulated
    <3>2. sim' = [sim EXCEPT !.relayOn = relayOn', !.lastChangeTime = uptime,
                             !.relayOnSince = IF relayOn' THEN uptime ELSE S!Never]
      BY <1>1, <3>1 DEF S!Ticked
    <3>3. QED BY <1>2, <1>4, <1>5, <1>6, <2>2, <3>2 DEF Simulated
  <2>3. QED BY <2>1, <2>2
<1>8. sim'.relayOn = relayOn' BY <1>7 DEF Simulated
<1>9. QED BY <1>3, <1>4, <1>7, <1>8

\* Every step keeps the two alike.
LEMMA SimNext ==
  ASSUME Horizon < ClockModulus, CommonInv, SimInv, [MirrorNext]_mirrorVars
  PROVE  SimInv'
<1> SUFFICES ASSUME alike' PROVE sim' = Simulated' BY DEF SimInv
<1>1. CASE ShareReading BY <1>1, SimReads
<1>2. CASE ShareDesired BY <1>2, SimToldAlike
<1>3. CASE Decide BY <1>3, SimDecides
<1>4. CASE Elapse
  BY <1>4 DEF Elapse, SimInv, Simulated, relayVars, sensorVars, mqttVars
<1>5. CASE UNCHANGED mirrorVars
  BY <1>5 DEF mirrorVars, vars, SimInv, Simulated, relayVars, sensorVars, mqttVars
<1>6. QED BY <1>1, <1>2, <1>3, <1>4, <1>5 DEF MirrorNext

\* The state in which all three begin.
LEMMA MirrorStart == MirrorInit => CommonInv /\ SimInv
<1> SUFFICES ASSUME MirrorInit PROVE CommonInv /\ SimInv OBVIOUS
<1>1. TypeOK BY InitType DEF MirrorInit
<1>2. CommonInv
  <2>1. /\ uptime = 0 /\ tickedAt = 0 /\ lastRelayChange = 0 /\ relayOnSince = 0
        /\ mqttIssuedAt = 0 /\ overrideType = "none" /\ due = FALSE /\ alike = TRUE
        /\ missed = 0 /\ failures = 0
    BY DEF MirrorInit, Init
  <2>2. SensorInv BY <2>1, Numbers DEF SensorInv
  <2>3. uptime <= Horizon BY <2>1, EnvironmentAssumption
  <2>4. /\ tickedAt <= uptime /\ lastRelayChange <= uptime /\ relayOnSince <= uptime
        /\ mqttIssuedAt <= uptime
    BY <2>1
  <2>5. due \in BOOLEAN /\ alike \in BOOLEAN /\ ~due BY <2>1
  <2>6. overrideType = "none" BY <2>1
  <2>7. QED BY <1>1, <2>2, <2>3, <2>4, <2>5, <2>6 DEF CommonInv
<1>3. sim = Simulated BY DEF MirrorInit, Init, Simulated, S!NewController, S!Never
<1>4. QED BY <1>2, <1>3 DEF SimInv

\* The two controllers are in the same state for as long as they are told the same.
LEMMA SimInvHolds ==
  ASSUME Horizon < ClockModulus
  PROVE  MirrorSpec => [](CommonInv /\ SimInv)
<1>1. CommonInv /\ SimInv /\ [MirrorNext]_mirrorVars => (CommonInv /\ SimInv)'
  BY CommonNext, SimNext
<1>2. QED BY <1>1, MirrorStart, PTL DEF MirrorSpec

\* From the same readings and messages the firmware and the simulator decide the same,
\* for the same reason (module docstring of device_controller.py), as long as the
\* clock does not wrap.
THEOREM SimulatorDecidesAlike ==
  ASSUME Horizon < ClockModulus
  PROVE  MirrorSpec => SimulatorAlike
<1>1. CommonInv /\ SimInv /\ [MirrorNext]_mirrorVars =>
        [Decide /\ alike' =>
           /\ relayOn' = sim'.relayOn
           /\ decision'.reason =
                S!Outcome(sim, S!MqttFresh(sim, uptime), uptime).reason]_mirrorVars
  BY SimDecides
<1>2. QED BY <1>1, SimInvHolds, PTL DEF MirrorSpec, SimulatorAlike

-----------------------------------------------------------------------------
(* The buffers of the rise detector *)

\* What a buffer holds.
LEMMA Timed ==
  ASSUME NEW buffer \in Samples, NEW i \in 1 .. Len(buffer)
  PROVE  buffer[i].time \in Int /\ buffer[i].humidity \in Int
<1>1. buffer[i] \in TimedSample BY DEF Samples
<1>2. QED BY <1>1 DEF TimedSample

\* What a sample put into the device's buffer does to it.
LEMMA Kept ==
  ASSUME NEW kept \in Samples, NEW sample \in TimedSample, RiseEnabled,
         Len(kept) <= RiseBufferSize
  PROVE  LET new == UpdateRiseRateBuffer(kept, sample.humidity, sample.time)
         IN  /\ new \in Samples
             /\ Len(new) = Least(Len(kept) + 1, RiseBufferSize)
             /\ new[1] = sample
             /\ \A i \in 2 .. Len(new) : i - 1 \in 1 .. Len(kept) /\ new[i] = kept[i - 1]
<1> DEFINE size == IF Len(kept) < RiseBufferSize THEN Len(kept) ELSE RiseBufferSize - 1
           new == <<sample>> \o SubSeq(kept, 1, size)
<1>1. /\ size \in 0 .. Len(kept) /\ size + 1 = Least(Len(kept) + 1, RiseBufferSize)
      /\ Len(kept) \in Nat
  BY Numbers DEF Samples, Least
<1>2. sample = [time |-> sample.time, humidity |-> sample.humidity] BY DEF TimedSample
<1>3. UpdateRiseRateBuffer(kept, sample.humidity, sample.time) = new
  BY <1>2, Zenon DEF UpdateRiseRateBuffer
<1> HIDE DEF size
<1>4. /\ SubSeq(kept, 1, size) \in Samples /\ Len(SubSeq(kept, 1, size)) = size
      /\ \A i \in 1 .. size : SubSeq(kept, 1, size)[i] = kept[i]
  <2>1. \A i \in 1 .. size : kept[i] \in TimedSample
    BY <1>1 DEF Samples
  <2>2. size \in Nat /\ size <= Len(kept) BY <1>1
  <2>3. QED BY <1>1, <2>1, <2>2 DEF Samples
<1>5. /\ new \in Samples /\ Len(new) = size + 1 /\ new[1] = sample
      /\ \A i \in 2 .. size + 1 : new[i] = SubSeq(kept, 1, size)[i - 1]
  BY <1>1, <1>4 DEF Samples
<1>6. \A i \in 2 .. size + 1 : i - 1 \in 1 .. size /\ i - 1 \in 1 .. Len(kept)
  BY <1>1
<1>7. QED BY <1>1, <1>3, <1>4, <1>5, <1>6

\* And into the rule's.
LEMMA Appends ==
  ASSUME NEW ruled \in Samples, NEW sample \in TimedSample,
         Len(ruled) <= RuleBufferSize
  PROVE  LET new == R!Appended(ruled, sample)
         IN  /\ new \in Samples
             /\ Len(new) = Least(Len(ruled) + 1, RuleBufferSize)
             /\ new[Len(new)] = sample
             /\ \A i \in 1 .. Len(new) - 1 :
                  LET k == Len(ruled) + 1 - Len(new) + i
                  IN  k \in 1 .. Len(ruled) /\ new[i] = ruled[k]
<1> DEFINE longer == Append(ruled, sample)
           new == R!Appended(ruled, sample)
<1>1. /\ longer \in Samples /\ Len(longer) = Len(ruled) + 1 /\ Len(ruled) \in Nat
      /\ longer[Len(ruled) + 1] = sample
      /\ \A i \in 1 .. Len(ruled) : longer[i] = ruled[i]
  BY DEF Samples
<1>2. new = IF Len(longer) > RuleBufferSize THEN Tail(longer) ELSE longer
  BY DEF R!Appended
<1> HIDE DEF longer, new
<1>3. CASE Len(longer) > RuleBufferSize
  <2>1. /\ new \in Samples /\ Len(new) = Len(ruled)
        /\ \A i \in 1 .. Len(ruled) : new[i] = longer[i + 1]
    BY <1>1, <1>2, <1>3 DEF Samples
  <2>2. Len(ruled) = RuleBufferSize /\ Len(ruled) > 0
    BY <1>1, <1>3, Numbers
  <2>3. \A i \in 1 .. Len(ruled) - 1 :
          i + 1 \in 1 .. Len(ruled) /\ Len(ruled) + 1 - Len(new) + i = i + 1
    BY <1>1, <2>1
  <2>4. QED BY <1>1, <2>1, <2>2, <2>3, Numbers DEF new, Least
<1>4. CASE ~(Len(longer) > RuleBufferSize)
  <2>1. new = longer BY <1>2, <1>4
  <2>2. \A i \in 1 .. Len(ruled) : Len(ruled) + 1 - Len(new) + i = i
    BY <1>1, <2>1
  <2>3. QED BY <1>1, <1>4, <2>1, <2>2, Numbers DEF new, Least
<1>5. QED BY <1>3, <1>4

\* Both stay aligned when both get the next sample.
LEMMA AlignedNext ==
  ASSUME NEW kept \in Samples, NEW ruled \in Samples, NEW last \in Int,
         NEW now \in Int, NEW humidity \in Int, RiseEnabled,
         Aligned(kept, ruled, last),
         last < now \/ (kept = <<>> /\ ruled = <<>>)
  PROVE  LET newer == R!Appended(ruled, [time |-> Epoch + now, humidity |-> humidity])
         IN  /\ newer \in Samples
             /\ Aligned(UpdateRiseRateBuffer(kept, humidity, now), newer, now)
<1> DEFINE sample == [time |-> now, humidity |-> humidity]
           theirs == [time |-> Epoch + now, humidity |-> humidity]
           k == UpdateRiseRateBuffer(kept, humidity, now)
           r == R!Appended(ruled, theirs)
<1>1. PICK n \in Nat : /\ Len(kept) = Least(n, RiseBufferSize)
                       /\ Len(ruled) = Least(n, RuleBufferSize)
  BY DEF Aligned
<1>2. /\ Len(kept) <= RiseBufferSize /\ Len(ruled) <= RuleBufferSize
      /\ Len(kept) \in Nat /\ Len(ruled) \in Nat
      /\ Least(Len(kept) + 1, RiseBufferSize) = Least(n + 1, RiseBufferSize)
      /\ Least(Len(ruled) + 1, RuleBufferSize) = Least(n + 1, RuleBufferSize)
  BY <1>1, Numbers DEF Least, Samples
<1>3. /\ sample \in TimedSample /\ theirs \in TimedSample
      /\ sample.time = now /\ sample.humidity = humidity
      /\ theirs.time = Epoch + now /\ theirs.humidity = humidity
  BY Numbers DEF TimedSample
<1> HIDE DEF sample, theirs
<1>4. /\ k \in Samples /\ Len(k) = Least(n + 1, RiseBufferSize) /\ k[1] = sample
      /\ \A i \in 2 .. Len(k) : i - 1 \in 1 .. Len(kept) /\ k[i] = kept[i - 1]
  BY <1>2, <1>3, Kept
<1>5. /\ r \in Samples /\ Len(r) = Least(n + 1, RuleBufferSize) /\ r[Len(r)] = theirs
      /\ \A i \in 1 .. Len(r) - 1 :
           /\ Len(ruled) + 1 - Len(r) + i \in 1 .. Len(ruled)
           /\ r[i] = ruled[Len(ruled) + 1 - Len(r) + i]
  BY <1>2, <1>3, Appends
<1> HIDE DEF k, r
<1>6. Len(k) \in Nat \ {0} /\ Len(r) \in Nat \ {0}
  BY <1>4, <1>5, Numbers DEF Least, Samples
<1>7. ASSUME NEW i \in 1 .. Len(kept)
      PROVE  kept[i].time < now /\ kept[i].time \in Int
  <2>1. last < now BY <1>7, <1>2
  <2>2. kept[i].time \in Int BY <1>7, Timed
  <2>3. kept[i].time <= last BY <1>7 DEF Aligned
  <2>4. QED BY <2>1, <2>2, <2>3
<1>8. ASSUME NEW i \in 1 .. Len(ruled)
      PROVE  ruled[i].time < Epoch + now /\ ruled[i].time \in Int
  <2>1. last < now BY <1>8, <1>2
  <2>2. ruled[i].time \in Int BY <1>8, Timed
  <2>3. ruled[i].time <= Epoch + last BY <1>8 DEF Aligned
  <2>4. QED BY <2>1, <2>2, <2>3, Numbers
<1>9. ASSUME NEW i \in 1 .. Len(k), i <= Len(r)
      PROVE  /\ r[Len(r) + 1 - i].time = Epoch + k[i].time
             /\ r[Len(r) + 1 - i].humidity = k[i].humidity
  <2>1. CASE i = 1
    <3>1. Len(r) + 1 - i = Len(r) BY <1>9, <1>6, <2>1
    <3>2. QED BY <1>9, <1>3, <1>4, <1>5, <2>1, <3>1
  <2>2. CASE i # 1
    <3>1. /\ i - 1 \in 1 .. Len(kept) /\ k[i] = kept[i - 1]
      BY <1>9, <1>4, <1>6, <2>2
    <3>2. Len(r) + 1 - i \in 1 .. Len(r) - 1 BY <1>9, <1>6, <2>2
    <3>3. /\ Len(ruled) + 1 - Len(r) + (Len(r) + 1 - i) \in 1 .. Len(ruled)
          /\ r[Len(r) + 1 - i] = ruled[Len(ruled) + 1 - Len(r) + (Len(r) + 1 - i)]
      BY <1>9, <1>5, <3>2
    <3>4. Len(ruled) + 1 - Len(r) + (Len(r) + 1 - i) = Len(ruled) + 1 - (i - 1)
      BY <1>9, <1>2, <1>6
    <3>5. i - 1 <= Len(ruled) BY <1>9, <1>2, <1>6, <3>3, <3>4
    <3>6. /\ ruled[Len(ruled) + 1 - (i - 1)].time = Epoch + kept[i - 1].time
          /\ ruled[Len(ruled) + 1 - (i - 1)].humidity = kept[i - 1].humidity
      BY <1>9, <3>1, <3>5 DEF Aligned
    <3>7. QED BY <1>9, <3>1, <3>3, <3>4, <3>6
  <2>3. QED BY <1>9, <2>1, <2>2
<1>10. \A i \in 1 .. Len(k) : k[i].time <= now
  <2> SUFFICES ASSUME NEW i \in 1 .. Len(k) PROVE k[i].time <= now OBVIOUS
  <2>1. CASE i = 1 BY <1>3, <1>4, <2>1
  <2>2. CASE i # 1
    <3>1. i - 1 \in 1 .. Len(kept) /\ k[i] = kept[i - 1] BY <1>4, <1>6, <2>2
    <3>2. QED BY <1>7, <3>1
  <2>3. QED BY <2>1, <2>2
<1>11. \A i \in 1 .. Len(r) : r[i].time <= Epoch + now
  <2> SUFFICES ASSUME NEW i \in 1 .. Len(r) PROVE r[i].time <= Epoch + now OBVIOUS
  <2>1. CASE i = Len(r) BY <1>3, <1>5, <2>1, Numbers
  <2>2. CASE i # Len(r)
    <3>1. i \in 1 .. Len(r) - 1 BY <1>6, <2>2
    <3> DEFINE l == Len(ruled) + 1 - Len(r) + i
    <3>2. l \in 1 .. Len(ruled) /\ r[i] = ruled[l] BY <1>5, <3>1
    <3>3. ruled[l].time < Epoch + now /\ ruled[l].time \in Int BY <1>8, <3>2
    <3>4. QED BY <3>2, <3>3, Numbers
  <2>3. QED BY <2>1, <2>2
<1>12. ASSUME NEW i \in 1 .. Len(k), NEW j \in 1 .. Len(k), i < j
       PROVE  k[j].time + (j - i) <= k[i].time
  <2>1. j - 1 \in 1 .. Len(kept) /\ k[j] = kept[j - 1] BY <1>12, <1>4, <1>6
  <2>2. CASE i = 1
    <3>1. 1 \in 1 .. Len(kept) BY <1>12, <1>2, <2>1
    <3>2. kept[j - 1].time + (j - 2) <= kept[1].time
      <4>1. CASE j = 2 BY <1>12, <1>7, <2>1, <4>1
      <4>2. CASE j # 2
        <5>1. 1 < j - 1 BY <1>12, <1>6, <2>2, <4>2
        <5>2. kept[j - 1].time + (j - 1 - 1) <= kept[1].time
          BY <1>12, <2>1, <3>1, <5>1 DEF Aligned
        <5>3. j - 1 - 1 = j - 2 BY <1>12, <1>6
        <5>4. QED BY <1>12, <5>2, <5>3
      <4>3. QED BY <1>12, <4>1, <4>2
    <3>3. kept[1].time < now /\ kept[1].time \in Int /\ kept[j - 1].time \in Int
      BY <1>12, <1>7, <2>1, <3>1
    <3>4. kept[j - 1].time + (j - 1) <= now BY <1>12, <1>6, <3>2, <3>3
    <3>5. QED BY <1>12, <1>3, <1>4, <2>1, <2>2, <3>4
  <2>3. CASE i # 1
    <3>1. i - 1 \in 1 .. Len(kept) /\ k[i] = kept[i - 1] BY <1>12, <1>4, <1>6, <2>3
    <3>2. i - 1 < j - 1 /\ (j - 1) - (i - 1) = j - i BY <1>12, <1>6
    <3>3. kept[j - 1].time + ((j - 1) - (i - 1)) <= kept[i - 1].time
      BY <1>12, <2>1, <3>1, <3>2 DEF Aligned
    <3>4. QED BY <1>12, <2>1, <3>1, <3>2, <3>3
  <2>4. QED BY <1>12, <2>2, <2>3
<1>13. ASSUME NEW i \in 1 .. Len(r), NEW j \in 1 .. Len(r), i < j
       PROVE  r[i].time + (j - i) <= r[j].time
  <2> DEFINE s == Len(ruled) + 1 - Len(r)
  <2>1. /\ s \in Int /\ i \in 1 .. Len(r) - 1
    BY <1>13, <1>2, <1>6
  <2>2. s + i \in 1 .. Len(ruled) /\ r[i] = ruled[s + i] BY <1>13, <1>5, <2>1
  <2>3. CASE j = Len(r)
    <3> DEFINE l == Len(ruled)
    <3>1. l \in 1 .. Len(ruled) /\ l - (s + i) = Len(r) - i - 1
      BY <1>13, <1>2, <1>6, <2>2
    <3>2. ruled[s + i].time + (l - (s + i)) <= ruled[l].time
      <4>1. CASE s + i = l BY <1>13, <1>8, <2>2, <4>1
      <4>2. CASE s + i # l
        <5>1. s + i < l BY <1>13, <1>2, <2>2, <4>2
        <5>2. QED BY <1>13, <2>2, <3>1, <5>1 DEF Aligned
      <4>3. QED BY <1>13, <4>1, <4>2
    <3>3. ruled[l].time < Epoch + now /\ ruled[l].time \in Int /\ ruled[s + i].time \in Int
      BY <1>13, <1>8, <2>2, <3>1
    <3>4. ruled[s + i].time + (Len(r) - i) <= Epoch + now
      <4> DEFINE time == ruled[s + i].time
                 latest == ruled[l].time
      <4>1. /\ time + (l - (s + i)) <= latest /\ latest < Epoch + now
            /\ time \in Int /\ latest \in Int
        BY <3>2, <3>3
      <4>2. Len(r) - i - 1 \in Int /\ Len(r) - i \in Int BY <1>6, <2>1
      <4> HIDE DEF time, latest, s, l
      <4>3. time + (Len(r) - i - 1) < Epoch + now
        BY <3>1, <4>1, <4>2, Numbers
      <4>4. time + (Len(r) - i) <= Epoch + now
        BY <1>6, <2>1, <4>1, <4>3, Numbers
      <4>5. QED BY <4>4 DEF time
    <3>5. QED BY <1>13, <1>3, <1>5, <2>2, <2>3, <3>4
  <2>4. CASE j # Len(r)
    <3>1. j \in 1 .. Len(r) - 1 BY <1>13, <1>6, <2>4
    <3>2. s + j \in 1 .. Len(ruled) /\ r[j] = ruled[s + j] BY <1>13, <1>5, <3>1
    <3>3. s + i < s + j /\ (s + j) - (s + i) = j - i
      <4> HIDE DEF s
      <4>1. QED BY <1>13, <1>6, <2>1
    <3>4. ruled[s + i].time + ((s + j) - (s + i)) <= ruled[s + j].time
      BY <1>13, <2>2, <3>2, <3>3 DEF Aligned
    <3>5. QED BY <1>13, <2>2, <3>2, <3>3, <3>4
  <2>5. QED BY <1>13, <2>3, <2>4
<1>14. \E m \in Nat : /\ Len(k) = Least(m, RiseBufferSize)
                      /\ Len(r) = Least(m, RuleBufferSize)
  <2>1. n + 1 \in Nat OBVIOUS
  <2>2. QED BY <1>4, <1>5, <2>1
<1>15. Aligned(k, r, now)
  BY <1>9, <1>10, <1>11, <1>12, <1>13, <1>14 DEF Aligned
<1>16. QED BY <1>5, <1>15 DEF k, r, theirs

\* A sample that far back in a buffer is out of the window, for the samples are a unit
\* of time apart; so what one buffer has room for and the other has not does not matter.
LEMMA FarBack ==
  ASSUME NEW kept \in Samples, NEW ruled \in Samples, NEW now \in Nat,
         Aligned(kept, ruled, now)
  PROVE  /\ \A i \in 1 .. Len(kept) : now - kept[i].time <= RiseWindow => i <= RiseWindow + 1
         /\ \A i \in 1 .. Len(ruled) :
              ruled[i].time >= (Epoch + now) - RiseWindow =>
                Len(ruled) + 1 - i <= RiseWindow + 1
<1>1. ASSUME NEW i \in 1 .. Len(kept), now - kept[i].time <= RiseWindow
      PROVE  i <= RiseWindow + 1
  <2>1. CASE i = 1 BY <2>1, Numbers
  <2>2. CASE i # 1
    <3>1. 1 \in 1 .. Len(kept) /\ 1 < i BY <1>1, <2>2 DEF Samples
    <3>2. kept[i].time + (i - 1) <= kept[1].time /\ kept[1].time <= now
      BY <1>1, <3>1 DEF Aligned
    <3>3. kept[i].time \in Int /\ kept[1].time \in Int BY <1>1, <3>1, Timed
    <3>4. QED BY <1>1, <3>2, <3>3, Numbers
  <2>3. QED BY <2>1, <2>2
<1>2. ASSUME NEW i \in 1 .. Len(ruled), ruled[i].time >= (Epoch + now) - RiseWindow
      PROVE  Len(ruled) + 1 - i <= RiseWindow + 1
  <2> DEFINE l == Len(ruled)
  <2>1. l \in 1 .. Len(ruled) /\ l \in Nat BY <1>2 DEF Samples
  <2>2. CASE i = l BY <2>1, <2>2, Numbers
  <2>3. CASE i # l
    <3>1. i < l BY <1>2, <2>1, <2>3
    <3>2. ruled[i].time + (l - i) <= ruled[l].time /\ ruled[l].time <= Epoch + now
      BY <1>2, <2>1, <3>1 DEF Aligned
    <3>3. ruled[i].time \in Int /\ ruled[l].time \in Int BY <1>2, <2>1, Timed
    <3>4. QED BY <1>2, <2>1, <3>2, <3>3, Numbers
  <2>4. QED BY <2>2, <2>3
<1>3. QED BY <1>1, <1>2

\* What is in the window.
LEMMA WindowMember ==
  ASSUME NEW buffer, NEW now, NEW i
  PROVE  i \in R!InWindow(buffer, now)
           <=> i \in 1 .. Len(buffer) /\ buffer[i].time >= now - RiseWindow
BY Zenon DEF R!InWindow

\* The window of the rule's buffer ends with the newest sample, and is a run.
LEMMA RuleWindow ==
  ASSUME NEW kept \in Samples, NEW ruled \in Samples, NEW now \in Nat,
         Aligned(kept, ruled, now),
         NEW first \in R!InWindow(ruled, Epoch + now)
  PROVE  first .. Len(ruled) \subseteq R!InWindow(ruled, Epoch + now)
<1>1. first \in 1 .. Len(ruled) /\ ruled[first].time >= (Epoch + now) - RiseWindow
  BY WindowMember
<1> SUFFICES ASSUME NEW i \in first .. Len(ruled), i # first
             PROVE  i \in R!InWindow(ruled, Epoch + now)
  OBVIOUS
<1>2. i \in 1 .. Len(ruled) /\ first < i BY <1>1 DEF Samples
<1>3. ruled[first].time + (i - first) <= ruled[i].time BY <1>1, <1>2 DEF Aligned
<1>4. ruled[first].time \in Int /\ ruled[i].time \in Int BY <1>1, <1>2, Timed
<1>5. ruled[i].time >= (Epoch + now) - RiseWindow
  BY <1>1, <1>2, <1>3, <1>4, Numbers
<1>6. QED BY <1>2, <1>5, WindowMember

\* The same samples of the two buffers.
LEMMA SameSample ==
  ASSUME NEW kept \in Samples, NEW ruled \in Samples, NEW now \in Nat,
         Aligned(kept, ruled, now),
         NEW i \in 1 .. Len(ruled), Len(ruled) + 1 - i <= Len(kept)
  PROVE  LET j == Len(ruled) + 1 - i
         IN  /\ j \in 1 .. Len(kept)
             /\ ruled[i].time = Epoch + kept[j].time
             /\ ruled[i].humidity = kept[j].humidity
             /\ ruled[i].time >= (Epoch + now) - RiseWindow
                  <=> SaturatingSub(now, kept[j].time) <= RiseWindow
<1> DEFINE j == Len(ruled) + 1 - i
<1>1. /\ Len(ruled) \in Nat /\ Len(kept) \in Nat BY DEF Samples
<1>2. j \in 1 .. Len(kept) /\ j <= Len(ruled) /\ Len(ruled) + 1 - j = i
  BY <1>1
<1>3. /\ ruled[Len(ruled) + 1 - j].time = Epoch + kept[j].time
      /\ ruled[Len(ruled) + 1 - j].humidity = kept[j].humidity
      /\ kept[j].time <= now
  BY <1>2 DEF Aligned
<1>4. kept[j].time \in Int BY <1>2, Timed
<1> DEFINE time == kept[j].time
<1>5. time <= now /\ time \in Int BY <1>3, <1>4
<1> HIDE DEF j, time
<1>6. SaturatingSub(now, time) = now - time BY <1>5 DEF SaturatingSub
<1>7. Epoch + time >= (Epoch + now) - RiseWindow <=> SaturatingSub(now, time) <= RiseWindow
  BY <1>5, <1>6, Numbers
<1>8. QED BY <1>2, <1>3, <1>7 DEF j, time

\* Where the two detectors find the oldest sample of the window.
LEMMA SameWindow ==
  ASSUME WindowCovered, NEW kept \in Samples, NEW ruled \in Samples, NEW now \in Nat,
         Aligned(kept, ruled, now),
         NEW n \in 1 .. Len(ruled)
  PROVE  R!InWindow(ruled, Epoch + now) = Len(ruled) + 1 - n .. Len(ruled)
           <=> /\ n <= Len(kept)
               /\ IsWindowRun(kept, now, n)
               /\ n = Len(kept) \/ ~IsWindowRun(kept, now, n + 1)
<1> DEFINE l == Len(ruled)
           window == R!InWindow(ruled, Epoch + now)
           first == l + 1 - n
<1>1. /\ l \in Nat /\ Len(kept) \in Nat /\ n \in 1 .. l
      /\ first \in 1 .. l /\ l + 1 - first = n
  BY DEF Samples
<1>2. PICK m \in Nat : /\ Len(kept) = Least(m, RiseBufferSize)
                       /\ Len(ruled) = Least(m, RuleBufferSize)
  BY DEF Aligned
<1>3. /\ \A i \in 1 .. Len(kept) : now - kept[i].time <= RiseWindow => i <= RiseWindow + 1
      /\ \A i \in 1 .. l :
           ruled[i].time >= (Epoch + now) - RiseWindow => l + 1 - i <= RiseWindow + 1
  BY FarBack
<1>4. \A i : i \in window <=> i \in 1 .. l /\ ruled[i].time >= (Epoch + now) - RiseWindow
  BY WindowMember
<1>5. ASSUME NEW i \in 1 .. Len(kept)
      PROVE  SaturatingSub(now, kept[i].time) = now - kept[i].time
  BY <1>5, Timed DEF SaturatingSub, Aligned
<1>6. ASSUME NEW i \in 1 .. l, l + 1 - i <= Len(kept)
      PROVE  i \in window <=> SaturatingSub(now, kept[l + 1 - i].time) <= RiseWindow
  BY <1>4, <1>6, SameSample
<1> HIDE DEF window
<1>7. ASSUME window = first .. l
      PROVE  /\ n <= Len(kept)
             /\ IsWindowRun(kept, now, n)
             /\ n = Len(kept) \/ ~IsWindowRun(kept, now, n + 1)
  <2>1. n <= RiseWindow + 1
    <3>1. first \in window BY <1>1, <1>7
    <3>2. QED BY <1>1, <1>3, <1>4, <3>1
  <2>2. n <= Len(kept) BY <1>1, <1>2, <2>1, Numbers DEF Least, WindowCovered
  <2>3. ASSUME NEW i \in 1 .. n
        PROVE  SaturatingSub(now, kept[i].time) <= RiseWindow
    <3>1. /\ l + 1 - i \in first .. l /\ l + 1 - i \in 1 .. l
          /\ l + 1 - (l + 1 - i) = i /\ i <= Len(kept)
      BY <1>1, <2>2, <2>3
    <3>2. QED BY <1>6, <1>7, <3>1
  <2>4. ASSUME n # Len(kept) PROVE ~IsWindowRun(kept, now, n + 1)
    <3>1. n + 1 \in 1 .. Len(kept) /\ n + 1 \in 1 .. n + 1 BY <1>1, <2>2, <2>4
    <3>2. SUFFICES ASSUME SaturatingSub(now, kept[n + 1].time) <= RiseWindow PROVE FALSE
      BY <3>1 DEF IsWindowRun
    <3>3. CASE n = l
      <4>1. n + 1 <= RiseWindow + 1 BY <1>3, <1>5, <3>1, <3>2
      <4>2. QED BY <1>1, <1>2, <3>1, <3>3, <4>1, Numbers DEF Least, WindowCovered
    <3>4. CASE n # l
      <4>1. l - n \in 1 .. l /\ l + 1 - (l - n) = n + 1 /\ l - n \notin first .. l
        BY <1>1, <3>4
      <4>2. l - n \in window BY <1>6, <3>1, <3>2, <4>1
      <4>3. QED BY <1>7, <4>1, <4>2
    <3>5. QED BY <3>3, <3>4
  <2>5. QED BY <2>2, <2>3, <2>4 DEF IsWindowRun
<1>8. ASSUME n <= Len(kept), IsWindowRun(kept, now, n),
             n = Len(kept) \/ ~IsWindowRun(kept, now, n + 1)
      PROVE  window = first .. l
  <2>1. ASSUME NEW i \in first .. l PROVE i \in window
    <3>1. i \in 1 .. l /\ l + 1 - i \in 1 .. n /\ l + 1 - i <= Len(kept)
      BY <1>1, <1>8, <2>1
    <3>2. QED BY <1>6, <1>8, <3>1 DEF IsWindowRun
  <2>2. ASSUME NEW i \in window PROVE i \in first .. l
    <3>1. i \in 1 .. l /\ l + 1 - i <= RiseWindow + 1
      BY <1>3, <1>4, <2>2
    <3>2. SUFFICES ASSUME i < first PROVE FALSE BY <1>1, <3>1
    <3>3. l + 1 - i > n BY <1>1, <3>1, <3>2
    <3>4. CASE n = Len(kept)
      BY <1>1, <1>2, <3>1, <3>3, <3>4, Numbers DEF Least, WindowCovered
    <3>5. CASE n # Len(kept)
      <4>1. n + 1 \in 1 .. Len(kept) /\ n + 1 <= l /\ first - 1 \in i .. l
            /\ l + 1 - (first - 1) = n + 1 /\ first - 1 \in 1 .. l
        BY <1>1, <1>8, <3>1, <3>2, <3>3, <3>5
      <4>2. i .. l \subseteq window BY <2>2, RuleWindow DEF window
      <4>3. SaturatingSub(now, kept[n + 1].time) <= RiseWindow
        BY <1>6, <4>1, <4>2
      <4>4. \A k \in 1 .. n + 1 : k = n + 1 \/ k \in 1 .. n BY <1>1
      <4>5. IsWindowRun(kept, now, n + 1) BY <1>8, <4>3, <4>4 DEF IsWindowRun
      <4>6. QED BY <1>8, <3>5, <4>5
    <3>6. QED BY <3>4, <3>5
  <2>3. QED BY <2>1, <2>2
<1>9. QED BY <1>7, <1>8 DEF window

\* So the two slopes are that of the same two samples.
LEMMA SameSlope ==
  ASSUME NEW kept \in Samples, NEW ruled \in Samples, NEW now \in Nat,
         Aligned(kept, ruled, now),
         NEW n \in 1 .. Len(ruled), n <= Len(kept)
  PROVE  LET l == Len(ruled)
             f == l + 1 - n
         IN  /\ l \in 1 .. l /\ f \in 1 .. l
             /\ SaturatingSub(kept[1].time, kept[n].time) = ruled[l].time - ruled[f].time
             /\ kept[1].humidity - kept[n].humidity = ruled[l].humidity - ruled[f].humidity
<1> DEFINE l == Len(ruled)
           f == l + 1 - n
<1>1. /\ l \in Nat /\ l \in 1 .. l /\ f \in 1 .. l /\ l + 1 - l = 1 /\ l + 1 - f = n
      /\ Len(kept) \in Nat /\ 1 \in 1 .. Len(kept) /\ n \in 1 .. Len(kept)
  BY DEF Samples
<1>2. /\ ruled[l].time = Epoch + kept[1].time /\ ruled[l].humidity = kept[1].humidity
      /\ ruled[f].time = Epoch + kept[n].time /\ ruled[f].humidity = kept[n].humidity
  <2>1. \A i \in 1 .. l : l + 1 - i <= Len(kept) =>
          /\ ruled[i].time = Epoch + kept[l + 1 - i].time
          /\ ruled[i].humidity = kept[l + 1 - i].humidity
    BY SameSample
  <2>2. l + 1 - l <= Len(kept) /\ l + 1 - f <= Len(kept) BY <1>1
  <2> HIDE DEF l, f
  <2>3. /\ ruled[l].time = Epoch + kept[l + 1 - l].time
        /\ ruled[l].humidity = kept[l + 1 - l].humidity
        /\ ruled[f].time = Epoch + kept[l + 1 - f].time
        /\ ruled[f].humidity = kept[l + 1 - f].humidity
    BY <1>1, <2>1, <2>2
  <2>4. QED BY <1>1, <2>3
<1>3. /\ kept[1].time \in Int /\ kept[n].time \in Int
      /\ kept[1].humidity \in Int /\ kept[n].humidity \in Int
  BY <1>1, Timed
<1>4. kept[n].time <= kept[1].time
  <2>1. CASE n = 1 BY <1>3, <2>1
  <2>2. CASE n # 1
    <3>1. kept[n].time + (n - 1) <= kept[1].time
      <4>1. 1 < n BY <2>2
      <4>2. QED BY <1>1, <4>1 DEF Aligned
    <3>2. QED BY <1>3, <3>1
  <2>3. QED BY <2>1, <2>2
<1>5. SaturatingSub(kept[1].time, kept[n].time) = kept[1].time - kept[n].time
  BY <1>3, <1>4 DEF SaturatingSub
<1> HIDE DEF l, f
<1>6. ruled[l].time - ruled[f].time = kept[1].time - kept[n].time
  BY <1>2, <1>3, Numbers
<1>7. QED BY <1>1, <1>2, <1>5, <1>6 DEF l, f

\* Counting is counting.
LEMMA SameCount == ASSUME NEW set PROVE R!Cardinality(set) = Cardinality(set)
BY DEF R!Cardinality, Cardinality

\* Both detectors see the same rise: the device's, which walks from the newest sample
\* until one is out of the window, and the rule's, which takes all that are inside.
LEMMA RiseAgrees ==
  ASSUME WindowCovered, NEW kept \in Samples, NEW now \in Nat, NEW copy,
         copy.riseBuffer \in Samples, Aligned(kept, copy.riseBuffer, now)
  PROVE  R!RuleRiseTriggered(copy, Epoch + now) <=> RiseRateTriggered(kept, now)
<1> DEFINE ruled == copy.riseBuffer
           l == Len(ruled)
           window == R!InWindow(ruled, Epoch + now)
           Steep(elapsed, rise) == elapsed > 0 /\ rise * Minute >= RiseThreshold * elapsed
           Seen(n) == /\ IsWindowRun(kept, now, n)
                      /\ n = Len(kept) \/ ~IsWindowRun(kept, now, n + 1)
<1>1. /\ ruled \in Samples /\ l \in Nat /\ Len(kept) \in Nat
      /\ Aligned(kept, ruled, now)
  BY DEF Samples
<1>2. R!RuleRiseTriggered(copy, Epoch + now) <=>
        /\ RiseEnabled
        /\ Cardinality(window) >= RiseMinSamples
        /\ \E oldest, newest \in window :
             /\ window \subseteq oldest .. newest
             /\ Steep(ruled[newest].time - ruled[oldest].time,
                      ruled[newest].humidity - ruled[oldest].humidity)
  BY SameCount, Zenon DEF R!RuleRiseTriggered
<1>3. RiseRateTriggered(kept, now) <=>
        /\ RiseEnabled
        /\ \E n \in 1 .. Len(kept) :
             /\ Seen(n)
             /\ n >= RiseMinSamples
             /\ Steep(SaturatingSub(kept[1].time, kept[n].time),
                      kept[1].humidity - kept[n].humidity)
  BY Zenon DEF RiseRateTriggered
<1>4. \A i : i \in window => i \in 1 .. l BY WindowMember
<1>5. ASSUME NEW n \in 1 .. l
      PROVE  window = l + 1 - n .. l <=> n <= Len(kept) /\ Seen(n)
  BY <1>1, <1>5, SameWindow
<1>6. ASSUME NEW n \in 1 .. l, window = l + 1 - n .. l
      PROVE  Cardinality(window) = n
  <2>1. /\ l + 1 - n \in Int /\ l \in Int /\ ~(l + 1 - n > l)
        /\ l - (l + 1 - n) + 1 = n
    BY <1>1, <1>6
  <2>2. Cardinality(l + 1 - n .. l) = l - (l + 1 - n) + 1
    <3> DEFINE f == l + 1 - n
    <3>1. f \in Int /\ l \in Int /\ ~(f > l) BY <2>1
    <3> HIDE DEF f, l
    <3>2. Cardinality(f .. l) = IF f > l THEN 0 ELSE l - f + 1 BY <3>1, FS_Interval
    <3>3. QED BY <3>1, <3>2 DEF f
  <2>3. QED BY <1>6, <2>1, <2>2
<1>7. ASSUME NEW n \in 1 .. l, n <= Len(kept)
      PROVE  /\ l \in 1 .. l /\ l + 1 - n \in 1 .. l
             /\ SaturatingSub(kept[1].time, kept[n].time)
                  = ruled[l].time - ruled[l + 1 - n].time
             /\ kept[1].humidity - kept[n].humidity
                  = ruled[l].humidity - ruled[l + 1 - n].humidity
  BY <1>1, <1>7, SameSlope
<1>8. \A first \in window : first .. l \subseteq window BY <1>1, RuleWindow
<1> HIDE DEF ruled, l, window, Steep, Seen
<1>9. ASSUME RiseEnabled, Cardinality(window) >= RiseMinSamples,
             NEW oldest \in window, NEW newest \in window,
             window \subseteq oldest .. newest,
             Steep(ruled[newest].time - ruled[oldest].time,
                   ruled[newest].humidity - ruled[oldest].humidity)
      PROVE  RiseRateTriggered(kept, now)
  <2>1. oldest \in 1 .. l /\ newest \in 1 .. l BY <1>4, <1>9
  <2>2. oldest .. l \subseteq window BY <1>8, <1>9
  <2>3. newest = l
    <3>1. l \in oldest .. l BY <1>1, <2>1
    <3>2. l \in oldest .. newest BY <1>9, <2>2, <3>1
    <3>3. QED BY <1>1, <2>1, <3>2
  <2> DEFINE n == l + 1 - oldest
  <2>4. n \in 1 .. l /\ l + 1 - n = oldest BY <1>1, <2>1
  <2>5. window = l + 1 - n .. l BY <1>9, <2>2, <2>3, <2>4
  <2> HIDE DEF n
  <2>6. n <= Len(kept) /\ Seen(n) BY <1>5, <2>4, <2>5
  <2>7. n >= RiseMinSamples BY <1>6, <1>9, <2>4, <2>5
  <2>8. Steep(SaturatingSub(kept[1].time, kept[n].time),
              kept[1].humidity - kept[n].humidity)
    <3>1. /\ SaturatingSub(kept[1].time, kept[n].time)
               = ruled[newest].time - ruled[oldest].time
          /\ kept[1].humidity - kept[n].humidity
               = ruled[newest].humidity - ruled[oldest].humidity
      BY <1>7, <2>3, <2>4, <2>6
    <3>2. QED BY <1>9, <3>1, Zenon
  <2>9. n \in 1 .. Len(kept) BY <1>1, <2>4, <2>6
  <2>10. QED BY <1>3, <1>9, <2>6, <2>7, <2>8, <2>9, Zenon
<1>10. ASSUME RiseEnabled, NEW n \in 1 .. Len(kept), Seen(n), n >= RiseMinSamples,
              Steep(SaturatingSub(kept[1].time, kept[n].time),
                    kept[1].humidity - kept[n].humidity)
       PROVE  R!RuleRiseTriggered(copy, Epoch + now)
  <2>1. n \in 1 .. l
    <3>1. PICK m \in Nat : /\ Len(kept) = Least(m, RiseBufferSize)
                           /\ Len(ruled) = Least(m, RuleBufferSize)
      BY <1>1 DEF Aligned
    <3>2. n <= RiseWindow + 1
      <4>1. n \in 1 .. n /\ SaturatingSub(now, kept[n].time) <= RiseWindow
        BY <1>1, <1>10 DEF Seen, IsWindowRun
      <4>2. now - kept[n].time <= RiseWindow
        <5>1. kept[n].time \in Int /\ kept[n].time <= now
          BY <1>1, <1>10, Timed DEF Aligned
        <5>2. QED BY <4>1, <5>1 DEF SaturatingSub
      <4>3. QED BY <1>1, <1>10, <4>2, FarBack
    <3>3. QED BY <1>1, <1>10, <3>1, <3>2, Numbers DEF l, Least, WindowCovered
  <2>2. n <= Len(kept) BY <1>1, <1>10
  <2>3. window = l + 1 - n .. l BY <1>5, <1>10, <2>1, <2>2
  <2>4. Cardinality(window) >= RiseMinSamples BY <1>6, <1>10, <2>1, <2>3
  <2> DEFINE f == l + 1 - n
  <2>5. /\ l \in 1 .. l /\ f \in 1 .. l
        /\ SaturatingSub(kept[1].time, kept[n].time) = ruled[l].time - ruled[f].time
        /\ kept[1].humidity - kept[n].humidity = ruled[l].humidity - ruled[f].humidity
    BY <1>7, <2>1, <2>2
  <2>6. window = f .. l BY <2>3
  <2> HIDE DEF f
  <2>7. f \in window /\ l \in window BY <1>1, <2>5, <2>6
  <2>8. Steep(ruled[l].time - ruled[f].time, ruled[l].humidity - ruled[f].humidity)
    BY <1>10, <2>5, Zenon
  <2>9. QED BY <1>2, <1>10, <2>4, <2>6, <2>7, <2>8, Zenon
<1>11. QED BY <1>2, <1>3, <1>9, <1>10, Zenon

-----------------------------------------------------------------------------
(* Firmware and rule *)

\* The device's samples, without the width of their times.
LEMMA DeviceSamples ==
  ASSUME TypeOK PROVE riseBuffer \in Samples /\ Len(riseBuffer) <= RiseBufferSize
<1>1. RiseSample \subseteq TimedSample
  BY ClockModulusAssumption DEF RiseSample, TimedSample, UInt32
<1>2. QED BY <1>1 DEF TypeOK, Samples

\* The fields of a rule in the state of the firmware's controller.
LEMMA RuledFields ==
  ASSUME RuledInv
  PROVE  /\ rule.relayOn = relayOn /\ rule.hasValidReading = hasValidReading
         /\ rule.lastHumidity = lastHumidity /\ rule.failures = missed
         /\ rule.relayOnSince = IF relayOn THEN Epoch + relayOnSince ELSE R!Never
<1> DEFINE changed == rule.lastChangeTime
           buffer == rule.riseBuffer
<1>1. rule = Ruled(changed, buffer) BY DEF RuledInv
<1> HIDE DEF changed, buffer
<1>2. QED BY <1>1 DEF Ruled

\* In the same state, with the same samples, both make the same of the sensor.
LEMMA RuleCandidate ==
  ASSUME RiseEnabled => WindowCovered, Horizon < ClockModulus, CommonInv, due,
         RuledInv, SamplesInv
  PROVE  R!Candidate(rule, PosixTime) = FallbackCandidate(Now)
<1>1. Now = uptime /\ uptime \in Nat /\ PosixTime = Epoch + uptime
  BY NowIsUptime DEF PosixTime
<1>2. /\ rule.relayOn = relayOn /\ rule.hasValidReading = hasValidReading
      /\ rule.lastHumidity = lastHumidity /\ rule.failures = missed
  BY RuledFields
<1>3. R!RuleFailed(rule) <=> SensorFailed
  BY <1>2, Numbers DEF R!RuleFailed, SensorFailed, CommonInv, SensorInv, TypeOK
<1>4. R!Band(rule) = HysteresisCandidate BY <1>2 DEF R!Band, HysteresisCandidate
<1>5. R!RuleRiseTriggered(rule, PosixTime) <=> RiseRateTriggered(riseBuffer, Now)
  <2>1. riseBuffer \in Samples BY DeviceSamples DEF CommonInv
  <2>2. rule.riseBuffer \in Samples /\ Aligned(riseBuffer, rule.riseBuffer, uptime)
    BY DEF SamplesInv, LastReading
  <2>3. CASE RiseEnabled BY <1>1, <2>1, <2>2, <2>3, RiseAgrees
  <2>4. CASE ~RiseEnabled BY <2>4 DEF R!RuleRiseTriggered, RiseRateTriggered
  <2>5. QED BY <2>3, <2>4
<1>6. QED BY <1>2, <1>3, <1>4, <1>5, Zenon DEF R!Candidate, FallbackCandidate

\* So they decide the same, for the same reason.
LEMMA SameOutcome ==
  ASSUME RiseEnabled => WindowCovered, Horizon < ClockModulus, MinFanOff <= FirstReading,
         CommonInv, due, ~mqttReceived, RuledInv, SamplesInv
  PROVE  R!RuleOutcome(rule, PosixTime) = Outcome(Now)
<1>1. /\ Now = uptime /\ uptime \in Nat /\ PosixTime = Epoch + uptime
      /\ lastRelayChange \in Nat /\ lastRelayChange <= uptime
      /\ relayOnSince \in Nat /\ relayOnSince <= uptime
      /\ FirstReading <= uptime /\ relayOn \in BOOLEAN
  BY NowIsUptime, ClockModulusAssumption DEF PosixTime, CommonInv, TypeOK, UInt32
<1>2. /\ SaturatingSub(Now, lastRelayChange) = uptime - lastRelayChange
      /\ SaturatingSub(Now, relayOnSince) = uptime - relayOnSince
  BY <1>1 DEF SaturatingSub
<1>3. ComputeCandidate(Now) = FallbackCandidate(Now)
  <2>1. OperatingMode(Now) = "local_fallback"
    BY DEF OperatingMode, IsOverrideActive, IsMqttFresh, CommonInv
  <2>2. QED BY <2>1 DEF ComputeCandidate
<1>4. R!Candidate(rule, PosixTime) = ComputeCandidate(Now) BY <1>3, RuleCandidate
<1>5. R!RuleCutoff(rule, PosixTime) <=> MaxRuntimeExceeded(Now)
  <2>1. CASE relayOn
    <3>1. rule.relayOn /\ rule.relayOnSince = Epoch + relayOnSince
      BY <2>1, RuledFields
    <3>2. Epoch + relayOnSince # R!Never BY <1>1, Numbers DEF R!Never
    <3>3. PosixTime - (Epoch + relayOnSince) = uptime - relayOnSince
      BY <1>1, Numbers
    <3>4. QED BY <1>2, <2>1, <3>1, <3>2, <3>3 DEF R!RuleCutoff, MaxRuntimeExceeded
  <2>2. CASE ~relayOn
    BY <2>2, RuledFields DEF R!RuleCutoff, MaxRuntimeExceeded
  <2>3. QED BY <2>1, <2>2
<1>6. R!RuleHolds(rule, PosixTime) <=> DwellHolds(Now)
  <2>1. CASE rule.lastChangeTime = Epoch + lastRelayChange
    <3>1. PosixTime - rule.lastChangeTime = uptime - lastRelayChange
      BY <1>1, <2>1, Numbers
    <3>2. QED BY <1>2, <3>1, RuledFields DEF R!RuleHolds, DwellHolds
  <2>2. CASE ~relayOn /\ lastRelayChange = 0 /\ rule.lastChangeTime = 0
    <3>1. /\ PosixTime - rule.lastChangeTime = Epoch + uptime
          /\ ~(Epoch + uptime < MinFanOff) /\ ~(uptime - lastRelayChange < MinFanOff)
      BY <1>1, <2>2, Numbers
    <3>2. QED BY <1>2, <2>2, <3>1, RuledFields DEF R!RuleHolds, DwellHolds
  <2>3. QED BY <2>1, <2>2 DEF RuledInv
<1>7. QED BY <1>4, <1>5, <1>6, RuledFields, Zenon DEF R!RuleOutcome, Outcome

\* A buffer that is no later than one moment is no later than a later one.
LEMMA AlignedLater ==
  ASSUME NEW kept \in Samples, NEW ruled \in Samples, NEW last \in Nat, NEW now \in Nat,
         last <= now, Aligned(kept, ruled, last)
  PROVE  Aligned(kept, ruled, now)
<1>1. \A i \in 1 .. Len(kept) : kept[i].time <= now
  <2> SUFFICES ASSUME NEW i \in 1 .. Len(kept) PROVE kept[i].time <= now OBVIOUS
  <2>1. kept[i].time \in Int /\ kept[i].time <= last BY Timed DEF Aligned
  <2>2. QED BY <2>1
<1>2. \A i \in 1 .. Len(ruled) : ruled[i].time <= Epoch + now
  <2> SUFFICES ASSUME NEW i \in 1 .. Len(ruled) PROVE ruled[i].time <= Epoch + now OBVIOUS
  <2>1. ruled[i].time \in Int /\ ruled[i].time <= Epoch + last BY Timed DEF Aligned
  <2>2. QED BY <2>1, Numbers
<1>3. QED BY <1>1, <1>2 DEF Aligned

\* A decision has a reason of its own.
LEMMA NeverStartup ==
  ASSUME NEW now PROVE Outcome(now).reason # "startup_safe_state"
<1>1. HysteresisCandidate.reason # "startup_safe_state"
  BY DEF HysteresisCandidate
<1>2. FallbackCandidate(now).reason # "startup_safe_state"
  BY <1>1 DEF FallbackCandidate
<1>3. ComputeCandidate(now).reason # "startup_safe_state"
  BY <1>2 DEF ComputeCandidate
<1>4. QED BY <1>3 DEF Outcome

\* Both take a reading alike, and put it into both buffers or neither.
LEMMA RuleReads ==
  ASSUME Horizon < ClockModulus, CommonInv, RuledInv, SamplesInv, ShareReading
  PROVE  RuledInv' /\ SamplesInv'
<1>1. PICK reading \in Readings :
        OnSensorReading(reading, Now) /\ rule' = R!OnReading(rule, reading, PosixTime)
  BY DEF ShareReading
<1>2. /\ ~due /\ due' = TRUE /\ uptime' = uptime /\ LastReading = tickedAt
      /\ LastReading' = uptime /\ UNCHANGED relayVars
      /\ tickedAt < uptime \/ decision.reason = "startup_safe_state"
  BY <1>1 DEF ShareReading, OnSensorReading, LastReading
<1>3. /\ Now = uptime /\ uptime \in Nat /\ tickedAt \in Nat /\ tickedAt <= uptime
      /\ PosixTime = Epoch + uptime
  BY NowIsUptime DEF CommonInv, TypeOK, PosixTime
<1>4. /\ riseBuffer \in Samples /\ rule.riseBuffer \in Samples
      /\ Aligned(riseBuffer, rule.riseBuffer, tickedAt)
      /\ tickedAt < uptime \/ (riseBuffer = <<>> /\ rule.riseBuffer = <<>>)
  BY <1>2, DeviceSamples DEF SamplesInv, CommonInv
<1>5. PICK changed, buffer : /\ rule = Ruled(changed, buffer) /\ buffer = rule.riseBuffer
                             /\ changed = rule.lastChangeTime
  BY DEF RuledInv
<1>6. InRange(reading) <=> R!InRange(reading) BY DEF InRange, R!InRange
<1>7. CASE InRange(reading) /\ RiseEnabled
  <2>1. reading.humidity \in Int /\ uptime \in Int /\ tickedAt \in Int
    BY <1>3, EnvironmentAssumption
  <2>2. PICK newer :
          newer = R!Appended(buffer, [time |-> Epoch + uptime, humidity |-> reading.humidity])
    OBVIOUS
  <2>3. /\ newer \in Samples
        /\ Aligned(UpdateRiseRateBuffer(riseBuffer, reading.humidity, uptime), newer, uptime)
    BY <1>4, <1>5, <1>7, <2>1, <2>2, AlignedNext, Zenon
  <2>4. /\ riseBuffer' = UpdateRiseRateBuffer(riseBuffer, reading.humidity, uptime)
        /\ hasValidReading' = TRUE /\ lastHumidity' = reading.humidity /\ missed' = 0
    BY <1>1, <1>3, <1>7 DEF OnSensorReading
  <2>5. rule' = [rule EXCEPT !.failures = 0, !.hasValidReading = TRUE,
                             !.lastHumidity = reading.humidity, !.riseBuffer = newer]
    BY <1>1, <1>3, <1>5, <1>6, <1>7, <2>2 DEF R!OnReading
  <2>6. rule' = Ruled(changed, newer)'
    BY <1>2, <1>5, <2>4, <2>5 DEF Ruled, relayVars
  <2>7. rule'.riseBuffer = newer /\ rule'.lastChangeTime = changed BY <2>6 DEF Ruled
  <2>8. RuledInv' BY <1>2, <1>5, <2>6, <2>7 DEF RuledInv, relayVars
  <2>9. SamplesInv' BY <1>2, <2>3, <2>4, <2>7 DEF SamplesInv
  <2>10. QED BY <2>8, <2>9
<1>8. CASE ~(InRange(reading) /\ RiseEnabled)
  <2>1. riseBuffer' = riseBuffer
    BY <1>1, <1>8 DEF OnSensorReading, UpdateRiseRateBuffer
  <2>2. rule' = Ruled(changed, buffer)'
    <3>1. CASE InRange(reading)
      <4>1. /\ hasValidReading' = TRUE /\ lastHumidity' = reading.humidity /\ missed' = 0
        BY <1>1, <3>1 DEF OnSensorReading
      <4>2. rule' = [rule EXCEPT !.failures = 0, !.hasValidReading = TRUE,
                                 !.lastHumidity = reading.humidity,
                                 !.riseBuffer = rule.riseBuffer]
        BY <1>1, <1>6, <1>8, <3>1 DEF R!OnReading
      <4>3. QED BY <1>2, <1>5, <4>1, <4>2 DEF Ruled, relayVars
    <3>2. CASE ~InRange(reading)
      <4>1. /\ missed' = IF missed < FailureLimit THEN missed + 1 ELSE missed
            /\ UNCHANGED <<hasValidReading, lastHumidity>>
        BY <1>1, <3>2 DEF OnSensorReading
      <4>2. rule.failures = missed BY RuledFields
      <4>3. rule' = [rule EXCEPT !.failures = missed']
        BY <1>1, <1>6, <3>2, <4>1, <4>2 DEF R!OnReading
      <4>4. QED BY <1>2, <1>5, <4>1, <4>3 DEF Ruled, relayVars
    <3>3. QED BY <3>1, <3>2
  <2>3. rule'.riseBuffer = buffer /\ rule'.lastChangeTime = changed BY <2>2 DEF Ruled
  <2>4. RuledInv' BY <1>2, <1>5, <2>2, <2>3 DEF RuledInv, relayVars
  <2>5. SamplesInv'
    <3>1. Aligned(riseBuffer, buffer, uptime) BY <1>3, <1>4, <1>5, AlignedLater
    <3>2. QED BY <1>2, <1>4, <1>5, <2>1, <2>3, <3>1 DEF SamplesInv
  <2>6. QED BY <2>4, <2>5
<1>9. QED BY <1>7, <1>8

\* And both decide alike.
LEMMA RuleDecides ==
  ASSUME RiseEnabled => WindowCovered, Horizon < ClockModulus, MinFanOff <= FirstReading,
         CommonInv, ~mqttReceived, RuledInv, SamplesInv, Decide
  PROVE  /\ RuledInv' /\ SamplesInv'
         /\ relayOn' = rule'.relayOn
         /\ decision'.reason = R!RuleOutcome(rule, PosixTime).reason
<1>1. /\ due /\ due' = FALSE /\ Tick(Now) /\ rule' = R!Evaluated(rule, PosixTime)
      /\ Now = uptime /\ uptime' = uptime /\ tickedAt' = uptime /\ uptime \in Nat
      /\ LastReading = uptime /\ LastReading' = uptime
  BY NowIsUptime DEF Decide, Tick, LastReading
<1>2. R!RuleOutcome(rule, PosixTime) = Outcome(Now) BY <1>1, SameOutcome
<1>3. /\ relayOn' = Outcome(Now).on /\ decision'.reason = Outcome(Now).reason
      /\ UNCHANGED <<hasValidReading, lastHumidity, missed, riseBuffer>>
  BY <1>1, TickEffect DEF Tick, sensorVars
<1>4. /\ lastRelayChange' = IF relayOn' = relayOn THEN lastRelayChange ELSE uptime
      /\ relayOnSince' = IF relayOn' = relayOn \/ ~relayOn' THEN relayOnSince ELSE uptime
  BY <1>1, <1>3 DEF Tick, SwitchRelay
<1>5. relayOn \in BOOLEAN /\ relayOn' \in BOOLEAN /\ decision'.reason # "startup_safe_state"
  <2>1. CommonInv' BY CommonNext DEF MirrorNext
  <2>2. decision'.reason # "startup_safe_state" BY <1>3, NeverStartup
  <2>3. QED BY <2>1, <2>2 DEF CommonInv, TypeOK
<1>6. PICK changed, buffer : /\ rule = Ruled(changed, buffer) /\ buffer = rule.riseBuffer
                             /\ changed = rule.lastChangeTime
  BY DEF RuledInv
<1>7. rule.relayOn = relayOn BY RuledFields
<1>8. PICK later : later = IF relayOn' = relayOn THEN changed ELSE PosixTime OBVIOUS
<1>9. rule' = Ruled(later, buffer)'
  <2>1. CASE relayOn' = relayOn
    <3>1. rule' = rule BY <1>1, <1>2, <1>3, <1>7, <2>1 DEF R!Evaluated
    <3>2. QED BY <1>3, <1>4, <1>6, <1>8, <2>1, <3>1 DEF Ruled
  <2>2. CASE relayOn' # relayOn
    <3>1. rule' = [rule EXCEPT !.relayOn = relayOn', !.lastChangeTime = PosixTime,
                               !.relayOnSince = IF relayOn' THEN PosixTime ELSE R!Never]
      BY <1>1, <1>2, <1>3, <1>7, <2>2 DEF R!Evaluated
    <3>2. PosixTime = Epoch + uptime BY DEF PosixTime
    <3>3. QED BY <1>3, <1>4, <1>5, <1>6, <1>8, <2>2, <3>1, <3>2 DEF Ruled
  <2>3. QED BY <2>1, <2>2
<1>10. /\ rule'.riseBuffer = buffer /\ rule'.lastChangeTime = later
       /\ rule'.relayOn = relayOn'
  BY <1>9 DEF Ruled
<1>11. RuledInv'
  <2>1. CASE relayOn' = relayOn
    BY <1>4, <1>6, <1>8, <1>9, <1>10, <2>1 DEF RuledInv
  <2>2. CASE relayOn' # relayOn
    BY <1>4, <1>8, <1>9, <1>10, <2>2 DEF RuledInv, PosixTime
  <2>3. QED BY <2>1, <2>2
<1>12. SamplesInv' BY <1>1, <1>3, <1>5, <1>6, <1>10 DEF SamplesInv
<1>13. QED BY <1>2, <1>3, <1>10, <1>11, <1>12

\* Every step keeps the two alike, until a message comes.
LEMMA RuleNext ==
  ASSUME RiseEnabled => WindowCovered, Horizon < ClockModulus, MinFanOff <= FirstReading,
         CommonInv, RuleInv, [MirrorNext]_mirrorVars
  PROVE  RuleInv'
<1> SUFFICES ASSUME ~mqttReceived' PROVE RuledInv' /\ SamplesInv' BY DEF RuleInv
<1>1. CASE ShareReading
  <2>1. ~mqttReceived BY <1>1 DEF ShareReading, OnSensorReading, mqttVars
  <2>2. QED BY <1>1, <2>1, RuleReads DEF RuleInv
<1>2. CASE ShareDesired BY <1>2 DEF ShareDesired, OnMqttDesired
<1>3. CASE Decide
  <2>1. ~mqttReceived BY <1>3 DEF Decide, Tick, mqttVars
  <2>2. QED BY <1>3, <2>1, RuleDecides DEF RuleInv
<1>4. CASE Elapse
  <2>1. /\ ~mqttReceived /\ ~due
        /\ UNCHANGED <<relayVars, sensorVars, tickVars, rule, due>>
    BY <1>4 DEF Elapse, mqttVars
  <2>2. QED
    BY <2>1
    DEF RuleInv, RuledInv, Ruled, SamplesInv, LastReading, relayVars, sensorVars, tickVars
<1>5. CASE UNCHANGED mirrorVars
  BY <1>5
  DEF mirrorVars, vars, RuleInv, RuledInv, Ruled, SamplesInv, LastReading, relayVars,
      sensorVars, mqttVars, tickVars
<1>6. QED BY <1>1, <1>2, <1>3, <1>4, <1>5 DEF MirrorNext

\* The state in which both begin.
LEMMA RuleStart == MirrorInit => RuleInv
<1> SUFFICES ASSUME MirrorInit PROVE RuledInv /\ SamplesInv BY DEF RuleInv
<1>1. rule = Ruled(0, <<>>) /\ riseBuffer = <<>> /\ ~relayOn /\ lastRelayChange = 0
  BY DEF MirrorInit, Init, Ruled, R!NewRule
<1>2. rule.riseBuffer = <<>> /\ rule.lastChangeTime = 0 BY <1>1 DEF Ruled
<1>3. RuledInv BY <1>1, <1>2 DEF RuledInv
<1>4. <<>> \in Samples /\ Len(<<>>) = 0 BY DEF Samples
<1>5. Aligned(<<>>, <<>>, LastReading)
  <2>1. 0 \in Nat /\ Least(0, RiseBufferSize) = 0 /\ Least(0, RuleBufferSize) = 0
    BY Numbers DEF Least
  <2>2. \A i \in 1 .. Len(<<>>) : FALSE BY <1>4
  <2>3. QED BY <1>4, <2>1, <2>2, Zenon DEF Aligned
<1>6. QED BY <1>1, <1>2, <1>3, <1>4, <1>5 DEF SamplesInv

\* From the same readings the firmware and the rule decide the same, for the same
\* reason, as long as no message has come (module docstring of rules.py) - given that
\* the clock does not wrap, that both buffers have room for a window of samples if
\* the rise detector is on, and that the device's first reading comes after the
\* minimum off-time of the boot.
THEOREM RuleDecidesAlike ==
  ASSUME Horizon < ClockModulus, RiseEnabled => WindowCovered, MinFanOff <= FirstReading
  PROVE  MirrorSpec => SameDecision
<1>1. RuleInv /\ CommonInv /\ [MirrorNext]_mirrorVars => RuleInv'
  BY RuleNext
<1>2. RuleInv /\ CommonInv /\ [MirrorNext]_mirrorVars =>
        [Decide /\ ~mqttReceived =>
           /\ relayOn' = rule'.relayOn
           /\ decision'.reason = R!RuleOutcome(rule, PosixTime).reason]_mirrorVars
  BY RuleDecides DEF RuleInv
<1>3. QED BY <1>1, <1>2, RuleStart, SimInvHolds, PTL DEF MirrorSpec, SameDecision

=============================================================================
