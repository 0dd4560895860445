----------------------- MODULE AutomationServiceProofs -----------------------
(***************************************************************************)
(* What holds of the automation service for every number of devices, every *)
(* configuration of its rule, every number of messages a device may leave  *)
(* unacknowledged, and every bound.                                        *)
(***************************************************************************)
EXTENDS AutomationService, FiniteSetTheorems, TLAPS

-----------------------------------------------------------------------------
(* The inductive invariant *)

\* A rule, as far as its fields have a type of their own.
Rule ==
  [relayOn : BOOLEAN, lastChangeTime : Nat, relayOnSince : {Never} \cup Nat,
   hasValidReading : BOOLEAN, lastHumidity : Int, failures : 0 .. FailureLimit,
   riseBuffer : Seq([time : Nat, humidity : Int])]

\* The types of all variables.
TypesInv ==
  /\ clock \in Epoch .. Epoch + Horizon
  /\ boot \in [DeviceIds -> Nat]
  /\ seq \in [DeviceIds -> Nat]
  /\ unacked \in [DeviceIds -> Seq(Telemetry)]
  /\ reached \in [DeviceIds -> Nat]
  /\ inbox \in Seq(Telemetry)
  /\ devices \in [DeviceIds -> [rule : Rule, lastSeq : {NoSeq} \cup Nat]]
  /\ handled \subseteq Telemetry
  /\ failing \in [DeviceIds -> SUBSET Telemetry]
  /\ asked \in [DeviceIds -> [on : BOOLEAN, since : {Never} \cup Nat]]

\* What a device would send again is the end of what it has sent in this life.
Sender(d) ==
  /\ d \notin Resending => unacked[d] = <<>>
  /\ Len(unacked[d]) <= Window
  /\ reached[d] <= Len(unacked[d])
  /\ \A i \in 1 .. Len(unacked[d]) :
       /\ unacked[d][i].device = d
       /\ unacked[d][i].boot = boot[d]
       /\ unacked[d][i].seq = seq[d] - 1 - Len(unacked[d]) + i

SendersInv == \A d \in DeviceIds : Sender(d)

\* Every message that some part of the system still knows.
Known ==
  handled \cup {inbox[i] : i \in 1 .. Len(inbox)}
          \cup UNION {{unacked[d][i] : i \in 1 .. Len(unacked[d])} : d \in DeviceIds}

SameNumber(m, n) == m.device = n.device /\ m.boot = n.boot /\ m.seq = n.seq

\* A message known has been sent, and its number was given to no other.
KnownInv ==
  \A m \in Known :
    /\ \/ m.boot < boot[m.device]
       \/ m.boot = boot[m.device] /\ m.seq < seq[m.device]
    /\ \A n \in Known : SameNumber(m, n) => m = n

\* Messages of one device come by lives of it, and none comes after one that is a
\* window or more ahead of it.
NotAfter(m, n) ==
  m.device = n.device =>
    \/ m.boot < n.boot
    \/ m.boot = n.boot /\ m.seq - n.seq < Window

\* The inbox is in that order, and comes after what has been handled.
OrderInv ==
  \A i \in 1 .. Len(inbox) :
    /\ \A h \in handled : NotAfter(h, inbox[i])
    /\ \A j \in 1 .. Len(inbox) : i < j => NotAfter(inbox[i], inbox[j])

\* The number kept of a device is that of the last of its messages handled, which is
\* among the failures of the device if there are any.
LastInv ==
  \A d \in DeviceIds :
    IF devices[d].lastSeq = NoSeq THEN \A h \in handled : h.device # d
    ELSE \E last \in handled :
           /\ last.device = d
           /\ last.seq = devices[d].lastSeq
           /\ \A h \in handled : NotAfter(h, last)
           /\ failing[d] # {} => last \in failing[d]

\* The failures a rule has counted are those of messages handled, once each unless two
\* of them may have been sent again together.
FailuresInv ==
  \A d \in DeviceIds :
    /\ failing[d] \subseteq handled
    /\ IsFiniteSet(failing[d])
    /\ \/ devices[d].rule.failures <= Cardinality(failing[d])
       \/ \E a, b \in failing[d] : Neighbours(a, b)

\* What was asked of a device last is what its rule decided last, and when.
RequestInv ==
  \A d \in DeviceIds :
    LET rule == devices[d].rule
    IN  /\ asked[d].on = rule.relayOn
        /\ asked[d].since # Never => asked[d].since = rule.lastChangeTime
        /\ rule.relayOn => /\ asked[d].since # Never
                           /\ rule.relayOnSince = rule.lastChangeTime
        /\ asked[d].since <= clock

-----------------------------------------------------------------------------
(* The rule *)

\* A new sample on a buffer leaves it a buffer.
LEMMA AppendedType ==
  ASSUME NEW S, NEW buffer \in Seq(S), NEW sample \in S
  PROVE  Appended(buffer, sample) \in Seq(S)
<1>1. Append(buffer, sample) \in Seq(S) OBVIOUS
<1>2. Len(Append(buffer, sample)) = Len(buffer) + 1 /\ Len(buffer) \in Nat OBVIOUS
<1>3. Append(buffer, sample) # <<>> BY <1>2
<1>4. Tail(Append(buffer, sample)) \in Seq(S) BY <1>1, <1>3
<1>5. QED BY <1>1, <1>4 DEF Appended

\* The fields of a rule that the proofs compute with.
LEMMA RuleFields ==
  ASSUME NEW rule \in Rule
  PROVE  /\ rule.relayOn \in BOOLEAN
         /\ rule.lastChangeTime \in Nat
         /\ rule.relayOnSince \in {Never} \cup Nat
         /\ rule.failures \in 0 .. FailureLimit
         /\ FailureLimit \in Nat /\ MinFanOn \in Nat /\ MinFanOff \in Nat
         /\ MaxRuntime \in Nat \ {0} /\ HoldLastState \in BOOLEAN
<1>1. /\ FailureLimit \in Nat /\ MinFanOn \in Nat /\ MinFanOff \in Nat
      /\ MaxRuntime \in Nat \ {0} /\ HoldLastState \in BOOLEAN
  BY RuleAssumption
<1>2. QED BY <1>1 DEF Rule

\* A reading keeps the rule in its type and does not touch the relay.
LEMMA OnReadingType ==
  ASSUME NEW rule \in Rule, NEW reading, NEW now \in Nat
  PROVE  LET read == OnReading(rule, reading, now)
         IN  /\ read \in Rule
             /\ read.relayOn = rule.relayOn
             /\ read.lastChangeTime = rule.lastChangeTime
             /\ read.relayOnSince = rule.relayOnSince
             /\ read.failures = IF InRange(reading) THEN 0
                                ELSE IF rule.failures < FailureLimit
                                       THEN rule.failures + 1 ELSE rule.failures
<1>1. CASE InRange(reading)
  <2>1. reading.humidity \in Int BY <1>1, RuleAssumption DEF InRange
  <2> DEFINE sample == [time |-> now, humidity |-> reading.humidity]
             buffer == IF RiseEnabled THEN Appended(rule.riseBuffer, sample)
                                      ELSE rule.riseBuffer
  <2>2. buffer \in Seq([time : Nat, humidity : Int])
    BY <2>1, AppendedType DEF Rule
  <2>3. OnReading(rule, reading, now) =
          [rule EXCEPT !.failures = 0, !.hasValidReading = TRUE,
                       !.lastHumidity = reading.humidity, !.riseBuffer = buffer]
    BY <1>1 DEF OnReading
  <2> HIDE DEF buffer
  <2>4. 0 \in 0 .. FailureLimit BY RuleAssumption
  <2>5. QED BY <1>1, <2>1, <2>2, <2>3, <2>4 DEF Rule
<1>2. CASE ~InRange(reading)
  <2>1. OnReading(rule, reading, now) =
          [rule EXCEPT !.failures = IF rule.failures < FailureLimit
                                      THEN rule.failures + 1 ELSE rule.failures]
    BY <1>2 DEF OnReading
  <2>2. (IF rule.failures < FailureLimit THEN rule.failures + 1 ELSE rule.failures)
          \in 0 .. FailureLimit
    BY RuleFields
  <2>3. QED BY <1>2, <2>1, <2>2 DEF Rule
<1>3. QED BY <1>1, <1>2

\* What the rule decides is on or off.
LEMMA RuleOutcomeType ==
  ASSUME NEW rule \in Rule, NEW now \in Nat
  PROVE  RuleOutcome(rule, now).on \in BOOLEAN
<1>1. rule.relayOn \in BOOLEAN BY DEF Rule
<1>2. Band(rule).on \in BOOLEAN BY <1>1 DEF Band
<1>3. Candidate(rule, now).on \in BOOLEAN
  BY <1>1, <1>2, RuleAssumption DEF Candidate
<1>4. QED BY <1>1, <1>3 DEF RuleOutcome

\* A decision keeps the rule in its type; it changes the relay and both timers, or
\* nothing, and never the count of failures.
LEMMA EvaluatedType ==
  ASSUME NEW rule \in Rule, NEW now \in Nat
  PROVE  LET new == Evaluated(rule, now)
             on  == RuleOutcome(rule, now).on
         IN  /\ new \in Rule
             /\ new.relayOn = on
             /\ new.failures = rule.failures
             /\ on = rule.relayOn =>
                  /\ new.lastChangeTime = rule.lastChangeTime
                  /\ new.relayOnSince = rule.relayOnSince
             /\ on # rule.relayOn =>
                  /\ new.lastChangeTime = now
                  /\ on => new.relayOnSince = now
<1> DEFINE on == RuleOutcome(rule, now).on
           since == IF on THEN now ELSE Never
<1>1. on \in BOOLEAN BY RuleOutcomeType
<1>2. since \in {Never} \cup Nat OBVIOUS
<1>3. CASE on = rule.relayOn
  <2>1. Evaluated(rule, now) = rule BY <1>3 DEF Evaluated
  <2>2. QED BY <1>3, <2>1
<1>4. CASE on # rule.relayOn
  <2>1. Evaluated(rule, now) =
          [rule EXCEPT !.relayOn = on, !.lastChangeTime = now, !.relayOnSince = since]
    BY <1>4 DEF Evaluated
  <2>2. on => since = now OBVIOUS
  <2> HIDE DEF on, since
  <2>3. Evaluated(rule, now) \in Rule BY <1>1, <1>2, <2>1 DEF Rule
  <2>4. QED BY <1>4, <2>1, <2>2, <2>3 DEF on, Rule
<1>5. QED BY <1>3, <1>4

\* Only the cutoff and a finished dwell let a rule change its mind, and a rule that
\* stays on is within its runtime limit.
LEMMA RuleTimers ==
  ASSUME NEW rule \in Rule, NEW now \in Nat,
         rule.relayOn => rule.relayOnSince = rule.lastChangeTime
  PROVE  LET on == RuleOutcome(rule, now).on
         IN  /\ on # rule.relayOn =>
                  now - rule.lastChangeTime >=
                    IF ~rule.relayOn THEN MinFanOff
                    ELSE IF MaxRuntime < MinFanOn THEN MaxRuntime ELSE MinFanOn
             /\ rule.relayOn /\ on => now - rule.lastChangeTime < MaxRuntime
<1> DEFINE elapsed == now - rule.lastChangeTime
<1>1. /\ elapsed \in Int /\ rule.relayOn \in BOOLEAN
      /\ MinFanOn \in Nat /\ MinFanOff \in Nat /\ MaxRuntime \in Nat
  BY RuleFields
<1>2. CASE RuleCutoff(rule, now)
  <2>1. rule.relayOn /\ elapsed >= MaxRuntime BY <1>2 DEF RuleCutoff
  <2>2. RuleOutcome(rule, now).on = FALSE BY <1>2 DEF RuleOutcome
  <2>3. elapsed >= IF MaxRuntime < MinFanOn THEN MaxRuntime ELSE MinFanOn
    BY <1>1, <2>1
  <2>4. elapsed >= IF ~rule.relayOn THEN MinFanOff
                   ELSE IF MaxRuntime < MinFanOn THEN MaxRuntime ELSE MinFanOn
    BY <2>1, <2>3
  <2>5. QED BY <2>2, <2>4
<1>3. CASE ~RuleCutoff(rule, now)
  <2>1. rule.relayOn => ~(elapsed >= MaxRuntime)
    BY <1>3, RuleFields DEF RuleCutoff, Never
  <2>2. RuleOutcome(rule, now).on # rule.relayOn => ~RuleHolds(rule, now)
    BY <1>3 DEF RuleOutcome
  <2>3. ~RuleHolds(rule, now) =>
          ~(elapsed < IF rule.relayOn THEN MinFanOn ELSE MinFanOff)
    BY DEF RuleHolds
  <2> HIDE DEF elapsed
  <2>4. QED BY <1>1, <2>1, <2>2, <2>3 DEF elapsed
<1>4. QED BY <1>2, <1>3

-----------------------------------------------------------------------------
(* Types *)

Device == [rule : Rule, lastSeq : {NoSeq} \cup Nat]

\* The bounds are numbers.
LEMMA Bounds ==
  /\ Window \in Nat /\ Window > 0
  /\ Epoch \in Nat /\ Horizon \in Nat /\ InboxMax \in Nat
  /\ Resending \subseteq DeviceIds
  BY ServiceAssumption

\* A message has the types of its fields.
LEMMA TelemetryFields ==
  ASSUME NEW m \in Telemetry
  PROVE  /\ m.device \in DeviceIds /\ m.boot \in Nat /\ m.seq \in Nat
         /\ m.reading \in Readings
  BY DEF Telemetry

\* A device not seen before is one.
LEMMA NewDeviceType ==
  NewDevice \in Device /\ NoRequest \in [on : BOOLEAN, since : {Never} \cup Nat]
<1>1. <<>> \in Seq([time : Nat, humidity : Int]) OBVIOUS
<1>2. 0 \in 0 .. FailureLimit BY RuleAssumption
<1>3. NewRule \in Rule BY <1>1, <1>2 DEF NewRule, Rule
<1>4. QED BY <1>3 DEF NewDevice, Device, NoRequest

\* The oldest message of the inbox and the rest of it.
LEMMA InboxSplit ==
  ASSUME TypesInv, inbox # <<>>
  PROVE  /\ Head(inbox) = inbox[1] /\ Head(inbox) \in Telemetry
         /\ 1 \in 1 .. Len(inbox)
         /\ Tail(inbox) \in Seq(Telemetry)
         /\ Len(inbox) \in Nat
         /\ Len(Tail(inbox)) = Len(inbox) - 1
         /\ \A i \in 1 .. Len(Tail(inbox)) :
              i + 1 \in 1 .. Len(inbox) /\ Tail(inbox)[i] = inbox[i + 1]
  BY DEF TypesInv

\* What a decision on a message does to the device it is about.
LEMMA DecideEffect ==
  ASSUME TypesInv, NEW t \in Telemetry, Decide(t)
  PROVE  LET d    == t.device
             read == OnReading(devices[d].rule, t.reading, clock)
         IN  /\ d \in DeviceIds
             /\ clock \in Nat
             /\ devices[d].rule \in Rule
             /\ read \in Rule
             /\ devices'[d].rule = Evaluated(read, clock)
             /\ devices'[d].lastSeq = t.seq
             /\ devices'[d] \in Device
             /\ \A e \in DeviceIds \ {d} : devices'[e] = devices[e]
             /\ devices' \in [DeviceIds -> Device]
<1> DEFINE d == t.device
           read == OnReading(devices[d].rule, t.reading, clock)
           rule == Evaluated(read, clock)
<1>1. d \in DeviceIds /\ t.seq \in {NoSeq} \cup Nat BY TelemetryFields
<1>2. clock \in Nat BY Bounds DEF TypesInv
<1>3. devices \in [DeviceIds -> Device] BY DEF TypesInv, Device
<1>4. devices[d] \in Device BY <1>1, <1>3
<1>5. devices[d].rule \in Rule BY <1>4 DEF Device
<1>6. read \in Rule BY <1>2, <1>5, OnReadingType
<1>7. rule \in Rule
  <2> HIDE DEF read
  <2>1. QED BY <1>2, <1>6, EvaluatedType
<1>8. devices' = [devices EXCEPT ![d] = [Remembered(@, t) EXCEPT !.rule = rule]]
  BY DEF Decide
<1> HIDE DEF d, rule
<1>9. Remembered(devices[d], t) = [devices[d] EXCEPT !.lastSeq = t.seq]
  BY DEF Remembered
<1>10. Remembered(devices[d], t) \in Device /\ Remembered(devices[d], t).lastSeq = t.seq
  BY <1>1, <1>4, <1>9 DEF Device
<1> DEFINE new == [Remembered(devices[d], t) EXCEPT !.rule = rule]
<1>11. new \in Device /\ new.rule = rule /\ new.lastSeq = t.seq
  BY <1>7, <1>10 DEF Device
<1>12. devices' = [devices EXCEPT ![d] = new] BY <1>8
<1> HIDE DEF new
<1>13. /\ devices'[d] = new
       /\ \A e \in DeviceIds \ {d} : devices'[e] = devices[e]
       /\ devices' \in [DeviceIds -> Device]
  BY <1>1, <1>3, <1>11, <1>12
<1>14. QED BY <1>1, <1>2, <1>5, <1>6, <1>11, <1>13 DEF d, rule

\* What the service was asked for last stays well typed.
LEMMA AskedType ==
  ASSUME TypesInv, NEW d \in DeviceIds, NEW on \in BOOLEAN, PublishFanDesired(d, on)
  PROVE  /\ asked' \in [DeviceIds -> [on : BOOLEAN, since : {Never} \cup Nat]]
         /\ asked'[d] = IF asked[d].on = on THEN asked[d] ELSE [on |-> on, since |-> clock]
         /\ \A e \in DeviceIds \ {d} : asked'[e] = asked[e]
<1> DEFINE Requests == [on : BOOLEAN, since : {Never} \cup Nat]
           new == IF asked[d].on = on THEN asked[d] ELSE [on |-> on, since |-> clock]
<1>1. asked \in [DeviceIds -> Requests] /\ clock \in Nat BY Bounds DEF TypesInv
<1>2. new \in Requests BY <1>1
<1>3. asked' = [asked EXCEPT ![d] = new] BY <1>1 DEF PublishFanDesired
<1> HIDE DEF new, Requests
<1>4. QED BY <1>1, <1>2, <1>3 DEF new, Requests

\* The service keeps its types.
LEMMA HandleType == TypesInv /\ HandleTelemetry => TypesInv'
<1> SUFFICES ASSUME TypesInv, HandleTelemetry PROVE TypesInv' OBVIOUS
<1> DEFINE t == Head(inbox)
<1>1. t \in Telemetry /\ inbox' \in Seq(Telemetry) BY InboxSplit DEF HandleTelemetry
<1>2. UNCHANGED <<clock, boot, seq, unacked, reached>> BY DEF HandleTelemetry, deviceVars
<1>3. CASE UNCHANGED serviceVars
  BY <1>1, <1>2, <1>3 DEF TypesInv, serviceVars, historyVars
<1>4. CASE Decide(t)
  <2> HIDE DEF t
  <2> DEFINE read == OnReading(devices[t.device].rule, t.reading, clock)
  <2>1. /\ t.device \in DeviceIds /\ clock \in Nat /\ read \in Rule
        /\ devices' \in [DeviceIds -> Device]
    BY <1>1, <1>4, DecideEffect
  <2>2. Evaluated(read, clock).relayOn \in BOOLEAN
    <3> HIDE DEF read
    <3>1. Evaluated(read, clock) \in Rule BY <2>1, EvaluatedType
    <3>2. QED BY <3>1, RuleFields
  <2>3. asked' \in [DeviceIds -> [on : BOOLEAN, since : {Never} \cup Nat]]
    <3>1. PublishFanDesired(t.device, Evaluated(read, clock).relayOn)
      BY <1>4 DEF Decide
    <3> HIDE DEF read
    <3>2. QED BY <2>1, <2>2, <3>1, AskedType
  <2>4. handled' \subseteq Telemetry BY <1>1, <1>4 DEF Decide, TypesInv
  <2>5. failing' \in [DeviceIds -> SUBSET Telemetry]
    BY <1>1, <1>4, <2>1 DEF Decide, TypesInv
  <2>6. QED BY <1>1, <1>2, <2>1, <2>3, <2>4, <2>5 DEF TypesInv, Device
<1>5. QED BY <1>3, <1>4 DEF HandleTelemetry

\* A new message has the next number of its device and goes to the end of what that
\* one would send again, and of the inbox unless the connection breaks.
LEMMA PublishEffect ==
  ASSUME TypesInv, NEW d \in DeviceIds, PublishTelemetry(d)
  PROVE  \E t \in Telemetry :
           /\ t.device = d /\ t.boot = boot[d] /\ t.seq = seq[d]
           /\ inbox' = inbox \/ inbox' = Append(inbox, t)
           /\ \/ /\ d \in Resending
                 /\ unacked' = [unacked EXCEPT ![d] = Append(unacked[d], t)]
                 /\ \/ reached' = reached
                    \/ /\ reached' = [reached EXCEPT ![d] = reached[d] + 1]
                       /\ reached[d] = Len(unacked[d])
              \/ d \notin Resending /\ UNCHANGED <<unacked, reached>>
           /\ seq' = [seq EXCEPT ![d] = seq[d] + 1]
           /\ UNCHANGED <<clock, boot, devices, desired, handled, failing, asked>>
<1>1. PICK reading \in Readings, arrives \in BOOLEAN :
        LET t == [device |-> d, boot |-> boot[d], seq |-> seq[d], reading |-> reading]
        IN  /\ arrives => reached[d] = Len(unacked[d])
            /\ inbox' = IF arrives THEN Append(inbox, t) ELSE inbox
            /\ IF d \in Resending
                 THEN /\ unacked' = [unacked EXCEPT ![d] = Append(@, t)]
                      /\ reached' = [reached EXCEPT ![d] = IF arrives THEN @ + 1 ELSE @]
                 ELSE UNCHANGED <<unacked, reached>>
  BY DEF PublishTelemetry
<1> DEFINE t == [device |-> d, boot |-> boot[d], seq |-> seq[d], reading |-> reading]
<1>2. t \in Telemetry
  <2>1. boot[d] \in Nat /\ seq[d] \in Nat BY DEF TypesInv
  <2>2. QED BY <2>1 DEF Telemetry
<1>3. t.device = d /\ t.boot = boot[d] /\ t.seq = seq[d] OBVIOUS
<1>4. /\ inbox' = inbox \/ inbox' = Append(inbox, t)
      /\ \/ /\ d \in Resending
            /\ unacked' = [unacked EXCEPT ![d] = Append(unacked[d], t)]
         \/ d \notin Resending /\ UNCHANGED <<unacked, reached>>
  BY <1>1
<1>5. d \in Resending =>
        \/ reached' = reached
        \/ /\ reached' = [reached EXCEPT ![d] = reached[d] + 1]
           /\ reached[d] = Len(unacked[d])
  <2>1. reached = [reached EXCEPT ![d] = reached[d]] BY DEF TypesInv
  <2>2. QED BY <1>1, <2>1
<1>6. /\ seq' = [seq EXCEPT ![d] = seq[d] + 1]
      /\ UNCHANGED <<clock, boot, devices, desired, handled, failing, asked>>
  BY DEF PublishTelemetry, serviceVars, historyVars
<1> HIDE DEF t
<1>7. QED BY <1>2, <1>3, <1>4, <1>5, <1>6

\* Sending telemetry keeps the types.
LEMMA PublishType ==
  ASSUME TypesInv, NEW d \in DeviceIds, PublishTelemetry(d)
  PROVE  TypesInv'
<1>1. PICK t \in Telemetry :
        /\ inbox' = inbox \/ inbox' = Append(inbox, t)
        /\ \/ unacked' = [unacked EXCEPT ![d] = Append(unacked[d], t)]
           \/ UNCHANGED unacked
        /\ \/ reached' = reached
           \/ reached' = [reached EXCEPT ![d] = reached[d] + 1]
  BY PublishEffect
<1>0. /\ inbox \in Seq(Telemetry) /\ reached \in [DeviceIds -> Nat]
      /\ unacked \in [DeviceIds -> Seq(Telemetry)]
  BY DEF TypesInv
<1>2. inbox' \in Seq(Telemetry)
  <2>1. Append(inbox, t) \in Seq(Telemetry) BY <1>0
  <2>2. QED BY <1>0, <1>1, <2>1
<1>3. unacked' \in [DeviceIds -> Seq(Telemetry)]
  <2>1. Append(unacked[d], t) \in Seq(Telemetry) BY <1>0
  <2>2. QED BY <1>0, <1>1, <2>1
<1>4. reached' \in [DeviceIds -> Nat] BY <1>0, <1>1
<1>5. seq' \in [DeviceIds -> Nat] BY DEF TypesInv, PublishTelemetry
<1>6. UNCHANGED <<clock, boot, devices, handled, failing, asked>>
  BY DEF PublishTelemetry, serviceVars, historyVars
<1>7. QED BY <1>2, <1>3, <1>4, <1>5, <1>6 DEF TypesInv

\* No step leaves the types.
LEMMA ServiceTypesNext ==
  ASSUME TypesInv, SendersInv, [ServiceNext]_allVars
  PROVE  TypesInv'
<1> USE DEF serviceVars, historyVars, deviceVars
<1>1. ASSUME NEW d \in DeviceIds, PublishTelemetry(d) PROVE TypesInv'
  BY <1>1, PublishType
<1>2. ASSUME NEW d \in DeviceIds, Resend(d) PROVE TypesInv'
  <2>1. unacked[d] \in Seq(Telemetry) BY DEF TypesInv
  <2>2. inbox' \in Seq(Telemetry) BY <1>2, <2>1 DEF Resend, TypesInv
  <2>3. Len(unacked[d]) \in Nat BY <2>1
  <2>4. reached' \in [DeviceIds -> Nat] BY <1>2, <2>3 DEF Resend, TypesInv
  <2>5. QED BY <1>2, <2>2, <2>4 DEF Resend, TypesInv
<1>3. ASSUME NEW d \in DeviceIds, Acknowledge(d) PROVE TypesInv'
  <2>1. unacked[d] \in Seq(Telemetry) /\ reached[d] \in Nat /\ reached[d] > 0
    BY <1>3 DEF TypesInv, Acknowledge
  <2>2. unacked[d] # <<>> BY <2>1 DEF SendersInv, Sender
  <2>3. Tail(unacked[d]) \in Seq(Telemetry) /\ reached[d] - 1 \in Nat BY <2>1, <2>2
  <2>4. unacked' \in [DeviceIds -> Seq(Telemetry)] /\ reached' \in [DeviceIds -> Nat]
    BY <1>3, <2>3 DEF Acknowledge, TypesInv
  <2>5. QED BY <1>3, <2>4 DEF Acknowledge, TypesInv
<1>4. ASSUME NEW d \in DeviceIds, ResetDevice(d) PROVE TypesInv'
  <2>1. boot' \in [DeviceIds -> Nat] /\ seq' \in [DeviceIds -> Nat]
    BY <1>4 DEF ResetDevice, TypesInv
  <2>2. unacked' \in [DeviceIds -> Seq(Telemetry)] /\ reached' \in [DeviceIds -> Nat]
    BY <1>4 DEF ResetDevice, TypesInv
  <2>3. QED BY <1>4, <2>1, <2>2 DEF ResetDevice, TypesInv
<1>5. CASE HandleTelemetry BY <1>5, HandleType
<1>6. CASE LoseConnection BY <1>6 DEF LoseConnection, TypesInv
<1>7. CASE RestartService
  <2>1. devices' \in [DeviceIds -> Device] BY <1>7, NewDeviceType DEF RestartService
  <2>2. asked' \in [DeviceIds -> [on : BOOLEAN, since : {Never} \cup Nat]]
    BY <1>7, NewDeviceType DEF RestartService
  <2>3. /\ failing' \in [DeviceIds -> SUBSET Telemetry]
        /\ handled' \subseteq Telemetry /\ inbox' \in Seq(Telemetry)
    BY <1>7 DEF RestartService
  <2>4. QED BY <1>7, <2>1, <2>2, <2>3 DEF RestartService, TypesInv, Device
<1>8. CASE TimePasses BY <1>8, Bounds DEF TimePasses, TypesInv
<1>9. CASE UNCHANGED allVars BY <1>9 DEF allVars, TypesInv
<1>10. QED BY <1>1, <1>2, <1>3, <1>4, <1>5, <1>6, <1>7, <1>8, <1>9 DEF ServiceNext

\* The service starts well typed.
LEMMA ServiceInitType == ServiceInit => TypesInv
<1> SUFFICES ASSUME ServiceInit PROVE TypesInv OBVIOUS
<1>1. devices \in [DeviceIds -> Device] /\ asked \in [DeviceIds -> [on : BOOLEAN, since : {Never} \cup Nat]]
  BY NewDeviceType DEF ServiceInit
<1>2. /\ clock \in Epoch .. Epoch + Horizon
      /\ boot \in [DeviceIds -> Nat] /\ seq \in [DeviceIds -> Nat]
  BY Bounds DEF ServiceInit
<1>3. /\ unacked \in [DeviceIds -> Seq(Telemetry)] /\ reached \in [DeviceIds -> Nat]
      /\ inbox \in Seq(Telemetry) /\ handled \subseteq Telemetry
      /\ failing \in [DeviceIds -> SUBSET Telemetry]
  BY DEF ServiceInit
<1>4. QED BY <1>1, <1>2, <1>3 DEF TypesInv, Device

-----------------------------------------------------------------------------
(* What a device may send again *)

\* What a device would send again stays the end of what it has sent.
LEMMA SendersNext ==
  ASSUME TypesInv, SendersInv, [ServiceNext]_allVars
  PROVE  SendersInv'
<1>0. /\ unacked \in [DeviceIds -> Seq(Telemetry)] /\ reached \in [DeviceIds -> Nat]
      /\ seq \in [DeviceIds -> Nat] /\ boot \in [DeviceIds -> Nat]
  BY Bounds DEF TypesInv
<1>1. ASSUME NEW d \in DeviceIds, NEW e \in DeviceIds, e # d,
             \/ PublishTelemetry(d) \/ Resend(d) \/ Acknowledge(d) \/ ResetDevice(d)
      PROVE  Sender(e)'
  <2>1. /\ unacked'[e] = unacked[e] /\ reached'[e] = reached[e]
        /\ boot'[e] = boot[e] /\ seq'[e] = seq[e]
    <3>1. CASE PublishTelemetry(d)
      <4>1. boot' = boot /\ seq' = [seq EXCEPT ![d] = seq[d] + 1]
        BY <3>1 DEF PublishTelemetry
      <4>2. /\ unacked'[e] = unacked[e]
            /\ reached'[e] = reached[e]
        BY <1>0, <1>1, <3>1 DEF PublishTelemetry
      <4>3. QED BY <1>0, <1>1, <4>1, <4>2
    <3>2. CASE Resend(d) BY <1>0, <1>1, <3>2 DEF Resend
    <3>3. CASE Acknowledge(d) BY <1>0, <1>1, <3>3 DEF Acknowledge
    <3>4. CASE ResetDevice(d) BY <1>0, <1>1, <3>4 DEF ResetDevice
    <3>5. QED BY <1>1, <3>1, <3>2, <3>3, <3>4
  <2>2. QED BY <2>1 DEF SendersInv, Sender
<1>2. ASSUME NEW d \in DeviceIds, PublishTelemetry(d) PROVE Sender(d)'
  <2>1. PICK t \in Telemetry :
          /\ t.device = d /\ t.boot = boot[d] /\ t.seq = seq[d]
          /\ \/ /\ d \in Resending
                /\ unacked' = [unacked EXCEPT ![d] = Append(unacked[d], t)]
                /\ \/ reached' = reached
                   \/ /\ reached' = [reached EXCEPT ![d] = reached[d] + 1]
                      /\ reached[d] = Len(unacked[d])
             \/ d \notin Resending /\ UNCHANGED <<unacked, reached>>
          /\ seq' = [seq EXCEPT ![d] = seq[d] + 1]
          /\ boot' = boot
    BY <1>2, PublishEffect
  <2>2. seq'[d] = seq[d] + 1 /\ seq[d] \in Nat /\ boot'[d] = boot[d] BY <1>0, <2>1
  <2>3. unacked[d] \in Seq(Telemetry) /\ Len(unacked[d]) < Window
    BY <1>0, <1>2 DEF PublishTelemetry
  <2>4. CASE d \notin Resending
    <3>1. unacked'[d] = <<>> /\ reached'[d] = reached[d] /\ unacked[d] = <<>>
      BY <2>1, <2>4 DEF SendersInv, Sender
    <3>2. QED BY <3>1 DEF SendersInv, Sender
  <2>5. CASE d \in Resending
    <3>1. unacked'[d] = Append(unacked[d], t) BY <1>0, <2>1, <2>5
    <3>2. /\ Len(unacked'[d]) = Len(unacked[d]) + 1 /\ Len(unacked[d]) \in Nat
          /\ \A i \in 1 .. Len(unacked[d]) : unacked'[d][i] = unacked[d][i]
          /\ unacked'[d][Len(unacked[d]) + 1] = t
      BY <2>3, <3>1
    <3>3. reached'[d] <= Len(unacked'[d])
      BY <1>0, <2>1, <2>5, <3>2 DEF SendersInv, Sender
    <3>4. Len(unacked'[d]) <= Window BY <2>3, <3>2, Bounds
    <3>5. ASSUME NEW i \in 1 .. Len(unacked'[d])
          PROVE  /\ unacked'[d][i].device = d
                 /\ unacked'[d][i].boot = boot'[d]
                 /\ unacked'[d][i].seq = seq'[d] - 1 - Len(unacked'[d]) + i
      <4>1. CASE i \in 1 .. Len(unacked[d])
        <5>1. /\ unacked[d][i].device = d /\ unacked[d][i].boot = boot[d]
              /\ unacked[d][i].seq = seq[d] - 1 - Len(unacked[d]) + i
          BY <4>1 DEF SendersInv, Sender
        <5>2. seq[d] - 1 - Len(unacked[d]) + i = seq'[d] - 1 - Len(unacked'[d]) + i
          BY <2>2, <3>2, <4>1
        <5>3. unacked'[d][i] = unacked[d][i] /\ boot'[d] = boot[d] BY <2>2, <3>2, <4>1
        <5>4. QED BY <5>1, <5>2, <5>3
      <4>2. CASE i = Len(unacked[d]) + 1
        <5>1. unacked'[d][i] = t /\ boot'[d] = boot[d] BY <2>2, <3>2, <4>2
        <5>2. seq[d] = seq'[d] - 1 - Len(unacked'[d]) + i BY <2>2, <3>2, <4>2
        <5>3. QED BY <2>1, <5>1, <5>2
      <4>3. QED BY <3>2, <4>1, <4>2
    <3>6. QED BY <2>5, <3>3, <3>4, <3>5 DEF Sender
  <2>6. QED BY <2>4, <2>5
<1>3. ASSUME NEW d \in DeviceIds, Resend(d) PROVE Sender(d)'
  <2>1. /\ unacked' = unacked /\ boot' = boot /\ seq' = seq
        /\ reached'[d] = Len(unacked[d]) /\ Len(unacked[d]) \in Nat
    BY <1>0, <1>3 DEF Resend
  <2>2. QED BY <2>1 DEF SendersInv, Sender
<1>4. ASSUME NEW d \in DeviceIds, Acknowledge(d) PROVE Sender(d)'
  <2>1. /\ unacked'[d] = Tail(unacked[d]) /\ reached'[d] = reached[d] - 1
        /\ reached[d] > 0 /\ boot' = boot /\ seq' = seq
    BY <1>0, <1>4 DEF Acknowledge
  <2>2. unacked[d] # <<>> /\ unacked[d] \in Seq(Telemetry) /\ Len(unacked[d]) \in Nat
    BY <1>0, <2>1 DEF SendersInv, Sender
  <2>3. /\ Len(unacked'[d]) = Len(unacked[d]) - 1
        /\ \A i \in 1 .. Len(unacked'[d]) :
             i + 1 \in 1 .. Len(unacked[d]) /\ unacked'[d][i] = unacked[d][i + 1]
    BY <2>1, <2>2
  <2>4. d \in Resending BY <2>2 DEF SendersInv, Sender
  <2>5. reached'[d] <= Len(unacked'[d]) /\ Len(unacked'[d]) <= Window
    BY <1>0, <2>1, <2>2, <2>3, Bounds DEF SendersInv, Sender
  <2>6. ASSUME NEW i \in 1 .. Len(unacked'[d])
        PROVE  /\ unacked'[d][i].device = d
               /\ unacked'[d][i].boot = boot'[d]
               /\ unacked'[d][i].seq = seq'[d] - 1 - Len(unacked'[d]) + i
    <3>1. /\ unacked[d][i + 1].device = d
          /\ unacked[d][i + 1].boot = boot[d]
          /\ unacked[d][i + 1].seq = seq[d] - 1 - Len(unacked[d]) + (i + 1)
      BY <2>3 DEF SendersInv, Sender
    <3>2. /\ unacked'[d][i] = unacked[d][i + 1] /\ i \in Int
          /\ boot'[d] = boot[d] /\ seq'[d] = seq[d] /\ seq[d] \in Int
      BY <1>0, <2>1, <2>3
    <3>3. seq[d] - 1 - Len(unacked[d]) + (i + 1) = seq'[d] - 1 - Len(unacked'[d]) + i
      <4>1. Len(unacked'[d]) = Len(unacked[d]) - 1 /\ Len(unacked[d]) \in Int
        BY <2>2, <2>3
      <4>2. \A a, b, c \in Int : a - 1 - b + (c + 1) = a - 1 - (b - 1) + c OBVIOUS
      <4>3. seq[d] - 1 - Len(unacked[d]) + (i + 1) =
              seq[d] - 1 - (Len(unacked[d]) - 1) + i
        BY <3>2, <4>1, <4>2
      <4>4. QED BY <3>2, <4>1, <4>3
    <3>4. QED BY <3>1, <3>2, <3>3
  <2>7. QED BY <2>4, <2>5, <2>6 DEF Sender
<1>5. ASSUME NEW d \in DeviceIds, ResetDevice(d) PROVE Sender(d)'
  <2>1. unacked'[d] = <<>> /\ reached'[d] = 0 BY <1>0, <1>5 DEF ResetDevice
  <2>2. QED BY <2>1, Bounds DEF Sender
<1>6. CASE UNCHANGED <<unacked, reached, boot, seq>> BY <1>6 DEF SendersInv, Sender
<1>7. CASE \E d \in DeviceIds :
             PublishTelemetry(d) \/ Resend(d) \/ Acknowledge(d) \/ ResetDevice(d)
  BY <1>1, <1>2, <1>3, <1>4, <1>5, <1>7 DEF SendersInv
<1>8. CASE HandleTelemetry \/ LoseConnection \/ RestartService \/ TimePasses
  BY <1>6, <1>8 DEF HandleTelemetry, LoseConnection, RestartService, TimePasses, deviceVars
<1>9. QED BY <1>6, <1>7, <1>8 DEF ServiceNext, allVars, deviceVars

-----------------------------------------------------------------------------
(* Numbers and their order *)

\* What a sequence holds after an element was appended.
LEMMA AppendedElements ==
  ASSUME NEW S, NEW s \in Seq(S), NEW x \in S
  PROVE  \A i \in 1 .. Len(Append(s, x)) :
           Append(s, x)[i] = x \/ (i \in 1 .. Len(s) /\ Append(s, x)[i] = s[i])
<1>1. /\ Len(Append(s, x)) = Len(s) + 1 /\ Len(s) \in Nat
      /\ \A i \in 1 .. Len(s) : Append(s, x)[i] = s[i]
      /\ Append(s, x)[Len(s) + 1] = x
  OBVIOUS
<1>2. ASSUME NEW i \in 1 .. Len(Append(s, x)) PROVE i \in 1 .. Len(s) \/ i = Len(s) + 1
  BY <1>1
<1>3. QED BY <1>1, <1>2

\* What is known is telemetry.
LEMMA KnownType == ASSUME TypesInv, NEW m \in Known PROVE m \in Telemetry
<1>1. /\ handled \subseteq Telemetry /\ inbox \in Seq(Telemetry)
      /\ unacked \in [DeviceIds -> Seq(Telemetry)]
  BY DEF TypesInv
<1>2. \A i \in 1 .. Len(inbox) : inbox[i] \in Telemetry BY <1>1
<1>3. \A d \in DeviceIds : \A i \in 1 .. Len(unacked[d]) : unacked[d][i] \in Telemetry
  BY <1>1
<1>4. QED BY <1>1, <1>2, <1>3 DEF Known

\* A step makes nothing known but the message a device publishes.
LEMMA KnownGrows ==
  ASSUME TypesInv, SendersInv, [ServiceNext]_allVars
  PROVE  \/ /\ Known' \subseteq Known
            /\ \/ UNCHANGED <<boot, seq>>
               \/ \E d \in DeviceIds : ResetDevice(d)
         \/ \E d \in DeviceIds, t \in Telemetry :
              /\ t.device = d /\ t.boot = boot[d] /\ t.seq = seq[d]
              /\ Known' \subseteq Known \cup {t}
              /\ boot' = boot /\ seq' = [seq EXCEPT ![d] = seq[d] + 1]
<1>0. /\ handled \subseteq Telemetry /\ inbox \in Seq(Telemetry) /\ Len(inbox) \in Nat
      /\ unacked \in [DeviceIds -> Seq(Telemetry)] /\ reached \in [DeviceIds -> Nat]
      /\ \A d \in DeviceIds : unacked[d] \in Seq(Telemetry) /\ Len(unacked[d]) \in Nat
  BY DEF TypesInv
<1> USE DEF Known
<1>1. ASSUME NEW d \in DeviceIds, PublishTelemetry(d)
      PROVE  \E t \in Telemetry :
               /\ t.device = d /\ t.boot = boot[d] /\ t.seq = seq[d]
               /\ Known' \subseteq Known \cup {t}
               /\ boot' = boot /\ seq' = [seq EXCEPT ![d] = seq[d] + 1]
  <2>1. PICK t \in Telemetry :
          /\ t.device = d /\ t.boot = boot[d] /\ t.seq = seq[d]
          /\ inbox' = inbox \/ inbox' = Append(inbox, t)
          /\ \/ unacked' = [unacked EXCEPT ![d] = Append(unacked[d], t)]
             \/ UNCHANGED unacked
          /\ seq' = [seq EXCEPT ![d] = seq[d] + 1]
          /\ boot' = boot /\ handled' = handled
    BY <1>1, PublishEffect
  <2>2. \A i \in 1 .. Len(inbox') :
          inbox'[i] = t \/ (i \in 1 .. Len(inbox) /\ inbox'[i] = inbox[i])
    <3>1. CASE inbox' = inbox BY <3>1
    <3>2. CASE inbox' = Append(inbox, t)
      <4>1. \A i \in 1 .. Len(Append(inbox, t)) :
              \/ Append(inbox, t)[i] = t
              \/ i \in 1 .. Len(inbox) /\ Append(inbox, t)[i] = inbox[i]
        BY <1>0, AppendedElements
      <4>2. QED BY <3>2, <4>1
    <3>3. QED BY <2>1, <3>1, <3>2
  <2>3. ASSUME NEW e \in DeviceIds, NEW i \in 1 .. Len(unacked'[e])
        PROVE  \/ unacked'[e][i] = t
               \/ i \in 1 .. Len(unacked[e]) /\ unacked'[e][i] = unacked[e][i]
    <3>1. unacked'[e] = unacked[e] \/ unacked'[e] = Append(unacked[e], t)
      BY <1>0, <2>1
    <3>2. QED BY <1>0, <3>1, AppendedElements
  <2>4. Known' \subseteq Known \cup {t} BY <2>1, <2>2, <2>3
  <2>5. QED BY <2>1, <2>4
<1>2. ASSUME NEW d \in DeviceIds, Resend(d)
      PROVE  Known' \subseteq Known /\ UNCHANGED <<boot, seq>>
  <2>1. /\ inbox' = inbox \o unacked[d] /\ unacked' = unacked /\ handled' = handled
        /\ UNCHANGED <<boot, seq>>
    BY <1>2 DEF Resend, serviceVars, historyVars
  <2>2. ASSUME NEW i \in 1 .. Len(inbox')
        PROVE  \/ i \in 1 .. Len(inbox) /\ inbox'[i] = inbox[i]
               \/ \E k \in 1 .. Len(unacked[d]) : inbox'[i] = unacked[d][k]
    <3>1. /\ Len(inbox') = Len(inbox) + Len(unacked[d])
          /\ i \in 1 .. Len(inbox) => inbox'[i] = inbox[i]
          /\ i \notin 1 .. Len(inbox) =>
               /\ i - Len(inbox) \in 1 .. Len(unacked[d])
               /\ inbox'[i] = unacked[d][i - Len(inbox)]
      BY <1>0, <2>1
    <3>2. QED BY <3>1
  <2>3. QED BY <2>1, <2>2
<1>3. ASSUME NEW d \in DeviceIds, Acknowledge(d)
      PROVE  Known' \subseteq Known /\ UNCHANGED <<boot, seq>>
  <2>1. /\ inbox' = inbox /\ handled' = handled /\ UNCHANGED <<boot, seq>>
        /\ unacked' = [unacked EXCEPT ![d] = Tail(unacked[d])] /\ reached[d] > 0
    BY <1>3 DEF Acknowledge, serviceVars, historyVars
  <2>2. unacked[d] # <<>> BY <1>0, <2>1 DEF SendersInv, Sender
  <2>3. ASSUME NEW e \in DeviceIds, NEW i \in 1 .. Len(unacked'[e])
        PROVE  \E k \in 1 .. Len(unacked[e]) : unacked'[e][i] = unacked[e][k]
    <3>1. CASE e = d
      <4>1. unacked'[e] = Tail(unacked[e]) BY <1>0, <2>1, <3>1
      <4>2. i + 1 \in 1 .. Len(unacked[e]) /\ unacked'[e][i] = unacked[e][i + 1]
        BY <1>0, <2>2, <3>1, <4>1
      <4>3. QED BY <4>2
    <3>2. CASE e # d BY <1>0, <2>1, <3>2
    <3>3. QED BY <3>1, <3>2
  <2>4. QED BY <2>1, <2>3
<1>4. ASSUME NEW d \in DeviceIds, ResetDevice(d) PROVE Known' \subseteq Known
  <2>1. /\ inbox' = inbox /\ handled' = handled
        /\ unacked' = [unacked EXCEPT ![d] = <<>>]
    BY <1>4 DEF ResetDevice, serviceVars, historyVars
  <2>2. \A e \in DeviceIds : unacked'[e] = <<>> \/ unacked'[e] = unacked[e]
    BY <1>0, <2>1
  <2>3. QED BY <2>1, <2>2
<1>5. CASE HandleTelemetry
  <2>1. unacked' = unacked /\ UNCHANGED <<boot, seq>> /\ inbox # <<>> /\ inbox' = Tail(inbox)
    BY <1>5 DEF HandleTelemetry, deviceVars
  <2>2. handled' \subseteq handled \cup {Head(inbox)}
    BY <1>5 DEF HandleTelemetry, Decide, serviceVars, historyVars
  <2>3. /\ Head(inbox) = inbox[1] /\ 1 \in 1 .. Len(inbox)
        /\ \A i \in 1 .. Len(inbox') :
             i + 1 \in 1 .. Len(inbox) /\ inbox'[i] = inbox[i + 1]
    BY <2>1, InboxSplit
  <2>4. QED BY <2>1, <2>2, <2>3
<1>6. CASE LoseConnection \/ RestartService
  <2>1. /\ unacked' = unacked /\ UNCHANGED <<boot, seq>> /\ inbox' = <<>>
        /\ handled' \subseteq handled
    BY <1>6 DEF LoseConnection, RestartService, deviceVars, serviceVars, historyVars
  <2>2. QED BY <2>1
<1>7. CASE TimePasses \/ UNCHANGED allVars
  <2>1. UNCHANGED <<unacked, boot, seq, inbox, handled>>
    BY <1>7 DEF TimePasses, allVars, deviceVars, serviceVars, historyVars
  <2>2. QED BY <2>1
<1>8. QED BY <1>1, <1>2, <1>3, <1>4, <1>5, <1>6, <1>7 DEF ServiceNext

\* Every number is given once, and what is known has been sent.
LEMMA KnownNext ==
  ASSUME TypesInv, SendersInv, KnownInv, [ServiceNext]_allVars
  PROVE  KnownInv'
<1>0. boot \in [DeviceIds -> Nat] /\ seq \in [DeviceIds -> Nat] BY Bounds DEF TypesInv
<1>1. \A m \in Known : m.device \in DeviceIds /\ m.boot \in Nat /\ m.seq \in Nat
  BY KnownType, TelemetryFields
<1>2. CASE Known' \subseteq Known /\ UNCHANGED <<boot, seq>> BY <1>2 DEF KnownInv
<1>3. ASSUME NEW d \in DeviceIds, ResetDevice(d), Known' \subseteq Known
      PROVE  KnownInv'
  <2>1. /\ boot' = [boot EXCEPT ![d] = boot[d] + 1] /\ seq' = [seq EXCEPT ![d] = 0]
    BY <1>3 DEF ResetDevice
  <2>2. ASSUME NEW m \in Known
        PROVE  \/ m.boot < boot'[m.device]
               \/ m.boot = boot'[m.device] /\ m.seq < seq'[m.device]
    <3>1. m.boot <= boot[m.device] BY <1>0, <1>1 DEF KnownInv
    <3>2. CASE m.device = d
      <4>1. boot'[m.device] = boot[m.device] + 1 BY <1>0, <2>1, <3>2
      <4>2. QED BY <1>0, <1>1, <3>1, <4>1
    <3>3. CASE m.device # d
      <4>1. boot'[m.device] = boot[m.device] /\ seq'[m.device] = seq[m.device]
        BY <1>0, <1>1, <2>1, <3>3
      <4>2. QED BY <4>1 DEF KnownInv
    <3>4. QED BY <3>2, <3>3
  <2>3. QED BY <1>3, <2>2 DEF KnownInv
<1>4. ASSUME NEW d \in DeviceIds, NEW t \in Telemetry,
             t.device = d, t.boot = boot[d], t.seq = seq[d],
             Known' \subseteq Known \cup {t},
             boot' = boot, seq' = [seq EXCEPT ![d] = seq[d] + 1]
      PROVE  KnownInv'
  <2>1. ASSUME NEW m \in Known
        PROVE  \/ m.boot < boot'[m.device]
               \/ m.boot = boot'[m.device] /\ m.seq < seq'[m.device]
    <3>1. seq'[m.device] >= seq[m.device] /\ seq'[m.device] \in Nat
      BY <1>0, <1>1, <1>4
    <3>2. seq[m.device] \in Nat BY <1>0, <1>1
    <3>3. QED BY <1>1, <1>4, <3>1, <3>2 DEF KnownInv
  <2>2. t.boot = boot'[t.device] /\ t.seq < seq'[t.device] BY <1>0, <1>4
  <2>3. \A m \in Known : ~SameNumber(m, t) /\ ~SameNumber(t, m)
    BY <1>0, <1>1, <1>4 DEF KnownInv, SameNumber
  <2>4. QED BY <1>4, <2>1, <2>2, <2>3 DEF KnownInv
<1>5. QED BY <1>2, <1>3, <1>4, KnownGrows

\* Whatever is known of a device does not come after what it would send again.
LEMMA UnackedIsLast ==
  ASSUME TypesInv, SendersInv, KnownInv,
         NEW m \in Known, NEW d \in DeviceIds, NEW k \in 1 .. Len(unacked[d])
  PROVE  NotAfter(m, unacked[d][k])
<1> DEFINE u == unacked[d][k]
<1>1. /\ u.device = d /\ u.boot = boot[d]
      /\ u.seq = seq[d] - 1 - Len(unacked[d]) + k
      /\ Len(unacked[d]) <= Window
  BY DEF SendersInv, Sender
<1>2. /\ Len(unacked[d]) \in Nat /\ seq[d] \in Nat /\ boot[d] \in Nat /\ Window \in Nat
      /\ m.boot \in Nat /\ m.seq \in Nat
  BY Bounds, KnownType, TelemetryFields DEF TypesInv
<1> HIDE DEF u
<1>3. SUFFICES ASSUME m.device = d
               PROVE  m.boot < u.boot \/ (m.boot = u.boot /\ m.seq - u.seq < Window)
  BY <1>1 DEF NotAfter, u
<1>4. m.boot < boot[d] \/ (m.boot = boot[d] /\ m.seq < seq[d]) BY <1>3 DEF KnownInv
<1>5. u.seq >= seq[d] - Window /\ u.seq \in Int
  <2>1. k \in Nat /\ 1 <= k BY <1>2
  <2>2. QED BY <1>1, <1>2, <2>1
<1>6. QED BY <1>1, <1>2, <1>4, <1>5

\* A new message comes after everything known of its device.
LEMMA NewIsLast ==
  ASSUME TypesInv, KnownInv, NEW m \in Known, NEW t \in Telemetry,
         t.boot = boot[t.device], t.seq = seq[t.device]
  PROVE  NotAfter(m, t)
<1>1. m.boot \in Nat /\ m.seq \in Nat /\ t.boot \in Nat /\ t.seq \in Nat
  BY KnownType, TelemetryFields
<1>2. m.seq < t.seq => m.seq - t.seq < Window BY <1>1, Bounds
<1>3. QED BY <1>2 DEF NotAfter, KnownInv

\* The inbox stays in order and after what has been handled.
LEMMA OrderNext ==
  ASSUME TypesInv, SendersInv, KnownInv, OrderInv, [ServiceNext]_allVars
  PROVE  OrderInv'
<1>0. /\ inbox \in Seq(Telemetry) /\ Len(inbox) \in Nat
      /\ \A d \in DeviceIds : unacked[d] \in Seq(Telemetry) /\ Len(unacked[d]) \in Nat
  BY DEF TypesInv
<1>1. /\ \A h \in handled : h \in Known
      /\ \A i \in 1 .. Len(inbox) : inbox[i] \in Known
      /\ \A d \in DeviceIds : \A k \in 1 .. Len(unacked[d]) : unacked[d][k] \in Known
  BY DEF Known
<1>2. ASSUME NEW d \in DeviceIds, PublishTelemetry(d) PROVE OrderInv'
  <2>1. PICK t \in Telemetry :
          /\ t.device = d /\ t.boot = boot[d] /\ t.seq = seq[d]
          /\ inbox' = inbox \/ inbox' = Append(inbox, t)
          /\ handled' = handled
    BY <1>2, PublishEffect
  <2>2. CASE inbox' = inbox BY <2>1, <2>2 DEF OrderInv
  <2>3. CASE inbox' = Append(inbox, t)
    <3>1. /\ Len(inbox') = Len(inbox) + 1
          /\ \A i \in 1 .. Len(inbox) : inbox'[i] = inbox[i]
          /\ inbox'[Len(inbox) + 1] = t
      BY <1>0, <2>3
    <3>2. \A m \in Known : NotAfter(m, t) BY <2>1, NewIsLast
    <3>3. ASSUME NEW i \in 1 .. Len(inbox'), NEW h \in handled'
          PROVE  NotAfter(h, inbox'[i])
      BY <1>0, <1>1, <2>1, <3>1, <3>2 DEF OrderInv
    <3>4. ASSUME NEW i \in 1 .. Len(inbox'), NEW j \in 1 .. Len(inbox'), i < j
          PROVE  NotAfter(inbox'[i], inbox'[j])
      <4>1. i \in 1 .. Len(inbox) /\ (j \in 1 .. Len(inbox) \/ j = Len(inbox) + 1)
        BY <1>0, <3>1, <3>4
      <4>2. QED BY <1>1, <3>1, <3>2, <3>4, <4>1 DEF OrderInv
    <3>5. QED BY <3>3, <3>4 DEF OrderInv, NotAfter
  <2>4. QED BY <2>1, <2>2, <2>3
<1>3. ASSUME NEW d \in DeviceIds, Resend(d) PROVE OrderInv'
  <2>1. inbox' = inbox \o unacked[d] /\ handled' = handled
    BY <1>3 DEF Resend, serviceVars, historyVars
  <2>2. /\ Len(inbox') = Len(inbox) + Len(unacked[d])
        /\ \A i \in 1 .. Len(inbox) : inbox'[i] = inbox[i]
        /\ \A i \in 1 .. Len(inbox') : i \notin 1 .. Len(inbox) =>
             /\ i - Len(inbox) \in 1 .. Len(unacked[d])
             /\ inbox'[i] = unacked[d][i - Len(inbox)]
    BY <1>0, <2>1
  <2>3. ASSUME NEW m \in Known, NEW i \in 1 .. Len(inbox'), i \notin 1 .. Len(inbox)
        PROVE  NotAfter(m, inbox'[i])
    BY <2>2, <2>3, UnackedIsLast
  <2>4. \A i \in 1 .. Len(inbox') : inbox'[i] \in Known
    BY <1>1, <2>2
  <2>5. ASSUME NEW i \in 1 .. Len(inbox'), NEW h \in handled'
        PROVE  NotAfter(h, inbox'[i])
    BY <1>1, <2>1, <2>2, <2>3 DEF OrderInv
  <2>6. ASSUME NEW i \in 1 .. Len(inbox'), NEW j \in 1 .. Len(inbox'), i < j
        PROVE  NotAfter(inbox'[i], inbox'[j])
    <3>1. CASE j \in 1 .. Len(inbox)
      <4>1. i \in 1 .. Len(inbox) BY <1>0, <2>6, <3>1
      <4>2. QED BY <2>2, <2>6, <3>1, <4>1 DEF OrderInv
    <3>2. CASE j \notin 1 .. Len(inbox) BY <2>3, <2>4, <3>2
    <3>3. QED BY <3>1, <3>2
  <2>7. QED BY <2>5, <2>6 DEF OrderInv, NotAfter
<1>4. CASE HandleTelemetry
  <2>1. inbox # <<>> /\ inbox' = Tail(inbox) BY <1>4 DEF HandleTelemetry
  <2>2. handled' \subseteq handled \cup {Head(inbox)}
    BY <1>4 DEF HandleTelemetry, Decide, serviceVars, historyVars
  <2>3. /\ Head(inbox) = inbox[1] /\ 1 \in 1 .. Len(inbox)
        /\ \A i \in 1 .. Len(inbox') :
             /\ i + 1 \in 1 .. Len(inbox) /\ inbox'[i] = inbox[i + 1]
             /\ 1 < i + 1
    BY <2>1, InboxSplit
  <2>4. ASSUME NEW i \in 1 .. Len(inbox'), NEW h \in handled'
        PROVE  NotAfter(h, inbox'[i])
    BY <2>2, <2>3 DEF OrderInv
  <2>5. ASSUME NEW i \in 1 .. Len(inbox'), NEW j \in 1 .. Len(inbox'), i < j
        PROVE  NotAfter(inbox'[i], inbox'[j])
    <3>1. i + 1 < j + 1 BY <2>5
    <3>2. QED BY <2>3, <3>1 DEF OrderInv
  <2>6. QED BY <2>4, <2>5 DEF OrderInv, NotAfter
<1>5. CASE LoseConnection \/ RestartService
  <2>1. inbox' = <<>> BY <1>5 DEF LoseConnection, RestartService
  <2>2. QED BY <2>1 DEF OrderInv
<1>6. CASE UNCHANGED <<inbox, handled>> BY <1>6 DEF OrderInv
<1>7. ASSUME NEW d \in DeviceIds, Acknowledge(d) \/ ResetDevice(d) PROVE OrderInv'
  BY <1>6, <1>7 DEF Acknowledge, ResetDevice, serviceVars, historyVars
<1>8. CASE TimePasses \/ UNCHANGED allVars
  BY <1>6, <1>8 DEF TimePasses, allVars, serviceVars, historyVars
<1>9. QED BY <1>2, <1>3, <1>4, <1>5, <1>7, <1>8 DEF ServiceNext

\* Nothing but the handling of telemetry and a restart touches what the service holds.
LEMMA OthersLeaveService ==
  ASSUME [ServiceNext]_allVars, ~HandleTelemetry, ~RestartService
  PROVE  /\ UNCHANGED <<devices, desired, handled, failing, asked>>
         /\ clock' = clock \/ clock' = clock + 1
<1> USE DEF serviceVars, historyVars
<1>1. ASSUME NEW d \in DeviceIds,
             PublishTelemetry(d) \/ Resend(d) \/ Acknowledge(d) \/ ResetDevice(d)
      PROVE  UNCHANGED <<devices, desired, handled, failing, asked, clock>>
  BY <1>1 DEF PublishTelemetry, Resend, Acknowledge, ResetDevice
<1>2. CASE LoseConnection BY <1>2 DEF LoseConnection
<1>3. CASE TimePasses BY <1>3 DEF TimePasses
<1>4. CASE UNCHANGED allVars BY <1>4 DEF allVars
<1>5. QED BY <1>1, <1>2, <1>3, <1>4 DEF ServiceNext

\* The number kept stays that of the last message handled.
LEMMA LastNext ==
  ASSUME TypesInv, OrderInv, LastInv, [ServiceNext]_allVars
  PROVE  LastInv'
<1>1. CASE HandleTelemetry
  <2> DEFINE t == Head(inbox)
  <2>1. /\ t \in Telemetry /\ t = inbox[1] /\ 1 \in 1 .. Len(inbox)
    BY <1>1, InboxSplit DEF HandleTelemetry
  <2>2. \A h \in handled : NotAfter(h, t) BY <2>1 DEF OrderInv
  <2> HIDE DEF t
  <2>3. CASE UNCHANGED serviceVars
    BY <2>3 DEF LastInv, NotAfter, serviceVars, historyVars
  <2>4. CASE Decide(t)
    <3>8. /\ failing'[t.device] # {} => t \in failing'[t.device]
          /\ \A e \in DeviceIds \ {t.device} : failing'[e] = failing[e]
      BY <2>1, <2>4, TelemetryFields DEF Decide, TypesInv
    <3>1. /\ t.device \in DeviceIds /\ devices'[t.device].lastSeq = t.seq
          /\ \A e \in DeviceIds \ {t.device} : devices'[e] = devices[e]
      BY <2>1, <2>4, DecideEffect
    <3>2. handled' = handled \cup {t} BY <2>4 DEF Decide
    <3>3. NotAfter(t, t) /\ t.seq # NoSeq
      BY <2>1, TelemetryFields, Bounds DEF NotAfter, NoSeq
    <3>4. \A h \in handled' : NotAfter(h, t) BY <2>2, <3>2, <3>3
    <3>5. ASSUME NEW d \in DeviceIds, d # t.device
          PROVE  IF devices'[d].lastSeq = NoSeq THEN \A h \in handled' : h.device # d
                 ELSE \E last \in handled' :
                        /\ last.device = d
                        /\ last.seq = devices'[d].lastSeq
                        /\ \A h \in handled' : NotAfter(h, last)
                        /\ failing'[d] # {} => last \in failing'[d]
      <4>1. devices'[d] = devices[d] /\ failing'[d] = failing[d] BY <3>1, <3>5, <3>8
      <4>2. \A last \in handled : last.device = d => NotAfter(t, last)
        BY <3>5 DEF NotAfter
      <4>3. QED BY <3>2, <3>5, <4>1, <4>2 DEF LastInv
    <3>6. t \in handled' BY <3>2
    <3>7. QED BY <3>1, <3>3, <3>4, <3>5, <3>6, <3>8 DEF LastInv, NotAfter
  <2>5. QED BY <1>1, <2>3, <2>4 DEF HandleTelemetry, t
<1>2. CASE RestartService
  <2>1. handled' = {} /\ \A d \in DeviceIds : devices'[d].lastSeq = NoSeq
    BY <1>2 DEF RestartService, NewDevice
  <2>2. QED BY <2>1 DEF LastInv
<1>3. CASE ~HandleTelemetry /\ ~RestartService
  <2>1. UNCHANGED <<devices, handled, failing>> BY <1>3, OthersLeaveService
  <2>2. QED BY <2>1 DEF LastInv, NotAfter
<1>4. QED BY <1>1, <1>2, <1>3

\* What was handled before and is no duplicate is a neighbour of the message handled
\* last.
LEMMA RepeatedBeside ==
  ASSUME TypesInv, LastInv, NEW t \in handled,
         \A h \in handled : NotAfter(h, t), ~IsDuplicate(devices[t.device], t.seq)
  PROVE  \E last \in handled :
           /\ Neighbours(last, t)
           /\ failing[t.device] # {} => last \in failing[t.device]
<1>0. t \in Telemetry BY DEF TypesInv
<1>1. t.device \in DeviceIds BY <1>0, TelemetryFields
<1>2. devices[t.device].lastSeq # NoSeq BY <1>1 DEF LastInv
<1>3. PICK last \in handled :
        /\ last.device = t.device
        /\ last.seq = devices[t.device].lastSeq
        /\ \A h \in handled : NotAfter(h, last)
        /\ failing[t.device] # {} => last \in failing[t.device]
  BY <1>1, <1>2 DEF LastInv
<1>4. last \in Telemetry BY DEF TypesInv
<1>5. NotAfter(t, last) /\ NotAfter(last, t) BY <1>3
<1>6. last.boot \in Nat /\ t.boot \in Nat /\ last.seq \in Nat /\ t.seq \in Nat
  BY <1>0, <1>4, TelemetryFields
<1>7. last.seq # t.seq BY <1>2, <1>3 DEF IsDuplicate
<1>8. Neighbours(last, t) BY <1>3, <1>5, <1>6, <1>7 DEF NotAfter, Neighbours
<1>9. QED BY <1>3, <1>8

\* A decision counts one failure at most, and that of a message already counted only
\* beside a neighbour of it.
LEMMA FailuresNext ==
  ASSUME TypesInv, OrderInv, LastInv, FailuresInv, [ServiceNext]_allVars
  PROVE  FailuresInv'
<1>1. CASE HandleTelemetry
  <2> DEFINE t == Head(inbox)
  <2>1. /\ t \in Telemetry /\ t = inbox[1] /\ 1 \in 1 .. Len(inbox)
    BY <1>1, InboxSplit DEF HandleTelemetry
  <2>2. \A h \in handled : NotAfter(h, t) BY <2>1 DEF OrderInv
  <2>3. t.device \in DeviceIds BY <2>1, TelemetryFields
  <2> HIDE DEF t
  <2>4. CASE UNCHANGED serviceVars
    BY <2>4 DEF FailuresInv, Neighbours, serviceVars, historyVars
  <2>5. CASE Decide(t) /\ ~IsDuplicate(devices[t.device], t.seq)
    <3> DEFINE d == t.device
               read == OnReading(devices[d].rule, t.reading, clock)
    <3>1. /\ d \in DeviceIds /\ clock \in Nat
          /\ devices[d].rule \in Rule /\ read \in Rule
          /\ devices'[d].rule = Evaluated(read, clock)
          /\ \A e \in DeviceIds \ {d} : devices'[e] = devices[e]
      BY <2>1, <2>5, DecideEffect
    <3>2. /\ handled' = handled \cup {t}
          /\ failing' = [failing EXCEPT ![d] = IF InRange(t.reading) THEN {}
                                               ELSE @ \cup {t}]
      BY <2>5 DEF Decide
    <3>3. failing \in [DeviceIds -> SUBSET Telemetry] BY DEF TypesInv
    <3>4. failing'[d] = IF InRange(t.reading) THEN {} ELSE failing[d] \cup {t}
      BY <3>1, <3>2, <3>3
    <3>5. \A e \in DeviceIds \ {d} : failing'[e] = failing[e]
      BY <3>1, <3>2, <3>3
    <3>6. /\ read.failures = IF InRange(t.reading) THEN 0
                             ELSE IF devices[d].rule.failures < FailureLimit
                                    THEN devices[d].rule.failures + 1
                                    ELSE devices[d].rule.failures
      BY <3>1, OnReadingType
    <3> HIDE DEF read
    <3>7. devices'[d].rule.failures = read.failures
      BY <3>1, EvaluatedType
    <3>9. /\ failing[d] \subseteq handled /\ IsFiniteSet(failing[d])
          /\ \/ devices[d].rule.failures <= Cardinality(failing[d])
             \/ \E a, b \in failing[d] : Neighbours(a, b)
      BY <3>1 DEF FailuresInv
    <3>8. t \in failing[d] => \E last \in failing[d] : Neighbours(last, t)
      BY <2>2, <2>5, <3>9, RepeatedBeside DEF d
    <3>10. CASE InRange(t.reading)
      <4>1. failing'[d] = {} /\ devices'[d].rule.failures = 0 BY <3>4, <3>6, <3>7, <3>10
      <4>2. IsFiniteSet({}) /\ Cardinality({}) = 0 BY FS_EmptySet
      <4>3. /\ failing'[d] \subseteq handled' /\ IsFiniteSet(failing'[d])
            /\ devices'[d].rule.failures <= Cardinality(failing'[d])
        BY <4>1, <4>2
      <4>4. QED BY <3>2, <3>5, <3>1, <4>3 DEF FailuresInv, Neighbours
    <3>11. CASE ~InRange(t.reading)
      <4>1. failing'[d] = failing[d] \cup {t} BY <3>4, <3>11
      <4>2. IsFiniteSet(failing'[d]) BY <3>9, <4>1, FS_AddElement
      <4>3. ASSUME t \notin failing[d], devices[d].rule.failures <= Cardinality(failing[d])
            PROVE  devices'[d].rule.failures <= Cardinality(failing'[d])
        <5>1. Cardinality(failing'[d]) = Cardinality(failing[d]) + 1
          BY <3>9, <4>1, <4>3, FS_AddElement
        <5>2. Cardinality(failing[d]) \in Nat BY <3>9, FS_CardinalityType
        <5>3. devices[d].rule.failures \in Nat BY <3>1, RuleFields
        <5>4. devices'[d].rule.failures <= devices[d].rule.failures + 1
          BY <3>6, <3>7, <3>11, <5>3
        <5>5. devices'[d].rule.failures \in Int BY <3>6, <3>7, <3>11, <5>3
        <5>6. QED BY <4>3, <5>1, <5>2, <5>3, <5>4, <5>5
      <4>4. \/ devices'[d].rule.failures <= Cardinality(failing'[d])
            \/ \E a, b \in failing'[d] : Neighbours(a, b)
        BY <3>8, <3>9, <4>1, <4>3
      <4>5. failing'[d] \subseteq handled' BY <3>2, <3>9, <4>1
      <4>6. ASSUME NEW e \in DeviceIds \ {d}
            PROVE  /\ failing'[e] \subseteq handled' /\ IsFiniteSet(failing'[e])
                   /\ \/ devices'[e].rule.failures <= Cardinality(failing'[e])
                      \/ \E a, b \in failing'[e] : Neighbours(a, b)
        <5>1. failing'[e] = failing[e] /\ devices'[e] = devices[e] BY <3>1, <3>5
        <5>2. handled \subseteq handled' BY <3>2
        <5>3. QED BY <5>1, <5>2 DEF FailuresInv
      <4>7. \A e \in DeviceIds :
              /\ failing'[e] \subseteq handled' /\ IsFiniteSet(failing'[e])
              /\ \/ devices'[e].rule.failures <= Cardinality(failing'[e])
                 \/ \E a, b \in failing'[e] : Neighbours(a, b)
        BY <4>2, <4>4, <4>5, <4>6
      <4>8. QED BY <4>7 DEF FailuresInv, Neighbours
    <3>12. QED BY <3>10, <3>11
  <2>6. QED BY <1>1, <2>4, <2>5 DEF HandleTelemetry, t
<1>2. CASE RestartService
  <2>1. /\ failing' = [d \in DeviceIds |-> {}]
        /\ devices' = [d \in DeviceIds |-> NewDevice]
    BY <1>2 DEF RestartService
  <2>2. IsFiniteSet({}) /\ Cardinality({}) = 0 BY FS_EmptySet
  <2>3. NewDevice.rule.failures = 0 BY DEF NewDevice, NewRule
  <2>4. QED BY <2>1, <2>2, <2>3 DEF FailuresInv
<1>3. CASE ~HandleTelemetry /\ ~RestartService
  <2>1. UNCHANGED <<devices, handled, failing>> BY <1>3, OthersLeaveService
  <2>2. QED BY <2>1 DEF FailuresInv, Neighbours
<1>4. QED BY <1>1, <1>2, <1>3

\* What was asked last stays what the rule decided last.
LEMMA RequestNext ==
  ASSUME TypesInv, RequestInv, [ServiceNext]_allVars
  PROVE  RequestInv'
<1>0. clock \in Nat BY Bounds DEF TypesInv
<1>1. CASE HandleTelemetry
  <2> DEFINE t == Head(inbox)
  <2>1. t \in Telemetry BY <1>1, InboxSplit DEF HandleTelemetry
  <2>2. clock' = clock BY <1>1 DEF HandleTelemetry
  <2> HIDE DEF t
  <2>3. CASE UNCHANGED serviceVars
    BY <2>2, <2>3 DEF RequestInv, serviceVars, historyVars
  <2>4. CASE Decide(t)
    <3> DEFINE d == t.device
               read == OnReading(devices[d].rule, t.reading, clock)
               on == RuleOutcome(read, clock).on
               rule == Evaluated(read, clock)
               old == devices[d].rule
    <3>1. /\ d \in DeviceIds /\ old \in Rule /\ read \in Rule
          /\ devices'[d].rule = rule
          /\ \A e \in DeviceIds \ {d} : devices'[e] = devices[e]
      BY <2>1, <2>4, DecideEffect
    <3>2. /\ read.relayOn = old.relayOn
          /\ read.lastChangeTime = old.lastChangeTime
          /\ read.relayOnSince = old.relayOnSince
      BY <1>0, <3>1, OnReadingType
    <3> HIDE DEF read
    <3>3. /\ rule.relayOn = on
          /\ on = read.relayOn => /\ rule.lastChangeTime = read.lastChangeTime
                                  /\ rule.relayOnSince = read.relayOnSince
          /\ on # read.relayOn => /\ rule.lastChangeTime = clock
                                  /\ on => rule.relayOnSince = clock
          /\ on \in BOOLEAN
      BY <1>0, <3>1, EvaluatedType, RuleOutcomeType
    <3>4. PublishFanDesired(d, on)
      BY <2>4, <3>3 DEF Decide, read
    <3> HIDE DEF on, rule, old
    <3>5. /\ asked'[d] = IF asked[d].on = on THEN asked[d] ELSE [on |-> on, since |-> clock]
          /\ \A e \in DeviceIds \ {d} : asked'[e] = asked[e]
      BY <3>1, <3>3, <3>4, AskedType DEF d
    <3>6. /\ asked[d].on = old.relayOn
          /\ asked[d].since # Never => asked[d].since = old.lastChangeTime
          /\ old.relayOn => asked[d].since # Never /\ old.relayOnSince = old.lastChangeTime
          /\ asked[d].since <= clock
      BY <3>1 DEF RequestInv, old
    <3>7. clock # Never BY <1>0 DEF Never
    <3>8. /\ asked'[d].on = rule.relayOn
          /\ asked'[d].since # Never => asked'[d].since = rule.lastChangeTime
          /\ rule.relayOn => asked'[d].since # Never /\ rule.relayOnSince = rule.lastChangeTime
          /\ asked'[d].since <= clock
      <4>1. CASE on = old.relayOn
        BY <3>2, <3>3, <3>5, <3>6, <4>1
      <4>2. CASE on # old.relayOn
        <5>1. asked'[d] = [on |-> on, since |-> clock] BY <3>5, <3>6, <4>2
        <5>2. asked'[d].on = on /\ asked'[d].since = clock BY <5>1
        <5>3. QED BY <1>0, <3>2, <3>3, <3>7, <4>2, <5>2
      <4>3. QED BY <4>1, <4>2
    <3>9. QED BY <2>2, <3>1, <3>5, <3>8 DEF RequestInv
  <2>5. QED BY <1>1, <2>3, <2>4 DEF HandleTelemetry, t
<1>2. CASE RestartService
  <2>1. /\ asked' = [d \in DeviceIds |-> NoRequest]
        /\ devices' = [d \in DeviceIds |-> NewDevice] /\ clock' = clock
    BY <1>2 DEF RestartService
  <2>2. /\ NewDevice.rule.relayOn = FALSE /\ NoRequest.on = FALSE
        /\ NoRequest.since = Never
    BY DEF NewDevice, NewRule, NoRequest
  <2>3. Never <= clock BY <1>0 DEF Never
  <2>4. QED BY <2>1, <2>2, <2>3 DEF RequestInv
<1>3. CASE ~HandleTelemetry /\ ~RestartService
  <2>1. UNCHANGED <<devices, asked>> /\ (clock' = clock \/ clock' = clock + 1)
    BY <1>3, OthersLeaveService
  <2>2. \A d \in DeviceIds : asked[d].since \in Int
    BY DEF TypesInv, Never
  <2>3. \A d \in DeviceIds : asked[d].since <= clock => asked[d].since <= clock'
    BY <1>0, <2>1, <2>2
  <2>4. QED BY <2>1, <2>3 DEF RequestInv
<1>4. QED BY <1>1, <1>2, <1>3

-----------------------------------------------------------------------------
(* The invariant *)

ServiceInv == TypesInv /\ SendersInv /\ KnownInv /\ OrderInv /\ LastInv /\ RequestInv

\* It holds at the start,
LEMMA ServiceInvInit == ServiceInit => ServiceInv /\ FailuresInv
<1> SUFFICES ASSUME ServiceInit PROVE ServiceInv /\ FailuresInv OBVIOUS
<1>1. TypesInv BY ServiceInitType
<1>2. SendersInv
  <2>1. \A d \in DeviceIds : unacked[d] = <<>> /\ reached[d] = 0 BY DEF ServiceInit
  <2>2. Window \in Nat BY Bounds
  <2>3. QED BY <2>1, <2>2 DEF SendersInv, Sender
<1>3. handled = {} /\ inbox = <<>> BY DEF ServiceInit
<1>4. Known = {}
  <2>1. \A d \in DeviceIds : unacked[d] = <<>> BY DEF ServiceInit
  <2>2. QED BY <1>3, <2>1 DEF Known
<1>5. KnownInv BY <1>4 DEF KnownInv
<1>6. OrderInv BY <1>3 DEF OrderInv
<1>7. \A d \in DeviceIds : devices[d] = NewDevice /\ asked[d] = NoRequest /\ failing[d] = {}
  BY DEF ServiceInit
<1>8. LastInv BY <1>3, <1>7 DEF LastInv, NewDevice
<1>9. RequestInv
  <2>1. clock \in Nat BY <1>1, Bounds DEF TypesInv
  <2>2. Never <= clock BY <2>1 DEF Never
  <2>3. /\ NewDevice.rule.relayOn = FALSE /\ NoRequest.on = FALSE
        /\ NoRequest.since = Never
    BY DEF NewDevice, NewRule, NoRequest
  <2>4. QED BY <1>7, <2>2, <2>3 DEF RequestInv
<1>10. FailuresInv
  <2>1. IsFiniteSet({}) /\ Cardinality({}) = 0 BY FS_EmptySet
  <2>2. NewDevice.rule.failures = 0 BY DEF NewDevice, NewRule
  <2>3. ASSUME NEW d \in DeviceIds
        PROVE  /\ failing[d] \subseteq handled /\ IsFiniteSet(failing[d])
               /\ devices[d].rule.failures <= Cardinality(failing[d])
    <3>1. failing[d] = {} /\ devices[d].rule.failures = 0 BY <1>7, <2>2
    <3>2. Cardinality(failing[d]) = 0 /\ IsFiniteSet(failing[d]) BY <2>1, <3>1
    <3>3. QED BY <3>1, <3>2
  <2>4. QED BY <2>3 DEF FailuresInv
<1>11. QED BY <1>1, <1>2, <1>5, <1>6, <1>8, <1>9, <1>10 DEF ServiceInv

\* every step keeps it,
LEMMA ServiceInvNext == ServiceInv /\ [ServiceNext]_allVars => ServiceInv'
  BY ServiceTypesNext, SendersNext, KnownNext, OrderNext, LastNext, RequestNext
  DEF ServiceInv

\* and so it holds of every run of the service.
LEMMA ServiceInvHolds == ServiceSpec => []ServiceInv
<1>1. QED BY ServiceInvInit, ServiceInvNext, PTL DEF ServiceSpec

-----------------------------------------------------------------------------
(* What holds of every run *)

\* The types of the service, and what a device may send again: its own messages of
\* this life, numbered without a gap (mqtt_handler.py, _handle_telemetry; state.py,
\* get_or_create).
THEOREM ServiceTypesHold == ServiceSpec => []ServiceTypeOK
<1>1. ServiceInv => ServiceTypeOK
  <2> SUFFICES ASSUME ServiceInv PROVE ServiceTypeOK OBVIOUS
  <2>1. TypesInv /\ SendersInv BY DEF ServiceInv
  <2>2. ASSUME NEW d \in DeviceIds
        PROVE  /\ seq[d] \in Nat
               /\ devices[d].lastSeq \in {NoSeq} \cup Nat
               /\ reached[d] \in 0 .. Len(unacked[d])
    <3>1. /\ seq[d] \in Nat /\ reached[d] \in Nat
          /\ unacked[d] \in Seq(Telemetry)
          /\ devices[d].lastSeq \in {NoSeq} \cup Nat
      BY <2>1 DEF TypesInv
    <3>2. reached[d] <= Len(unacked[d]) /\ Len(unacked[d]) \in Nat
      BY <2>1, <3>1 DEF SendersInv, Sender
    <3>3. QED BY <3>1, <3>2
  <2>3. ASSUME NEW d \in DeviceIds, NEW i \in 1 .. Len(unacked[d])
        PROVE  /\ unacked[d][i] \in [device : {d}, boot : {boot[d]},
                                     seq : 0 .. seq[d] - 1, reading : Readings]
               /\ i > 1 => unacked[d][i].seq = unacked[d][i - 1].seq + 1
    <3>1. /\ unacked[d] \in Seq(Telemetry) /\ Len(unacked[d]) \in Nat
          /\ seq[d] \in Nat
      BY <2>1, Bounds DEF TypesInv
    <3>2. unacked[d][i] \in Telemetry BY <3>1
    <3>3. \A k \in 1 .. Len(unacked[d]) :
            /\ unacked[d][k].device = d
            /\ unacked[d][k].boot = boot[d]
            /\ unacked[d][k].seq = seq[d] - 1 - Len(unacked[d]) + k
      BY <2>1 DEF SendersInv, Sender
    <3>4. unacked[d][i].seq \in 0 .. seq[d] - 1
      <4>1. unacked[d][i].seq \in Nat BY <3>2, TelemetryFields
      <4>2. unacked[d][i].seq = seq[d] - 1 - Len(unacked[d]) + i BY <3>3
      <4>3. i \in Nat /\ i <= Len(unacked[d]) BY <3>1
      <4>4. QED BY <3>1, <4>1, <4>2, <4>3
    <3>5. i > 1 => i - 1 \in 1 .. Len(unacked[d]) BY <3>1
    <3>6. ASSUME i > 1 PROVE unacked[d][i].seq = unacked[d][i - 1].seq + 1
      <4> DEFINE before == seq[d] - 1 - Len(unacked[d])
      <4>1. before \in Int /\ i \in Int BY <3>1
      <4>2. unacked[d][i].seq = before + i BY <3>3
      <4>3. unacked[d][i - 1].seq = before + (i - 1) BY <3>3, <3>5, <3>6
      <4> HIDE DEF before
      <4>4. QED BY <4>1, <4>2, <4>3
    <3>7. unacked[d][i] \in [device : {d}, boot : {boot[d]},
                             seq : 0 .. seq[d] - 1, reading : Readings]
      BY <3>2, <3>3, <3>4 DEF Telemetry
    <3>8. QED BY <3>6, <3>7
  <2>4. QED BY <2>1, <2>2, <2>3 DEF ServiceTypeOK, TypesInv
<1>2. QED BY <1>1, ServiceInvHolds, PTL

\* What the service does with the oldest message, by whether it knows it.
LEMMA HandledEffect ==
  ASSUME ServiceInv, HandleTelemetry
  PROVE  LET t == Head(inbox)
         IN  /\ t \in Telemetry /\ t.device \in DeviceIds
             /\ t \in Known
             /\ \A h \in handled : h \in Known /\ NotAfter(h, t)
             /\ \/ IsDuplicate(devices[t.device], t.seq) /\ UNCHANGED serviceVars
                \/ ~IsDuplicate(devices[t.device], t.seq) /\ Decide(t)
<1> DEFINE t == Head(inbox)
<1>1. TypesInv /\ OrderInv BY DEF ServiceInv
<1>2. inbox # <<>> BY DEF HandleTelemetry
<1>3. t = inbox[1] /\ 1 \in 1 .. Len(inbox) /\ t \in Telemetry BY <1>1, <1>2, InboxSplit
<1>4. t.device \in DeviceIds BY <1>3, TelemetryFields
<1>5. t \in Known /\ \A h \in handled : h \in Known BY <1>3 DEF Known
<1>6. \A h \in handled : NotAfter(h, t) BY <1>1, <1>3 DEF OrderInv
<1>7. \/ IsDuplicate(devices[t.device], t.seq) /\ UNCHANGED serviceVars
      \/ ~IsDuplicate(devices[t.device], t.seq) /\ Decide(t)
  BY DEF HandleTelemetry
<1>8. QED BY <1>3, <1>4, <1>5, <1>6, <1>7

\* A message is acted upon twice in a life of the service only beside another one that
\* the device may have sent again with it (state.py, is_duplicate).
THEOREM EachHandledOnce == ServiceSpec => HandledOnce
<1>1. ServiceInv /\ [ServiceNext]_allVars =>
        [HandleTelemetry /\ Head(inbox) \in handled /\ ~UNCHANGED <<devices, desired>> =>
           \E other \in handled : Neighbours(other, Head(inbox))]_allVars
  <2> SUFFICES ASSUME ServiceInv, HandleTelemetry, Head(inbox) \in handled,
                      ~UNCHANGED <<devices, desired>>
               PROVE  \E other \in handled : Neighbours(other, Head(inbox))
    OBVIOUS
  <2> DEFINE t == Head(inbox)
  <2>1. /\ t \in Telemetry /\ \A h \in handled : NotAfter(h, t)
        /\ \/ UNCHANGED serviceVars
           \/ ~IsDuplicate(devices[t.device], t.seq)
    BY HandledEffect
  <2>2. TypesInv /\ LastInv BY DEF ServiceInv
  <2>3. t \in handled /\ ~UNCHANGED serviceVars BY DEF serviceVars
  <2> HIDE DEF t
  <2>4. \E other \in handled : Neighbours(other, t) BY <2>1, <2>2, <2>3, RepeatedBeside
  <2>5. QED BY <2>4 DEF t
<1>2. QED BY <1>1, ServiceInvHolds, PTL DEF ServiceSpec, HandledOnce

\* New telemetry is ignored only after a reset of the device that came back to the
\* number sent last (state.py, is_duplicate).
THEOREM IgnoredOnlyAfterReset == ServiceSpec => FreshTelemetryUsed
<1>1. ServiceInv /\ [ServiceNext]_allVars =>
        [HandleTelemetry /\ Head(inbox) \notin handled /\ UNCHANGED handled =>
           \E telemetry \in handled :
              /\ telemetry.device = Head(inbox).device
              /\ telemetry.seq = Head(inbox).seq
              /\ telemetry.boot < Head(inbox).boot]_allVars
  <2> SUFFICES ASSUME ServiceInv, HandleTelemetry, Head(inbox) \notin handled,
                      UNCHANGED handled
               PROVE  \E telemetry \in handled :
                        /\ telemetry.device = Head(inbox).device
                        /\ telemetry.seq = Head(inbox).seq
                        /\ telemetry.boot < Head(inbox).boot
    OBVIOUS
  <2> DEFINE t == Head(inbox)
  <2>1. /\ t \in Telemetry /\ t.device \in DeviceIds /\ t \in Known
        /\ \A h \in handled : h \in Known /\ NotAfter(h, t)
        /\ IsDuplicate(devices[t.device], t.seq) \/ Decide(t)
    BY HandledEffect
  <2>2. TypesInv /\ LastInv /\ KnownInv BY DEF ServiceInv
  <2>3. ~Decide(t) BY DEF Decide
  <2> HIDE DEF t
  <2>4. devices[t.device].lastSeq # NoSeq /\ t.seq = devices[t.device].lastSeq
    BY <2>1, <2>3 DEF IsDuplicate
  <2>5. PICK last \in handled : last.device = t.device /\ last.seq = t.seq
    BY <2>1, <2>2, <2>4 DEF LastInv
  <2>6. last \in Telemetry BY <2>2 DEF TypesInv
  <2>7. last # t BY <2>5 DEF t
  <2>8. last.boot # t.boot BY <2>1, <2>2, <2>5, <2>7 DEF KnownInv, SameNumber
  <2>9. last.boot < t.boot BY <2>1, <2>5, <2>8 DEF NotAfter
  <2>10. QED BY <2>5, <2>9 DEF t
<1>2. QED BY <1>1, ServiceInvHolds, PTL DEF ServiceSpec, FreshTelemetryUsed

\* The failures that make a rule distrust its sensor are those of different messages,
\* unless two of them may have been sent again together (rules.py,
\* consecutive_failures).
THEOREM FailuresAreOfDifferentMessages == ServiceSpec => []FailuresAreDistinct
<1>1. ServiceInit => ServiceInv /\ FailuresInv BY ServiceInvInit
<1>2. (ServiceInv /\ FailuresInv) /\ [ServiceNext]_allVars => (ServiceInv /\ FailuresInv)'
  BY ServiceInvNext, FailuresNext DEF ServiceInv
<1>3. FailuresInv => FailuresAreDistinct BY DEF FailuresInv, FailuresAreDistinct
<1>4. QED BY <1>1, <1>2, <1>3, PTL DEF ServiceSpec

\* What a decision asks, by what was asked before.
LEMMA DecisionAsked ==
  ASSUME ServiceInv, NEW t \in Telemetry, Decide(t)
  PROVE  LET d == t.device
         IN  /\ d \in DeviceIds /\ desired'.device = d /\ desired'.on = asked'[d].on
             /\ \A e \in DeviceIds \ {d} : asked'[e] = asked[e]
             /\ asked'[d] # asked[d] =>
                  /\ asked[d].since # Never =>
                       clock - asked[d].since >=
                         IF ~asked[d].on THEN MinFanOff
                         ELSE IF MaxRuntime < MinFanOn THEN MaxRuntime ELSE MinFanOn
                  /\ asked'[d].since = clock
             /\ asked'[d] = asked[d] /\ asked[d].on =>
                  clock - asked[d].since < MaxRuntime
<1> DEFINE d == t.device
           old == devices[d].rule
           read == OnReading(old, t.reading, clock)
           on == RuleOutcome(read, clock).on
<1>1. TypesInv /\ RequestInv BY DEF ServiceInv
<1>2. /\ d \in DeviceIds /\ clock \in Nat /\ old \in Rule /\ read \in Rule
  BY <1>1, DecideEffect
<1>3. /\ read.relayOn = old.relayOn
      /\ read.lastChangeTime = old.lastChangeTime
      /\ read.relayOnSince = old.relayOnSince
  BY <1>2, OnReadingType
<1> HIDE DEF read
<1>4. Evaluated(read, clock).relayOn = on /\ on \in BOOLEAN
  BY <1>2, EvaluatedType, RuleOutcomeType
<1>5. PublishFanDesired(d, on) BY <1>4 DEF Decide, read
<1>6. /\ asked[d].on = old.relayOn
      /\ asked[d].since # Never => asked[d].since = old.lastChangeTime
      /\ old.relayOn => asked[d].since # Never /\ old.relayOnSince = old.lastChangeTime
  BY <1>1, <1>2 DEF RequestInv
<1>7. /\ on # old.relayOn =>
           clock - old.lastChangeTime >=
             IF ~old.relayOn THEN MinFanOff
             ELSE IF MaxRuntime < MinFanOn THEN MaxRuntime ELSE MinFanOn
      /\ old.relayOn /\ on => clock - old.lastChangeTime < MaxRuntime
  BY <1>2, <1>3, <1>6, RuleTimers
<1> HIDE DEF on, old, d
<1>8. /\ asked'[d] = IF asked[d].on = on THEN asked[d] ELSE [on |-> on, since |-> clock]
      /\ \A e \in DeviceIds \ {d} : asked'[e] = asked[e]
  BY <1>1, <1>2, <1>4, <1>5, AskedType
<1>9. desired' = [device |-> d, on |-> on, issuedAt |-> clock]
  BY <1>5 DEF PublishFanDesired
<1>10. desired'.device = d /\ desired'.on = on BY <1>9
<1>11. CASE asked[d].on = on
  BY <1>2, <1>6, <1>7, <1>8, <1>10, <1>11 DEF d
<1>12. CASE asked[d].on # on
  <2>1. asked'[d].on = on /\ asked'[d].since = clock BY <1>8, <1>12
  <2>2. asked'[d] # asked[d] BY <1>12, <2>1
  <2>3. QED BY <1>2, <1>6, <1>7, <1>8, <1>10, <1>12, <2>1, <2>2 DEF d
<1>13. QED BY <1>11, <1>12

\* While the service lives, what it asks of a device keeps the dwell times (rules.py,
\* evaluate), whatever the devices, repetitions and losses.
THEOREM RequestsKeepDwell == ServiceSpec => RequestDwellKept
<1> DEFINE Kept == \A d \in DeviceIds :
       asked'[d] # asked[d] /\ asked[d].since # Never /\ asked'[d].since # Never =>
       clock - asked[d].since >=
         IF ~asked[d].on THEN MinFanOff
         ELSE IF MaxRuntime < MinFanOn THEN MaxRuntime ELSE MinFanOn
<1>1. ServiceInv /\ [ServiceNext]_allVars => [Kept]_allVars
  <2> SUFFICES ASSUME ServiceInv, [ServiceNext]_allVars,
                      NEW d \in DeviceIds, asked'[d] # asked[d],
                      asked[d].since # Never, asked'[d].since # Never
               PROVE  clock - asked[d].since >=
                        IF ~asked[d].on THEN MinFanOff
                        ELSE IF MaxRuntime < MinFanOn THEN MaxRuntime ELSE MinFanOn
    OBVIOUS
  <2>1. CASE HandleTelemetry
    <3> DEFINE t == Head(inbox)
    <3>1. t \in Telemetry /\ (UNCHANGED serviceVars \/ Decide(t))
      BY <2>1, HandledEffect
    <3>2. Decide(t) BY <3>1 DEF serviceVars, historyVars
    <3> HIDE DEF t
    <3>3. QED BY <3>1, <3>2, DecisionAsked
  <2>2. CASE RestartService BY <2>2 DEF RestartService, NoRequest
  <2>3. CASE ~HandleTelemetry /\ ~RestartService BY <2>3, OthersLeaveService
  <2>4. QED BY <2>1, <2>2, <2>3
<1>2. QED BY <1>1, ServiceInvHolds, PTL DEF ServiceSpec, RequestDwellKept

\* While the service lives, it never asks for more than the runtime limit (rules.py,
\* max_runtime_exceeded).
THEOREM RequestsAreBounded == ServiceSpec => RequestBounded
<1>1. ServiceInv /\ [ServiceNext]_allVars =>
        [HandleTelemetry /\ ~UNCHANGED handled /\ desired'.on =>
           clock - asked'[desired'.device].since < MaxRuntime]_allVars
  <2> SUFFICES ASSUME ServiceInv, HandleTelemetry, ~UNCHANGED handled, desired'.on
               PROVE  clock - asked'[desired'.device].since < MaxRuntime
    OBVIOUS
  <2> DEFINE t == Head(inbox)
  <2>1. t \in Telemetry /\ (UNCHANGED serviceVars \/ Decide(t)) BY HandledEffect
  <2>2. Decide(t) BY <2>1 DEF serviceVars, historyVars
  <2>3. clock \in Nat BY Bounds DEF ServiceInv, TypesInv
  <2>4. MaxRuntime \in Nat /\ MaxRuntime > 0 BY RuleAssumption
  <2> HIDE DEF t
  <2> DEFINE d == t.device
  <2>5. /\ desired'.device = d /\ desired'.on = asked'[d].on
        /\ asked'[d] # asked[d] => asked'[d].since = clock
        /\ asked'[d] = asked[d] /\ asked[d].on => clock - asked[d].since < MaxRuntime
    BY <2>1, <2>2, DecisionAsked
  <2>6. CASE asked'[d] = asked[d] BY <2>5, <2>6
  <2>7. CASE asked'[d] # asked[d] BY <2>3, <2>4, <2>5, <2>7
  <2>8. QED BY <2>6, <2>7
<1>2. QED BY <1>1, ServiceInvHolds, PTL DEF ServiceSpec, RequestBounded

=============================================================================
