-------------------------- MODULE ReconnectProofs --------------------------
(***************************************************************************)
(* What is proved about Reconnect, for all values of its constants.        *)
(***************************************************************************)
EXTENDS Reconnect, TLAPS

-----------------------------------------------------------------------------
(* The values the steps assign *)

\* What the named assumptions say of each constant.
LEMMA ConstantTypes ==
  /\ BackoffInitial \in Nat \ {0} /\ BackoffMax \in Nat \ {0}
  /\ LoopLag \in Nat \ {0} /\ AssociationMax \in Nat \ {0}
  /\ ConnectMax \in Nat \ {0} /\ NoticeMax \in Nat \ {0}
  /\ RecoveryMax \in Nat \ {0}
  /\ ClockModulus \in Nat \ {0}
  /\ BackoffInitial <= BackoffMax
  /\ AssociationMax + LoopLag < BackoffMax
  /\ BackoffMax + LoopLag + ConnectMax < ClockModulus
BY ReconnectAssumption, ClockModulusAssumption

\* The back-off of a link stays in its range whether it is reset, doubled or left
\* alone, and the age of its last attempt stays a uint32_t.
LEMMA LinkStaysInRange ==
  ASSUME NEW link \in Link
  PROVE  /\ Reset(link) \in Link
         /\ [backoff |-> Doubled(link), since |-> 0] \in Link
         /\ [link EXCEPT !.backoff = Doubled(link)] \in Link
         /\ [link EXCEPT !.since = 0] \in Link
         /\ Elapsed(link) \in Link
<1>1. Doubled(link) \in BackoffInitial .. BackoffMax
  BY ConstantTypes DEF Link, Doubled, Least
<1>2. Add32(link.since, 1) \in UInt32
  BY ConstantTypes DEF Link, Add32, UInt32
<1>3. 0 \in UInt32 /\ BackoffInitial \in BackoffInitial .. BackoffMax
  BY ConstantTypes DEF UInt32
<1>4. QED
  BY <1>1, <1>2, <1>3 DEF Link, Reset, Elapsed

\* So does that of a link that has just been set up.
LEMMA FreshInRange == Fresh \in Link
BY ConstantTypes DEF Fresh, Link, UInt32

\* The records an attempt goes through, from its start to what breaks it.
Attempt == [for : 0 .. ConnectMax, whole : BOOLEAN]

\* An attempt that starts, breaks or is over is one.
LEMMA AttemptTypes ==
  ASSUME NEW a \in Attempt, NEW b \in BOOLEAN
  PROVE  /\ [for |-> 0, whole |-> b] \in Attempt
         /\ [a EXCEPT !.whole = b] \in Attempt
         /\ NoAttempt \in Attempt
BY ConstantTypes DEF Attempt, NoAttempt

-----------------------------------------------------------------------------
(* Types *)

\* setup() leaves every variable with its type.
LEMMA TypesAtFirst == Init => ReconnectTypeOK
BY ConstantTypes, FreshInRange DEF Init, ReconnectTypeOK, NoAttempt

\* No step of a pass of loop() takes it away.
LEMMA TypesThroughPass ==
  ASSUME ReconnectTypeOK, Pass
  PROVE  ReconnectTypeOK'
<1> USE DEF ReconnectTypeOK
<1>1. CASE WifiUp
  BY <1>1, LinkStaysInRange DEF WifiUp, stationVars, sessionVars, worldVars
<1>2. CASE WifiAttempt
  <2>1. wifi' \in Link /\ mqtt' \in Link
    BY <1>2, LinkStaysInRange DEF WifiAttempt
  <2>2. station' \in {"down", "associating", "up"} /\ joiningFor' \in 0 .. AssociationMax
    BY <1>2, ConstantTypes DEF WifiAttempt, Begin
  <2>3. QED
    BY <1>2, <2>1, <2>2 DEF WifiAttempt, sessionVars, worldVars
<1>3. CASE WifiWait
  BY <1>3 DEF WifiWait, stationVars, sessionVars, worldVars
<1>4. CASE NoWifi
  BY <1>4 DEF NoWifi, stationVars, sessionVars, worldVars
<1>5. CASE MqttUp
  BY <1>5, LinkStaysInRange DEF MqttUp, stationVars, sessionVars, worldVars
<1>6. CASE MqttLost
  BY <1>6, ConstantTypes DEF MqttLost, loopVars, stationVars, worldVars
<1>7. CASE MqttWait
  BY <1>7 DEF MqttWait, stationVars, sessionVars, worldVars
<1>8. CASE MqttAttempt
  <2>1. wifi' \in Link /\ mqtt' \in Link
    BY <1>8, LinkStaysInRange DEF MqttAttempt
  <2>2. attempt' \in Attempt
    BY <1>8, AttemptTypes DEF MqttAttempt, Attempt
  <2>3. QED
    BY <1>8, <2>1, <2>2 DEF MqttAttempt, Attempt, stationVars, sessionVars, worldVars
<1>9. CASE Connected
  <2>1. wifi' \in Link /\ mqtt' \in Link
    BY <1>9, LinkStaysInRange DEF Connected
  <2>2. attempt' \in Attempt
    BY <1>9, AttemptTypes DEF Connected, Attempt
  <2>3. QED
    BY <1>9, <2>1, <2>2 DEF Connected, Attempt, stationVars, worldVars
<1>10. CASE ConnectFailed
  <2>1. wifi' \in Link /\ mqtt' \in Link
    BY <1>10, LinkStaysInRange DEF ConnectFailed
  <2>2. attempt' \in Attempt
    BY <1>10, AttemptTypes DEF ConnectFailed, Attempt
  <2>3. QED
    BY <1>10, <2>1, <2>2 DEF ConnectFailed, Attempt, stationVars, sessionVars, worldVars
<1>11. CASE EndPass
  BY <1>11, ConstantTypes DEF EndPass, stationVars, sessionVars, worldVars
<1>12. QED
  BY <1>1, <1>2, <1>3, <1>4, <1>5, <1>6, <1>7, <1>8, <1>9, <1>10, <1>11
     DEF Pass, EnsureWifi, EnsureMqtt

\* Nor does anything that breaks, returns or joins.
LEMMA TypesThroughWorld ==
  ASSUME ReconnectTypeOK, World
  PROVE  ReconnectTypeOK'
<1> USE DEF ReconnectTypeOK
<1>0. ASSUME Break
      PROVE  /\ UNCHANGED <<pc, passFor, wifi, mqtt, deadFor>>
             /\ session' \in {"none", "open", "dead"}
             /\ attempt' \in [for : 0 .. ConnectMax, whole : BOOLEAN]
             /\ stableFor' \in 0 .. RecoveryMax
  <2>1. attempt' \in Attempt
    BY <1>0, AttemptTypes DEF Break, Attempt
  <2>2. QED
    BY <1>0, <2>1, ConstantTypes DEF Break, Attempt, loopVars
<1>1. CASE Associated
  BY <1>1, ConstantTypes DEF Associated, loopVars, sessionVars, worldVars
<1>2. CASE AccessPointVanishes
  <2>1. present' \in [accessPoint : BOOLEAN, broker : BOOLEAN]
    BY <1>2 DEF AccessPointVanishes
  <2>2. station' \in {"down", "associating", "up"} /\ joiningFor' \in 0 .. AssociationMax
    BY <1>2, ConstantTypes DEF AccessPointVanishes
  <2>3. Break
    BY <1>2 DEF AccessPointVanishes
  <2>4. QED
    BY <1>0, <2>1, <2>2, <2>3
<1>3. CASE BrokerVanishes
  <2>1. present' \in [accessPoint : BOOLEAN, broker : BOOLEAN]
    BY <1>3 DEF BrokerVanishes
  <2>2. Break /\ UNCHANGED stationVars
    BY <1>3 DEF BrokerVanishes
  <2>3. QED
    BY <1>0, <2>1, <2>2 DEF stationVars
<1>4. CASE Return
  BY <1>4 DEF Return, loopVars, stationVars, sessionVars
<1>5. QED
  BY <1>1, <1>2, <1>3, <1>4 DEF World

\* Nothing outlasts its bound: time passes only while nothing is overdue.
LEMMA TypesThroughTime ==
  ASSUME ReconnectTypeOK, TimePasses
  PROVE  ReconnectTypeOK'
<1> USE DEF ReconnectTypeOK, TimePasses
<1>1. wifi' \in Link /\ mqtt' \in Link
  BY LinkStaysInRange
<1>2. passFor' \in 0 .. LoopLag /\ attempt' \in [for : 0 .. ConnectMax, whole : BOOLEAN]
  BY ConstantTypes DEF NothingOverdue
<1>3. joiningFor' \in 0 .. AssociationMax
  BY ConstantTypes DEF NothingOverdue
<1>4. deadFor' \in 0 .. NoticeMax /\ stableFor' \in 0 .. RecoveryMax
  BY ConstantTypes DEF Least
<1>5. QED
  BY <1>1, <1>2, <1>3, <1>4

\* Every variable keeps its type: above all, neither back-off ever leaves the range
\* from its initial value to its cap, whatever fails and returns in whatever order
\* (WifiManager::EnsureConnected, VentMqttClient::EnsureConnected).
THEOREM ReconnectTypesHold == Spec => []ReconnectTypeOK
<1>1. ReconnectTypeOK /\ [Next]_vars => ReconnectTypeOK'
  <2>1. ASSUME ReconnectTypeOK, UNCHANGED vars
        PROVE  ReconnectTypeOK'
    BY <2>1 DEF ReconnectTypeOK, vars, loopVars, stationVars, sessionVars, worldVars
  <2>2. QED
    BY <2>1, TypesThroughPass, TypesThroughWorld, TypesThroughTime DEF Next
<1>2. QED
  BY <1>1, TypesAtFirst, PTL DEF Spec

-----------------------------------------------------------------------------
(* How long a recovery still takes, at most *)

Larger(m, n) == IF m > n THEN m ELSE n

\* What is left of the attempt that blocks the loop.
Busy == IF pc = "connecting" THEN ConnectMax - attempt.for ELSE 0

\* The time within which loop() next looks after Wi-Fi, and after MQTT.
ToWifi == (Busy + (IF pc = "wifi" THEN LoopLag ELSE 2 * LoopLag)) - passFor

ToMqtt ==
  (Busy + (IF pc \in {"wifi", "mqtt"} THEN LoopLag ELSE 2 * LoopLag)) - passFor

\* The time within which a link that is down is attempted, when the loop is
\* blocked for busy and next looks after the link within reach.  One that is due
\* is attempted then, unless its clock comes round first and hides that it is due.
Wait(link, reach, busy) ==
  IF ~ Due(link) THEN Larger(link.backoff - link.since, busy) + 2 * LoopLag
  ELSE IF link.since + reach < ClockModulus THEN reach
  ELSE Larger((ClockModulus - link.since) + link.backoff, busy) + 2 * LoopLag

\* The joins that back-offs shorter than a join still cut short.
Cuts(backoff) ==
  IF backoff > AssociationMax THEN 0
  ELSE AssociationMax * (((AssociationMax - backoff) \div BackoffInitial) + 1)

\* Until Wi-Fi is up.
WifiWithin ==
  IF station = "associating"
    THEN (AssociationMax - joiningFor) + Cuts(wifi.backoff)
    ELSE (Wait(wifi, ToWifi, Busy) + AssociationMax) + Cuts(wifi.backoff)

\* Until the session is open, once no session is thought to be, and in any state
\* with Wi-Fi up.
ConnectWithin == (Larger(BackoffMax, ConnectMax) + 4 * LoopLag) + ConnectMax

SessionWithin ==
  IF session = "dead"
    THEN (IF deadFor < NoticeMax THEN (NoticeMax - deadFor) + 2 * LoopLag
                                 ELSE ToMqtt) + ConnectWithin
  ELSE IF pc # "connecting" THEN Wait(mqtt, ToMqtt, 0) + ConnectMax
  ELSE IF attempt.whole THEN ConnectMax - attempt.for
  ELSE ((Larger(BackoffMax, ConnectMax) - attempt.for) + 2 * LoopLag) + ConnectMax

SessionMax == (NoticeMax + 2 * LoopLag) + ConnectWithin

Remaining == IF station = "up" THEN SessionWithin ELSE WifiWithin + SessionMax

\* The longest of them all.
RecoveryTime ==
  (((BackoffMax + ConnectMax) + 4 * LoopLag) + AssociationMax)
    + (Cuts(BackoffInitial) + SessionMax)

\* The clock does not come round while a back-off and an attempt run out.
LapIsLong == (BackoffMax + 2 * LoopLag) + ConnectMax < ClockModulus

-----------------------------------------------------------------------------
(* The two waits *)

\* The age of an attempt grows by one, until the clock comes round.
LEMMA AgeGrows ==
  ASSUME NEW link \in Link
  PROVE  /\ Elapsed(link).backoff = link.backoff
         /\ link.since + 1 < ClockModulus => Elapsed(link).since = link.since + 1
         /\ link.since + 1 >= ClockModulus => /\ link.since + 1 = ClockModulus
                                             /\ Elapsed(link).since = 0
<1>1. link.since + 1 < ClockModulus => Add32(link.since, 1) = link.since + 1
  BY ConstantTypes DEF Link, Add32, UInt32
<1>2. link.since + 1 >= ClockModulus => /\ link.since + 1 = ClockModulus
                                        /\ Add32(link.since, 1) = 0
  BY ConstantTypes DEF Link, Add32, UInt32
<1>3. Elapsed(link) = [backoff |-> link.backoff, since |-> Add32(link.since, 1)]
  BY DEF Elapsed, Link
<1>4. QED
  BY <1>1, <1>2, <1>3

\* A wait is a time, and bounded by the longest back-off and two passes, and by
\* what blocks the loop.
LEMMA WaitBounded ==
  ASSUME NEW link \in Link, NEW reach \in Nat, NEW busy \in Nat,
         reach <= 2 * LoopLag + busy
  PROVE  /\ Wait(link, reach, busy) \in Nat
         /\ Wait(link, reach, busy) <= (BackoffMax + busy) + 4 * LoopLag
BY ConstantTypes DEF Link, UInt32, Wait, Due, Larger

\* Time passing shortens a wait, whether the link falls due, the clock comes round
\* or the loop is still blocked.
LEMMA WaitPasses ==
  ASSUME NEW link \in Link, NEW reach \in Nat, NEW busy \in Nat, NEW next \in Nat,
         reach >= 1, reach <= 2 * LoopLag + busy, busy <= ConnectMax,
         next + 1 = busy \/ (busy = 0 /\ next = 0),
         LapIsLong
  PROVE  Wait(Elapsed(link), reach - 1, next) + 1 <= Wait(link, reach, busy)
<1>1. /\ link.backoff \in Nat /\ link.since \in Nat /\ link.backoff > 0
      /\ link.backoff <= BackoffMax /\ link.since < ClockModulus
  BY ConstantTypes DEF Link, UInt32
<1>2. CASE link.since + 1 < ClockModulus
  <2>1. /\ Elapsed(link).backoff = link.backoff
        /\ Elapsed(link).since = link.since + 1
    BY <1>2, AgeGrows
  <2>2. QED
    BY <1>1, <1>2, <2>1, ConstantTypes DEF Wait, Due, Larger, LapIsLong
<1>3. CASE ~(link.since + 1 < ClockModulus)
  <2>1. /\ Elapsed(link).backoff = link.backoff
        /\ Elapsed(link).since = 0 /\ link.since + 1 = ClockModulus
    BY <1>1, <1>3, AgeGrows, ConstantTypes
  <2>2. QED
    BY <1>1, <1>3, <2>1, ConstantTypes DEF Wait, Due, Larger, LapIsLong
<1>4. QED
  BY <1>2, <1>3

\* A loop that comes round sooner does not lengthen it.
LEMMA WaitMonotone ==
  ASSUME NEW link \in Link, NEW reach \in Nat, NEW busy \in Nat,
         NEW sooner \in Nat, NEW lessBusy \in Nat,
         sooner <= reach, lessBusy <= busy, sooner <= 2 * LoopLag + lessBusy
  PROVE  Wait(link, sooner, lessBusy) <= Wait(link, reach, busy)
BY ConstantTypes DEF Link, UInt32, Wait, Due, Larger

-----------------------------------------------------------------------------
(* The joins cut short *)

\* A division by a positive number is monotone, and grows by one with the divisor.
LEMMA DivisionGrows ==
  ASSUME NEW x \in Nat, NEW y \in Nat, NEW d \in Nat \ {0}
  PROVE  /\ x \div d \in Nat
         /\ y <= x => y \div d <= x \div d
         /\ y + d <= x => y \div d + 1 <= x \div d
<1>1. x \div d \in Nat
  OBVIOUS
<1>2. ASSUME y <= x PROVE y \div d <= x \div d
  BY <1>2
<1>3. ASSUME y + d <= x PROVE y \div d + 1 <= x \div d
  BY <1>3
<1>4. QED
  BY <1>1, <1>2, <1>3

\* So is a product.
LEMMA ProductGrows ==
  ASSUME NEW a \in Nat, NEW p \in Nat, NEW q \in Nat
  PROVE  /\ a * p \in Nat
         /\ p <= q => a * p <= a * q
         /\ p + 1 <= q => a * p + a <= a * q
<1>1. a * p \in Nat
  OBVIOUS
<1>2. ASSUME p <= q PROVE a * p <= a * q
  BY <1>2
<1>3. ASSUME p + 1 <= q PROVE a * p + a <= a * q
  BY <1>3
<1>4. QED
  BY <1>1, <1>2, <1>3

\* The longer the back-off, the fewer.
LEMMA CutsFall ==
  ASSUME NEW b \in BackoffInitial .. BackoffMax, NEW c \in BackoffInitial .. BackoffMax,
         b <= c
  PROVE  Cuts(b) \in Nat /\ Cuts(c) \in Nat /\ Cuts(c) <= Cuts(b)
<1>1. b \in Nat /\ c \in Nat
  BY ConstantTypes
<1>2. CASE c <= AssociationMax
  <2>1. PICK p, q : p = (AssociationMax - c) \div BackoffInitial
                    /\ q = (AssociationMax - b) \div BackoffInitial
    OBVIOUS
  <2>2. p \in Nat /\ q \in Nat /\ p <= q
    BY <1>1, <1>2, <2>1, DivisionGrows, ConstantTypes
  <2>3. /\ AssociationMax * (p + 1) \in Nat /\ AssociationMax * (q + 1) \in Nat
        /\ AssociationMax * (p + 1) <= AssociationMax * (q + 1)
    BY <2>2, ProductGrows, ConstantTypes
  <2>4. Cuts(b) = AssociationMax * (q + 1) /\ Cuts(c) = AssociationMax * (p + 1)
    BY <1>1, <1>2, <2>1, ConstantTypes DEF Cuts
  <2>5. QED
    BY <2>3, <2>4
<1>3. CASE c > AssociationMax /\ b <= AssociationMax
  <2>1. PICK q : q = (AssociationMax - b) \div BackoffInitial
    OBVIOUS
  <2>2. q \in Nat
    BY <1>1, <1>3, <2>1, DivisionGrows, ConstantTypes
  <2>3. AssociationMax * (q + 1) \in Nat
    BY <2>2, ProductGrows, ConstantTypes
  <2>4. Cuts(b) = AssociationMax * (q + 1) /\ Cuts(c) = 0
    BY <1>1, <1>3, <2>1, ConstantTypes DEF Cuts
  <2>5. QED
    BY <2>3, <2>4
<1>4. CASE b > AssociationMax
  BY <1>1, <1>4, ConstantTypes DEF Cuts
<1>5. QED
  BY <1>1, <1>2, <1>3, <1>4, ConstantTypes

\* An attempt that cuts a join short pays for the join it starts: the back-off it
\* doubles was shorter than a join.
LEMMA CutPaid ==
  ASSUME NEW link \in Link, link.backoff <= AssociationMax
  PROVE  /\ Cuts(Doubled(link)) \in Nat
         /\ Cuts(Doubled(link)) + AssociationMax <= Cuts(link.backoff)
<1>1. PICK b : b = link.backoff
  OBVIOUS
<1>2. b \in Nat /\ BackoffInitial <= b /\ b <= AssociationMax /\ b <= BackoffMax
  BY <1>1, ConstantTypes DEF Link
<1>3. PICK c : c = Doubled(link)
  OBVIOUS
<1>4. c \in Nat /\ (c > AssociationMax \/ c = b + b)
  BY <1>1, <1>2, <1>3, ConstantTypes DEF Doubled, Least
<1>5. PICK q : q = (AssociationMax - b) \div BackoffInitial
  OBVIOUS
<1>6. q \in Nat /\ Cuts(b) = AssociationMax * (q + 1)
  BY <1>2, <1>5, DivisionGrows, ConstantTypes DEF Cuts
<1>7. CASE c > AssociationMax
  <2>1. Cuts(c) = 0
    BY <1>4, <1>7, ConstantTypes DEF Cuts
  <2>2. AssociationMax * q \in Nat /\ AssociationMax * q + AssociationMax <= AssociationMax * (q + 1)
    BY <1>6, ProductGrows, ConstantTypes
  <2>3. QED
    BY <1>1, <1>3, <1>6, <2>1, <2>2, ConstantTypes
<1>8. CASE c <= AssociationMax
  <2>1. PICK p : p = (AssociationMax - c) \div BackoffInitial
    OBVIOUS
  <2>2. p \in Nat /\ p + 1 <= q
    BY <1>2, <1>4, <1>5, <1>8, <2>1, DivisionGrows, ConstantTypes
  <2>3. Cuts(c) = AssociationMax * (p + 1)
    BY <1>4, <1>8, <2>1, ConstantTypes DEF Cuts
  <2>4. /\ AssociationMax * (p + 1) \in Nat
        /\ AssociationMax * (p + 1) + AssociationMax <= AssociationMax * (q + 1)
    BY <1>6, <2>2, ProductGrows, ConstantTypes
  <2>5. QED
    BY <1>1, <1>3, <1>6, <2>3, <2>4
<1>9. QED
  BY <1>4, <1>7, <1>8, ConstantTypes

-----------------------------------------------------------------------------
(* What the clocks, the radio and the session have to do with each other *)

\* A session is open only over a whole path: whatever breaks leaves it dead.
OpenOverWholePath == session = "open" => AllPresent /\ station = "up"

\* The loop is blocked only where there is no session, and the age of the MQTT
\* attempt is then the time it has blocked.
AttemptAged == pc = "connecting" => session = "none" /\ mqtt.since = attempt.for

\* An attempt not broken yet still has its path.
AttemptPath ==
  pc = "connecting" /\ attempt.whole => present.broker /\ station = "up"

\* A join is as old as the Wi-Fi attempt that began it.
JoinAged == station = "associating" => wifi.since = joiningFor

\* The radio joins only what answers.
StationFound == station # "down" => present.accessPoint

\* No time counts as stable while something is missing.
StableOnlyWhole == ~ AllPresent => stableFor = 0

LinkInv ==
  /\ OpenOverWholePath
  /\ AttemptAged
  /\ AttemptPath
  /\ JoinAged
  /\ StationFound
  /\ StableOnlyWhole

\* setup() leaves it so.
LEMMA LinkInvAtFirst == Init => LinkInv
BY DEF Init, LinkInv, OpenOverWholePath, AttemptAged, AttemptPath, JoinAged,
       StationFound, StableOnlyWhole, Fresh, NoAttempt

\* So does a step of a pass of loop().
LEMMA LinkInvThroughPass ==
  ASSUME ReconnectTypeOK, LinkInv, Pass
  PROVE  LinkInv'
<1> USE DEF LinkInv, OpenOverWholePath, AttemptAged, AttemptPath, JoinAged,
            StationFound, StableOnlyWhole, AllPresent, loopVars, stationVars,
            sessionVars, worldVars
<1>0. /\ wifi \in Link /\ mqtt \in Link /\ attempt \in Attempt
      /\ present \in [accessPoint : BOOLEAN, broker : BOOLEAN]
      /\ station \in {"down", "associating", "up"}
  BY DEF ReconnectTypeOK, Attempt
<1>1. CASE EnsureWifi
  <2>1. CASE WifiUp
    BY <1>0, <2>1 DEF WifiUp
  <2>2. CASE WifiAttempt
    BY <1>0, <2>2 DEF WifiAttempt, Begin
  <2>3. CASE WifiWait
    BY <1>0, <2>3 DEF WifiWait
  <2>4. QED
    BY <1>1, <2>1, <2>2, <2>3 DEF EnsureWifi
<1>2. CASE EnsureMqtt
  <2>1. CASE NoWifi
    BY <1>0, <2>1 DEF NoWifi
  <2>2. CASE MqttUp
    BY <1>0, <2>2 DEF MqttUp
  <2>3. CASE MqttLost
    BY <1>0, <2>3 DEF MqttLost
  <2>4. CASE MqttWait
    BY <1>0, <2>4 DEF MqttWait
  <2>5. CASE MqttAttempt
    <3>1. mqtt'.since = 0 /\ attempt'.for = 0 /\ attempt'.whole = present.broker
      BY <1>0, <2>5 DEF MqttAttempt, Link
    <3>2. QED
      BY <1>0, <2>5, <3>1 DEF MqttAttempt
  <2>6. QED
    BY <1>2, <2>1, <2>2, <2>3, <2>4, <2>5 DEF EnsureMqtt
<1>3. CASE Connected
  BY <1>0, <1>3 DEF Connected
<1>4. CASE ConnectFailed
  BY <1>0, <1>4 DEF ConnectFailed
<1>5. CASE EndPass
  BY <1>0, <1>5 DEF EndPass
<1>6. QED
  BY <1>1, <1>2, <1>3, <1>4, <1>5 DEF Pass

\* So does whatever joins, breaks or comes back.
LEMMA LinkInvThroughWorld ==
  ASSUME ReconnectTypeOK, LinkInv, World
  PROVE  LinkInv'
<1> USE DEF LinkInv, OpenOverWholePath, AttemptAged, AttemptPath, JoinAged,
            StationFound, StableOnlyWhole, AllPresent, loopVars, stationVars,
            sessionVars, worldVars
<1>0. /\ wifi \in Link /\ mqtt \in Link /\ attempt \in Attempt
      /\ present \in [accessPoint : BOOLEAN, broker : BOOLEAN]
      /\ station \in {"down", "associating", "up"}
  BY DEF ReconnectTypeOK, Attempt
<1>1. CASE Associated
  BY <1>0, <1>1 DEF Associated
<1>2. ASSUME Break
      PROVE  /\ session' # "open" /\ (session' = "none" <=> session = "none")
             /\ attempt'.for = attempt.for
             /\ pc = "connecting" => ~ attempt'.whole
             /\ stableFor' = 0 /\ UNCHANGED <<pc, wifi, mqtt>>
  BY <1>0, <1>2 DEF Break, Attempt
<1>3. CASE AccessPointVanishes
  <2>1. Break
    BY <1>3 DEF AccessPointVanishes
  <2>2. station' = "down"
    BY <1>3 DEF AccessPointVanishes
  <2>3. QED
    BY <1>0, <1>2, <2>1, <2>2
<1>4. CASE BrokerVanishes
  <2>1. Break
    BY <1>4 DEF BrokerVanishes
  <2>2. /\ UNCHANGED <<station, joiningFor>>
        /\ present'.accessPoint = present.accessPoint
    BY <1>0, <1>4 DEF BrokerVanishes
  <2>3. QED
    BY <1>0, <1>2, <2>1, <2>2
<1>5. CASE Return
  <2>1. /\ present.accessPoint => present'.accessPoint
        /\ present.broker => present'.broker
        /\ ~ AllPresent
    BY <1>0, <1>5 DEF Return
  <2>2. QED
    BY <1>0, <1>5, <2>1 DEF Return
<1>6. QED
  BY <1>1, <1>3, <1>4, <1>5 DEF World

\* So does time: an attempt and a join end before the clock of their link comes
\* round.
LEMMA LinkInvThroughTime ==
  ASSUME ReconnectTypeOK, LinkInv, TimePasses
  PROVE  LinkInv'
<1> USE DEF LinkInv, AllPresent
<1>0. /\ wifi \in Link /\ mqtt \in Link /\ attempt \in Attempt
      /\ joiningFor \in 0 .. AssociationMax
  BY DEF ReconnectTypeOK, Attempt
<1>1. UNCHANGED <<pc, station, session, present>>
  BY DEF TimePasses
<1>2. OpenOverWholePath' /\ StationFound'
  BY <1>1 DEF OpenOverWholePath, StationFound
<1>3. AttemptAged' /\ AttemptPath'
  <2>1. CASE pc = "connecting"
    <3>1. attempt.for < ConnectMax
      BY <2>1 DEF TimePasses, NothingOverdue
    <3>2. attempt'.for = attempt.for + 1 /\ attempt'.whole = attempt.whole
      BY <1>0, <2>1 DEF TimePasses, Attempt
    <3>3. mqtt' = Elapsed(mqtt) /\ mqtt.since = attempt.for
      BY <2>1 DEF TimePasses, AttemptAged
    <3>4. mqtt.since + 1 < ClockModulus
      BY <1>0, <3>1, <3>3, ConstantTypes DEF Attempt
    <3>5. mqtt'.since = mqtt.since + 1
      BY <1>0, <3>3, <3>4, AgeGrows
    <3>6. QED
      BY <1>1, <3>2, <3>3, <3>5 DEF AttemptAged, AttemptPath
  <2>2. CASE pc # "connecting"
    BY <1>1, <2>2 DEF AttemptAged, AttemptPath
  <2>3. QED
    BY <2>1, <2>2
<1>4. JoinAged'
  <2>1. CASE station = "associating"
    <3>1. joiningFor < AssociationMax /\ joiningFor' = joiningFor + 1
      BY <2>1 DEF TimePasses, NothingOverdue
    <3>2. wifi' = Elapsed(wifi) /\ wifi.since = joiningFor
      BY <2>1 DEF TimePasses, JoinAged
    <3>3. wifi.since + 1 < ClockModulus
      BY <1>0, <3>1, <3>2, ConstantTypes
    <3>4. wifi'.since = wifi.since + 1
      BY <1>0, <3>2, <3>3, AgeGrows
    <3>5. QED
      BY <3>1, <3>2, <3>4 DEF JoinAged
  <2>2. CASE station # "associating"
    BY <1>1, <2>2 DEF JoinAged
  <2>3. QED
    BY <2>1, <2>2
<1>5. StableOnlyWhole'
  BY <1>1 DEF StableOnlyWhole, TimePasses
<1>6. QED
  BY <1>2, <1>3, <1>4, <1>5

-----------------------------------------------------------------------------
(* What remains is bounded *)

\* The times within which the loop comes round.
LEMMA ReachBounded ==
  ASSUME ReconnectTypeOK
  PROVE  /\ Busy \in Nat /\ Busy <= ConnectMax
         /\ pc # "connecting" => Busy = 0
         /\ pc = "connecting" => Busy = ConnectMax - attempt.for
         /\ ToWifi \in Nat /\ ToWifi <= 2 * LoopLag + Busy
         /\ ToMqtt \in Nat /\ ToMqtt <= 2 * LoopLag + Busy
<1>1. /\ attempt.for \in Nat /\ attempt.for <= ConnectMax
      /\ passFor \in Nat /\ passFor <= LoopLag
  BY ConstantTypes DEF ReconnectTypeOK
<1>2. QED
  BY <1>1, ConstantTypes DEF Busy, ToWifi, ToMqtt

\* The session is open within SessionMax of Wi-Fi being up.
LEMMA SessionBounded ==
  ASSUME ReconnectTypeOK, LinkInv
  PROVE  SessionWithin \in Nat /\ SessionWithin <= SessionMax
<1>1. /\ attempt.for \in Nat /\ attempt.for <= ConnectMax
      /\ deadFor \in Nat /\ deadFor <= NoticeMax /\ mqtt \in Link
  BY ConstantTypes DEF ReconnectTypeOK
<1>2. ConnectWithin \in Nat
  BY ConstantTypes DEF ConnectWithin, Larger
<1>3. CASE session = "dead"
  <2>1. ToMqtt \in Nat /\ ToMqtt <= 2 * LoopLag
    BY <1>3, ReachBounded, ConstantTypes DEF LinkInv, AttemptAged
  <2>2. QED
    BY <1>1, <1>2, <1>3, <2>1, ConstantTypes DEF SessionWithin, SessionMax
<1>4. CASE session # "dead" /\ pc # "connecting"
  <2>1. ToMqtt \in Nat /\ ToMqtt <= 2 * LoopLag + 0
    BY <1>4, ReachBounded, ConstantTypes
  <2>2. /\ Wait(mqtt, ToMqtt, 0) \in Nat
        /\ Wait(mqtt, ToMqtt, 0) <= (BackoffMax + 0) + 4 * LoopLag
    BY <1>1, <2>1, WaitBounded
  <2>3. QED
    BY <1>4, <2>2, ConstantTypes DEF SessionWithin, SessionMax, ConnectWithin, Larger
<1>5. CASE session # "dead" /\ pc = "connecting"
  BY <1>1, <1>5, ConstantTypes DEF SessionWithin, SessionMax, ConnectWithin, Larger
<1>6. QED
  BY <1>3, <1>4, <1>5

\* Wi-Fi is up within the longest back-off and every join that one may cut short.
LEMMA WifiBounded ==
  ASSUME ReconnectTypeOK
  PROVE  /\ WifiWithin \in Nat
         /\ WifiWithin <= (((BackoffMax + ConnectMax) + 4 * LoopLag) + AssociationMax)
                            + Cuts(BackoffInitial)
<1>1. /\ joiningFor \in Nat /\ joiningFor <= AssociationMax /\ wifi \in Link
      /\ wifi.backoff \in BackoffInitial .. BackoffMax
  BY ConstantTypes DEF ReconnectTypeOK, Link
<1>2. /\ Cuts(wifi.backoff) \in Nat /\ Cuts(BackoffInitial) \in Nat
      /\ Cuts(wifi.backoff) <= Cuts(BackoffInitial)
  BY <1>1, CutsFall, ConstantTypes
<1>3. /\ Wait(wifi, ToWifi, Busy) \in Nat
      /\ Wait(wifi, ToWifi, Busy) <= (BackoffMax + ConnectMax) + 4 * LoopLag
  BY <1>1, ReachBounded, WaitBounded, ConstantTypes
<1>4. QED
  BY <1>1, <1>2, <1>3, ConstantTypes DEF WifiWithin

\* Together: a recovery that starts now ends within RecoveryTime.
LEMMA RemainingBounded ==
  ASSUME ReconnectTypeOK, LinkInv
  PROVE  Remaining \in Nat /\ Remaining <= RecoveryTime
<1>1. Cuts(BackoffInitial) \in Nat
  BY CutsFall, ConstantTypes
<1>2. SessionMax \in Nat
  BY ConstantTypes DEF SessionMax, ConnectWithin, Larger
<1>3. QED
  BY <1>1, <1>2, SessionBounded, WifiBounded, ConstantTypes DEF Remaining, RecoveryTime

-----------------------------------------------------------------------------
(* Once both links answer, no step of the program makes it longer *)

Recovering == ReconnectTypeOK /\ LinkInv /\ AllPresent /\ session # "open"

\* EnsureConnected of Wi-Fi does not: what an attempt cuts short, its back-off pays.
LEMMA WifiNotLonger ==
  ASSUME Recovering, EnsureWifi
  PROVE  Remaining' <= Remaining
<1>0. /\ wifi \in Link /\ mqtt \in Link /\ passFor \in Nat /\ pc = "wifi"
      /\ joiningFor \in Nat /\ joiningFor <= AssociationMax
      /\ station \in {"down", "associating", "up"}
      /\ wifi.backoff \in BackoffInitial .. BackoffMax
  BY ConstantTypes DEF Recovering, ReconnectTypeOK, EnsureWifi, WifiUp,
                       WifiAttempt, WifiWait, Link
<1>1. SessionMax \in Nat
  BY ConstantTypes DEF SessionMax, ConnectWithin, Larger
<1>2. CASE WifiUp
  <2>1. UNCHANGED <<passFor, mqtt, station, session, deadFor, attempt>> /\ pc' = "mqtt"
    BY <1>2 DEF WifiUp, stationVars, sessionVars
  <2>2. ToMqtt' = ToMqtt
    BY <1>0, <2>1, ConstantTypes DEF ToMqtt, Busy
  <2>3. SessionWithin' = SessionWithin
    BY <1>0, <2>1, <2>2 DEF SessionWithin, Wait, Due, ConnectWithin
  <2>4. station = "up"
    BY <1>2 DEF WifiUp
  <2>5. QED
    BY <2>1, <2>3, <2>4, SessionBounded DEF Remaining, Recovering
<1>3. CASE WifiAttempt
  <2>1. /\ station # "up" /\ wifi.since >= wifi.backoff
        /\ station' = "associating" /\ joiningFor' = 0
        /\ wifi'.backoff = Doubled(wifi)
    BY <1>3 DEF WifiAttempt, Due, Begin, Recovering, AllPresent
  <2>2. PICK d : d = Doubled(wifi)
    OBVIOUS
  <2>3. d \in BackoffInitial .. BackoffMax /\ wifi.backoff <= d
    BY <1>0, <2>2, ConstantTypes DEF Doubled, Least
  <2>4. /\ Cuts(d) \in Nat /\ Cuts(wifi.backoff) \in Nat
        /\ Cuts(d) <= Cuts(wifi.backoff)
    BY <1>0, <2>3, CutsFall
  <2>5. WifiWithin' = AssociationMax + Cuts(d)
    <3>1. WifiWithin' = (AssociationMax - joiningFor') + Cuts(wifi'.backoff)
      BY <2>1 DEF WifiWithin, Cuts
    <3>2. QED
      BY <2>1, <2>2, <2>4, <3>1, ConstantTypes
  <2>6. AssociationMax + Cuts(d) <= WifiWithin
    <3>1. CASE station = "associating"
      <4>1. wifi.backoff <= joiningFor
        BY <2>1, <3>1 DEF Recovering, LinkInv, JoinAged
      <4>2. wifi.backoff <= AssociationMax
        BY <1>0, <4>1, ConstantTypes
      <4>3. Cuts(d) + AssociationMax <= Cuts(wifi.backoff)
        BY <1>0, <2>2, <4>2, CutPaid
      <4>4. QED
        BY <1>0, <2>4, <3>1, <4>3, ConstantTypes DEF WifiWithin
    <3>2. CASE station # "associating"
      <4>1. Wait(wifi, ToWifi, Busy) \in Nat
        BY <1>0, ReachBounded, WaitBounded DEF Recovering
      <4>2. QED
        BY <2>4, <3>2, <4>1, ConstantTypes DEF WifiWithin
    <3>3. QED
      BY <3>1, <3>2
  <2>7. Remaining = WifiWithin + SessionMax
    BY <2>1 DEF Remaining
  <2>8. Remaining' = WifiWithin' + SessionMax
    BY <2>1 DEF Remaining, SessionMax, ConnectWithin
  <2>9. WifiWithin \in Nat
    BY WifiBounded DEF Recovering
  <2>10. QED
    BY <1>1, <2>4, <2>5, <2>6, <2>7, <2>8, <2>9, ConstantTypes
<1>4. CASE WifiWait
  <2>1. /\ UNCHANGED <<passFor, wifi, station, joiningFor>> /\ pc' = "mqtt"
        /\ station # "up" /\ ~ Due(wifi)
    BY <1>4 DEF WifiWait, stationVars
  <2>2. Busy' = Busy
    BY <1>0, <2>1 DEF Busy
  <2>3. Wait(wifi, ToWifi, Busy)' = Wait(wifi, ToWifi, Busy)
    BY <2>1, <2>2 DEF Wait, Due
  <2>4. WifiWithin' = WifiWithin
    BY <2>1, <2>3 DEF WifiWithin, Cuts
  <2>5. QED
    BY <1>1, <2>1, <2>4, WifiBounded DEF Remaining, Recovering, SessionMax, ConnectWithin
<1>5. QED
  BY <1>2, <1>3, <1>4 DEF EnsureWifi

\* Nor does EnsureConnected of MQTT, whichever way it returns.
LEMMA MqttNotLonger ==
  ASSUME Recovering, EnsureMqtt
  PROVE  Remaining' <= Remaining
<1>0. /\ wifi \in Link /\ mqtt \in Link /\ passFor \in Nat /\ pc = "mqtt"
      /\ deadFor \in Nat /\ deadFor <= NoticeMax
      /\ session \in {"none", "dead"}
  BY ConstantTypes DEF Recovering, ReconnectTypeOK, EnsureMqtt, NoWifi, MqttUp,
                       MqttLost, MqttWait, MqttAttempt
<1>1. SessionMax \in Nat /\ ConnectWithin \in Nat
  BY ConstantTypes DEF SessionMax, ConnectWithin, Larger
<1>2. SessionWithin \in Nat
  BY SessionBounded DEF Recovering
<1>3. CASE NoWifi
  <2>1. /\ UNCHANGED <<passFor, wifi, station, joiningFor>> /\ pc' = "rest"
        /\ station # "up"
    BY <1>3 DEF NoWifi, stationVars
  <2>2. Busy' = Busy /\ ToWifi' = ToWifi
    BY <1>0, <2>1, ConstantTypes DEF Busy, ToWifi
  <2>3. WifiWithin' = WifiWithin
    BY <2>1, <2>2 DEF WifiWithin, Cuts, Wait, Due
  <2>4. QED
    BY <1>1, <2>1, <2>3, WifiBounded DEF Remaining, Recovering, SessionMax, ConnectWithin
<1>4. CASE MqttUp
  <2>1. /\ UNCHANGED <<station, session, deadFor>> /\ station = "up"
        /\ session = "dead" /\ deadFor < NoticeMax
    BY <1>0, <1>4 DEF MqttUp, stationVars, sessionVars
  <2>2. SessionWithin' = SessionWithin
    BY <2>1 DEF SessionWithin, ConnectWithin
  <2>3. QED
    BY <1>2, <2>1, <2>2 DEF Remaining
<1>5. CASE MqttLost
  <2>1. /\ UNCHANGED <<pc, passFor, mqtt, station>> /\ station = "up"
        /\ session = "dead" /\ session' = "none"
    BY <1>5 DEF MqttLost, loopVars, stationVars
  <2>2. ToMqtt \in Nat /\ ToMqtt <= 2 * LoopLag + 0 /\ ToMqtt' = ToMqtt
    BY <1>0, <2>1, ReachBounded, ConstantTypes DEF Recovering, ToMqtt, Busy
  <2>3. /\ Wait(mqtt, ToMqtt, 0) \in Nat
        /\ Wait(mqtt, ToMqtt, 0) <= (BackoffMax + 0) + 4 * LoopLag
    BY <1>0, <2>2, WaitBounded
  <2>4. SessionWithin' = Wait(mqtt, ToMqtt, 0) + ConnectMax
    BY <1>0, <2>1, <2>2 DEF SessionWithin, Wait, Due
  <2>5. ConnectWithin <= SessionWithin
    BY <1>0, <1>1, <2>1, <2>2, ConstantTypes DEF SessionWithin
  <2>6. SessionWithin' <= SessionWithin
    BY <1>1, <1>2, <2>3, <2>4, <2>5, ConstantTypes DEF ConnectWithin, Larger
  <2>7. QED
    BY <2>1, <2>6 DEF Remaining
<1>6. CASE MqttWait
  <2>1. /\ UNCHANGED <<passFor, mqtt, station, session>> /\ pc' = "rest"
        /\ station = "up" /\ session = "none" /\ ~ Due(mqtt)
    BY <1>6 DEF MqttWait, stationVars, sessionVars
  <2>2. SessionWithin' = SessionWithin
    BY <1>0, <2>1 DEF SessionWithin, Wait, Due
  <2>3. QED
    BY <1>2, <2>1, <2>2 DEF Remaining
<1>7. CASE MqttAttempt
  <2>1. /\ UNCHANGED <<station, session>> /\ pc' = "connecting"
        /\ station = "up" /\ session = "none"
        /\ attempt'.for = 0 /\ attempt'.whole
    BY <1>7 DEF MqttAttempt, stationVars, sessionVars, Recovering, AllPresent
  <2>2. ToMqtt \in Nat /\ ToMqtt <= 2 * LoopLag + 0
    BY <1>0, ReachBounded, ConstantTypes DEF Recovering
  <2>3. Wait(mqtt, ToMqtt, 0) \in Nat
    BY <1>0, <2>2, WaitBounded
  <2>4. SessionWithin' = ConnectMax
    BY <2>1, ConstantTypes DEF SessionWithin
  <2>5. SessionWithin = Wait(mqtt, ToMqtt, 0) + ConnectMax
    BY <1>0, <2>1 DEF SessionWithin
  <2>6. QED
    BY <2>1, <2>3, <2>4, <2>5, ConstantTypes DEF Remaining
<1>8. QED
  BY <1>3, <1>4, <1>5, <1>6, <1>7 DEF EnsureMqtt

\* Nor an attempt that fails: the path broke and came back while it ran, and what it
\* was given covers the back-off it doubles.
LEMMA FailureNotLonger ==
  ASSUME Recovering, ConnectFailed, LapIsLong
  PROVE  Remaining' <= Remaining
<1>0. /\ wifi \in Link /\ mqtt \in Link /\ passFor \in Nat /\ passFor <= LoopLag
      /\ attempt.for \in Nat /\ attempt.for <= ConnectMax
  BY ConstantTypes DEF Recovering, ReconnectTypeOK
<1>1. /\ pc = "connecting" /\ pc' = "rest" /\ session = "none" /\ session' = "none"
      /\ ~ attempt.whole /\ mqtt.since = attempt.for
      /\ UNCHANGED <<passFor, wifi, station, joiningFor>>
      /\ mqtt' = [mqtt EXCEPT !.backoff = Doubled(mqtt)]
  BY DEF ConnectFailed, Recovering, LinkInv, AttemptAged, stationVars, sessionVars
<1>2. /\ Busy' = 0 /\ Busy = ConnectMax - attempt.for /\ Busy \in Nat
      /\ ToWifi = (Busy + 2 * LoopLag) - passFor /\ ToWifi' = 2 * LoopLag - passFor
      /\ ToMqtt' = 2 * LoopLag - passFor
  BY <1>0, <1>1, ConstantTypes DEF Busy, ToWifi, ToMqtt
<1>3. CASE station = "up"
  <2>1. PICK next : next = mqtt'
    OBVIOUS
  <2>2. /\ next \in Link /\ next.since = attempt.for
        /\ next.backoff \in Nat /\ next.backoff <= BackoffMax
    <3>1. next \in Link
      BY <1>0, <1>1, <2>1, LinkStaysInRange
    <3>2. next.since = attempt.for
      BY <1>0, <1>1, <2>1 DEF Link
    <3>3. QED
      BY <3>1, <3>2, ConstantTypes DEF Link
  <2>3. PICK reach : reach = 2 * LoopLag - passFor
    OBVIOUS
  <2>4. SessionWithin' = Wait(next, reach, 0) + ConnectMax
    BY <1>1, <1>2, <2>1, <2>3 DEF SessionWithin, Wait, Due
  <2>5. SessionWithin =
          ((Larger(BackoffMax, ConnectMax) - attempt.for) + 2 * LoopLag) + ConnectMax
    BY <1>1 DEF SessionWithin
  <2>6. Wait(next, reach, 0) <= (Larger(BackoffMax, ConnectMax) - attempt.for) + 2 * LoopLag
    BY <1>0, <2>2, <2>3, ConstantTypes DEF Wait, Due, Larger, LapIsLong
  <2>7. Wait(next, reach, 0) \in Nat
    <3>1. reach \in Nat /\ reach <= 2 * LoopLag + 0 /\ 0 \in Nat
      BY <1>0, <2>3, ConstantTypes
    <3>2. QED
      BY <2>2, <3>1, WaitBounded
  <2>8. QED
    BY <1>0, <1>1, <1>3, <2>4, <2>5, <2>6, <2>7, ConstantTypes DEF Remaining, Larger
<1>4. CASE station # "up"
  <2>1. PICK sooner : sooner = 2 * LoopLag - passFor
    OBVIOUS
  <2>2. sooner \in Nat /\ sooner <= ToWifi /\ sooner <= 2 * LoopLag + 0 /\ ToWifi \in Nat
    BY <1>0, <1>2, <2>1, ConstantTypes
  <2>3. Wait(wifi, sooner, 0) <= Wait(wifi, ToWifi, Busy)
    BY <1>0, <1>2, <2>2, WaitMonotone, ConstantTypes
  <2>4. Wait(wifi, ToWifi, Busy)' = Wait(wifi, sooner, 0)
    BY <1>1, <1>2, <2>1 DEF Wait, Due
  <2>5. Wait(wifi, sooner, 0) \in Nat /\ Wait(wifi, ToWifi, Busy) \in Nat
    BY <1>0, <2>2, ReachBounded, WaitBounded DEF Recovering
  <2>6. /\ joiningFor \in Nat /\ joiningFor <= AssociationMax
        /\ Cuts(wifi.backoff) \in Nat
    BY <1>0, CutsFall, ConstantTypes DEF Recovering, ReconnectTypeOK, Link
  <2>7. /\ WifiWithin' <= WifiWithin /\ WifiWithin \in Nat /\ WifiWithin' \in Nat
    BY <1>1, <2>3, <2>4, <2>5, <2>6, ConstantTypes DEF WifiWithin, Cuts
  <2>8. SessionMax \in Nat /\ SessionMax' = SessionMax
    BY ConstantTypes DEF SessionMax, ConnectWithin, Larger
  <2>9. QED
    BY <1>1, <1>4, <2>7, <2>8 DEF Remaining
<1>5. QED
  BY <1>3, <1>4

\* Nor the end of a pass: the next one may take its whole time again, and asks sooner.
LEMMA EndNotLonger ==
  ASSUME Recovering, EndPass
  PROVE  Remaining' <= Remaining
<1>0. /\ wifi \in Link /\ mqtt \in Link /\ passFor \in Nat /\ passFor <= LoopLag
      /\ deadFor \in Nat /\ deadFor <= NoticeMax
  BY ConstantTypes DEF Recovering, ReconnectTypeOK
<1>1. /\ pc = "rest" /\ pc' = "wifi" /\ passFor' = 0
      /\ UNCHANGED <<wifi, mqtt, station, joiningFor, session, deadFor>>
  BY DEF EndPass, stationVars, sessionVars
<1>2. /\ Busy' = 0 /\ Busy = 0
      /\ ToWifi = 2 * LoopLag - passFor /\ ToWifi' = LoopLag
      /\ ToMqtt = 2 * LoopLag - passFor /\ ToMqtt' = LoopLag
  BY <1>0, <1>1, ConstantTypes DEF Busy, ToWifi, ToMqtt
<1>3. PICK reach : reach = 2 * LoopLag - passFor
  OBVIOUS
<1>4. /\ reach \in Nat /\ LoopLag <= reach /\ reach <= 2 * LoopLag + 0
      /\ LoopLag \in Nat /\ LoopLag <= 2 * LoopLag + 0 /\ 0 \in Nat /\ 0 <= 0
  BY <1>0, <1>3, ConstantTypes
<1>5. ASSUME NEW link \in Link
      PROVE  /\ Wait(link, LoopLag, 0) <= Wait(link, reach, 0)
             /\ Wait(link, LoopLag, 0) \in Nat /\ Wait(link, reach, 0) \in Nat
  <2>1. Wait(link, LoopLag, 0) <= Wait(link, reach, 0)
    BY <1>4, <1>5, WaitMonotone
  <2>2. Wait(link, LoopLag, 0) \in Nat /\ Wait(link, reach, 0) \in Nat
    BY <1>4, <1>5, WaitBounded
  <2>3. QED
    BY <2>1, <2>2
<1>6. CASE station = "up"
  <2>1. ConnectWithin \in Nat /\ ConnectWithin' = ConnectWithin
    BY ConstantTypes DEF ConnectWithin, Larger
  <2>2. CASE session = "dead"
    BY <1>0, <1>1, <1>2, <2>1, <2>2, <1>6, ConstantTypes DEF Remaining, SessionWithin
  <2>3. CASE session # "dead"
    <3>1. SessionWithin = Wait(mqtt, reach, 0) + ConnectMax
      BY <1>1, <1>2, <1>3, <2>3 DEF SessionWithin
    <3>2. SessionWithin' = Wait(mqtt, LoopLag, 0) + ConnectMax
      BY <1>1, <1>2, <2>3 DEF SessionWithin, Wait, Due
    <3>3. QED
      BY <1>0, <1>1, <1>5, <1>6, <3>1, <3>2, ConstantTypes DEF Remaining
  <2>4. QED
    BY <2>2, <2>3
<1>7. CASE station # "up"
  <2>1. Wait(wifi, ToWifi, Busy) = Wait(wifi, reach, 0)
    BY <1>2, <1>3
  <2>2. Wait(wifi, ToWifi, Busy)' = Wait(wifi, LoopLag, 0)
    BY <1>1, <1>2 DEF Wait, Due
  <2>3. /\ joiningFor \in Nat /\ joiningFor <= AssociationMax
        /\ Cuts(wifi.backoff) \in Nat
    BY <1>0, CutsFall, ConstantTypes DEF Recovering, ReconnectTypeOK, Link
  <2>4. WifiWithin' <= WifiWithin /\ WifiWithin \in Nat /\ WifiWithin' \in Nat
    BY <1>0, <1>1, <1>5, <2>1, <2>2, <2>3, ConstantTypes DEF WifiWithin, Cuts
  <2>5. SessionMax \in Nat /\ SessionMax' = SessionMax
    BY ConstantTypes DEF SessionMax, ConnectWithin, Larger
  <2>6. Remaining = WifiWithin + SessionMax /\ Remaining' = WifiWithin' + SessionMax
    <3>1. station' # "up"
      BY <1>1, <1>7
    <3>2. QED
      BY <1>7, <2>5, <3>1 DEF Remaining
  <2>7. PICK w \in Nat, x \in Nat, m \in Nat :
          w = WifiWithin /\ x = WifiWithin' /\ m = SessionMax
    BY <2>4, <2>5
  <2>8. x <= w
    BY <2>4, <2>7
  <2>9. x + m <= w + m
    BY <2>8
  <2>10. QED
    BY <2>6, <2>7, <2>9
<1>8. QED
  BY <1>6, <1>7

\* A pass opens the session or leaves what remains no longer.
LEMMA PassNotLonger ==
  ASSUME Recovering, Pass, LapIsLong
  PROVE  session' = "open" \/ Remaining' <= Remaining
BY WifiNotLonger, MqttNotLonger, FailureNotLonger, EndNotLonger DEF Pass, Connected

\* A join that ends had SessionMax left.
LEMMA AssociatedNotLonger ==
  ASSUME Recovering, Associated
  PROVE  Remaining' <= Remaining
<1>1. /\ station # "up" /\ station' = "up"
      /\ UNCHANGED <<pc, passFor, mqtt, session, deadFor, attempt>>
  BY DEF Associated, loopVars, sessionVars
<1>2. SessionWithin' = SessionWithin
  BY <1>1 DEF SessionWithin, ToMqtt, Busy, Wait, Due, ConnectWithin
<1>3. SessionWithin \in Nat /\ SessionWithin <= SessionMax /\ WifiWithin \in Nat
  BY SessionBounded, WifiBounded DEF Recovering
<1>4. SessionMax \in Nat
  BY ConstantTypes DEF SessionMax, ConnectWithin, Larger
<1>5. QED
  BY <1>1, <1>2, <1>3, <1>4 DEF Remaining

\* While time passes it grows shorter, wherever the recovery stands.
LEMMA TimeShortens ==
  ASSUME Recovering, TimePasses, LapIsLong
  PROVE  Remaining' + 1 <= Remaining
<1>0. /\ wifi \in Link /\ mqtt \in Link /\ passFor \in Nat /\ passFor <= LoopLag
      /\ attempt \in Attempt /\ attempt.for \in Nat /\ attempt.for <= ConnectMax
      /\ deadFor \in Nat /\ deadFor <= NoticeMax
      /\ joiningFor \in Nat /\ joiningFor <= AssociationMax
  BY ConstantTypes DEF Recovering, ReconnectTypeOK, Attempt
<1>1. /\ UNCHANGED <<pc, station, session>>
      /\ wifi' = Elapsed(wifi) /\ mqtt' = Elapsed(mqtt)
  BY DEF TimePasses
<1>2. /\ Busy \in Nat /\ Busy <= ConnectMax /\ Busy' \in Nat
      /\ Busy' + 1 = Busy \/ (Busy = 0 /\ Busy' = 0)
      /\ ToWifi \in Nat /\ ToWifi >= 1 /\ ToWifi <= 2 * LoopLag + Busy
      /\ ToWifi' = ToWifi - 1
      /\ pc # "connecting" => /\ ToMqtt \in Nat /\ ToMqtt >= 1
                              /\ ToMqtt <= 2 * LoopLag + 0
                              /\ ToMqtt' = ToMqtt - 1
      /\ pc = "connecting" => /\ attempt.for < ConnectMax
                              /\ attempt'.for = attempt.for + 1
                              /\ attempt'.whole = attempt.whole
  <2>1. CASE pc = "connecting"
    <3>1. attempt.for < ConnectMax /\ passFor' = passFor
      BY <2>1 DEF TimePasses, NothingOverdue
    <3>2. attempt'.for = attempt.for + 1 /\ attempt'.whole = attempt.whole
      BY <1>0, <2>1 DEF TimePasses, Attempt
    <3>3. /\ Busy = ConnectMax - attempt.for /\ Busy' = ConnectMax - (attempt.for + 1)
          /\ ToWifi = (Busy + 2 * LoopLag) - passFor
          /\ ToWifi' = (Busy' + 2 * LoopLag) - passFor
      BY <1>1, <2>1, <3>1, <3>2 DEF Busy, ToWifi
    <3>4. QED
      BY <1>0, <2>1, <3>1, <3>2, <3>3, ConstantTypes
  <2>2. CASE pc # "connecting"
    <3>1. passFor < LoopLag /\ passFor' = passFor + 1
      BY <2>2 DEF TimePasses, NothingOverdue
    <3>2. Busy = 0 /\ Busy' = 0
      BY <1>1, <2>2 DEF Busy
    <3>3. QED
      BY <1>0, <1>1, <2>2, <3>1, <3>2, ConstantTypes DEF ToWifi, ToMqtt
  <2>3. QED
    BY <2>1, <2>2
<1>3. ConnectWithin \in Nat /\ ConnectWithin' = ConnectWithin
  BY ConstantTypes DEF ConnectWithin, Larger
<1>4. SessionMax \in Nat /\ SessionMax' = SessionMax
  BY <1>3, ConstantTypes DEF SessionMax
<1>5. wifi'.backoff = wifi.backoff /\ Cuts(wifi.backoff) \in Nat
  BY <1>0, <1>1, AgeGrows, CutsFall, ConstantTypes DEF Link
<1>6. CASE station = "associating"
  <2>1. joiningFor < AssociationMax /\ joiningFor' = joiningFor + 1
    BY <1>6 DEF TimePasses, NothingOverdue
  <2>2. /\ WifiWithin = (AssociationMax - joiningFor) + Cuts(wifi.backoff)
        /\ WifiWithin' = (AssociationMax - joiningFor') + Cuts(wifi.backoff)
    BY <1>1, <1>5, <1>6 DEF WifiWithin, Cuts
  <2>3. Remaining = WifiWithin + SessionMax /\ Remaining' = WifiWithin' + SessionMax
    BY <1>1, <1>4, <1>6 DEF Remaining
  <2>4. QED
    BY <1>0, <1>4, <1>5, <2>1, <2>2, <2>3, ConstantTypes
<1>7. CASE station \notin {"associating", "up"}
  <2>1. PICK reach \in Nat, busy \in Nat, next \in Nat :
          reach = ToWifi /\ busy = Busy /\ next = Busy'
    BY <1>2
  <2>2. Wait(Elapsed(wifi), reach - 1, next) + 1 <= Wait(wifi, reach, busy)
    BY <1>0, <1>2, <2>1, WaitPasses
  <2>3. Wait(wifi, ToWifi, Busy)' = Wait(Elapsed(wifi), reach - 1, next)
    BY <1>1, <1>2, <2>1 DEF Wait, Due
  <2>4. Wait(wifi, reach, busy) \in Nat /\ Wait(Elapsed(wifi), reach - 1, next) \in Nat
    <3>1. reach - 1 \in Nat /\ reach - 1 <= 2 * LoopLag + next
      <4>1. /\ reach >= 1 /\ reach <= 2 * LoopLag + busy
            /\ next + 1 = busy \/ (busy = 0 /\ next = 0)
        BY <1>2, <2>1
      <4>2. QED
        BY <4>1, ConstantTypes
    <3>2. Elapsed(wifi) \in Link
      BY <1>0, LinkStaysInRange
    <3>3. QED
      BY <1>0, <1>2, <2>1, <3>1, <3>2, WaitBounded
  <2>5. /\ WifiWithin = (Wait(wifi, reach, busy) + AssociationMax) + Cuts(wifi.backoff)
        /\ WifiWithin' = (Wait(Elapsed(wifi), reach - 1, next) + AssociationMax)
                           + Cuts(wifi.backoff)
    BY <1>1, <1>5, <1>7, <2>1, <2>3 DEF WifiWithin, Cuts
  <2>6. Remaining = WifiWithin + SessionMax /\ Remaining' = WifiWithin' + SessionMax
    BY <1>1, <1>4, <1>7 DEF Remaining
  <2>7. QED
    BY <1>4, <1>5, <2>2, <2>4, <2>5, <2>6, ConstantTypes
<1>8. CASE station = "up"
  <2>1. Remaining = SessionWithin /\ Remaining' = SessionWithin'
    BY <1>1, <1>8 DEF Remaining
  <2>2. CASE session = "dead" /\ deadFor < NoticeMax
    <3>1. pc # "connecting"
      BY <2>2 DEF Recovering, LinkInv, AttemptAged
    <3>2. deadFor' = deadFor + 1
      BY <1>0, <1>8, <2>2, ConstantTypes DEF TimePasses, Least
    <3>3. SessionWithin = ((NoticeMax - deadFor) + 2 * LoopLag) + ConnectWithin
      BY <2>2 DEF SessionWithin
    <3>4. CASE deadFor + 1 < NoticeMax
      <4>1. SessionWithin' = ((NoticeMax - (deadFor + 1)) + 2 * LoopLag) + ConnectWithin
        BY <1>1, <1>3, <2>2, <3>2, <3>4 DEF SessionWithin
      <4>2. QED
        BY <1>0, <1>3, <2>1, <3>3, <4>1, ConstantTypes
    <3>5. CASE ~(deadFor + 1 < NoticeMax)
      <4>1. SessionWithin' = ToMqtt' + ConnectWithin
        BY <1>1, <1>3, <2>2, <3>2, <3>5 DEF SessionWithin
      <4>2. QED
        BY <1>0, <1>2, <1>3, <2>1, <2>2, <3>1, <3>3, <3>5, <4>1, ConstantTypes
    <3>6. QED
      BY <3>4, <3>5
  <2>3. CASE session = "dead" /\ ~(deadFor < NoticeMax)
    <3>1. pc # "connecting"
      BY <2>3 DEF Recovering, LinkInv, AttemptAged
    <3>2. ~(deadFor' < NoticeMax)
      BY <1>0, <1>8, <2>3, ConstantTypes DEF TimePasses, Least
    <3>3. SessionWithin = ToMqtt + ConnectWithin /\ SessionWithin' = ToMqtt' + ConnectWithin
      BY <1>1, <1>3, <2>3, <3>2 DEF SessionWithin
    <3>4. QED
      BY <1>2, <1>3, <2>1, <3>1, <3>3
  <2>4. CASE session # "dead" /\ pc # "connecting"
    <3>1. PICK reach : reach = ToMqtt
      OBVIOUS
    <3>2. /\ reach \in Nat /\ reach >= 1 /\ reach <= 2 * LoopLag + 0 /\ 0 \in Nat
          /\ 0 <= ConnectMax /\ reach - 1 \in Nat /\ reach - 1 <= 2 * LoopLag + 0
      BY <1>2, <2>4, <3>1, ConstantTypes
    <3>3. Wait(Elapsed(mqtt), reach - 1, 0) + 1 <= Wait(mqtt, reach, 0)
      BY <1>0, <3>2, WaitPasses
    <3>4. Wait(mqtt, reach, 0) \in Nat /\ Wait(Elapsed(mqtt), reach - 1, 0) \in Nat
      BY <1>0, <3>2, LinkStaysInRange, WaitBounded
    <3>5. SessionWithin = Wait(mqtt, reach, 0) + ConnectMax
      BY <2>4, <3>1 DEF SessionWithin
    <3>6. SessionWithin' = Wait(Elapsed(mqtt), reach - 1, 0) + ConnectMax
      BY <1>1, <1>2, <2>4, <3>1 DEF SessionWithin, Wait, Due
    <3>7. QED
      BY <2>1, <3>3, <3>4, <3>5, <3>6, ConstantTypes
  <2>5. CASE session # "dead" /\ pc = "connecting"
    <3>1. SessionWithin' + 1 <= SessionWithin
      BY <1>0, <1>1, <1>2, <2>5, ConstantTypes DEF SessionWithin, Larger
    <3>2. QED
      BY <2>1, <3>1
  <2>6. QED
    BY <2>2, <2>3, <2>4, <2>5
<1>9. QED
  BY <1>6, <1>7, <1>8

-----------------------------------------------------------------------------
(* So every recovery is over in time *)

\* The time since both links answered, and what remains, never exceed RecoveryTime
\* together.
BoundInv == AllPresent /\ session # "open" => stableFor + Remaining <= RecoveryTime

\* The invariant behind the bound, from the first state on.
RecoveryInv == ReconnectTypeOK /\ LinkInv /\ BoundInv

\* The bound is a time.
LEMMA RecoveryTimeIsTime == RecoveryTime \in Nat
BY CutsFall, ConstantTypes
   DEF RecoveryTime, SessionMax, ConnectWithin, Larger

\* It does not change.
LEMMA RecoveryTimeIsRigid == RecoveryTime' = RecoveryTime
BY DEF RecoveryTime, SessionMax, ConnectWithin, Cuts

\* What remains after a step is one no longer than the bound.
LEMMA NextRemainingBounded ==
  ASSUME ReconnectTypeOK', LinkInv'
  PROVE  Remaining' \in Nat /\ Remaining' <= RecoveryTime
<1>1. (ReconnectTypeOK /\ LinkInv => Remaining \in Nat /\ Remaining <= RecoveryTime)'
  BY RemainingBounded, PTL
<1>2. QED
  BY <1>1

\* What breaks leaves nothing whole; what comes back starts a recovery.
LEMMA BoundThroughWorld ==
  ASSUME RecoveryInv, World, LinkInv', ReconnectTypeOK'
  PROVE  BoundInv'
<1>0. /\ stableFor \in Nat /\ stableFor' \in Nat
      /\ present \in [accessPoint : BOOLEAN, broker : BOOLEAN]
  BY ConstantTypes DEF RecoveryInv, ReconnectTypeOK
<1>1. CASE Associated
  <2>1. UNCHANGED <<session, present, stableFor>>
    BY <1>1 DEF Associated, sessionVars, worldVars
  <2>2. SUFFICES ASSUME AllPresent, session # "open"
                 PROVE  stableFor + Remaining' <= RecoveryTime
    BY <2>1, RecoveryTimeIsRigid DEF BoundInv, AllPresent
  <2>3. Recovering
    BY <2>2 DEF Recovering, RecoveryInv
  <2>4. Remaining' <= Remaining /\ stableFor + Remaining <= RecoveryTime
    BY <1>1, <2>2, <2>3, AssociatedNotLonger DEF RecoveryInv, BoundInv
  <2>5. PICK r \in Nat, n \in Nat, s \in Nat, t \in Nat :
          r = Remaining /\ n = Remaining' /\ s = stableFor /\ t = RecoveryTime
    BY <1>0, RecoveryTimeIsTime, RemainingBounded, NextRemainingBounded DEF RecoveryInv
  <2>6. n <= r /\ s + r <= t
    BY <2>4, <2>5
  <2>7. s + n <= t
    BY <2>6
  <2>8. QED
    BY <2>5, <2>7
<1>2. CASE AccessPointVanishes \/ BrokerVanishes
  <2>1. ~ AllPresent'
    BY <1>0, <1>2 DEF AccessPointVanishes, BrokerVanishes, AllPresent
  <2>2. QED
    BY <2>1 DEF BoundInv
<1>3. CASE Return
  <2>1. stableFor' = 0
    BY <1>0, <1>3 DEF Return, AllPresent, RecoveryInv, LinkInv, StableOnlyWhole
  <2>2. PICK n \in Nat, t \in Nat : n = Remaining' /\ t = RecoveryTime /\ n <= t
    BY NextRemainingBounded, RecoveryTimeIsTime
  <2>3. n <= t
    BY <2>2
  <2>4. 0 + n <= t
    BY <2>3
  <2>5. QED
    BY <2>1, <2>2, <2>4, RecoveryTimeIsRigid DEF BoundInv
<1>4. QED
  BY <1>1, <1>2, <1>3 DEF World

\* A step of a pass of loop() opens the session or leaves the bound.
LEMMA BoundThroughPass ==
  ASSUME RecoveryInv, Pass, LapIsLong, LinkInv', ReconnectTypeOK'
  PROVE  BoundInv'
<1>1. UNCHANGED <<present, stableFor>>
  BY DEF Pass, EnsureWifi, EnsureMqtt, WifiUp, WifiAttempt, WifiWait, NoWifi, MqttUp,
         MqttLost, MqttWait, MqttAttempt, Connected, ConnectFailed, EndPass, worldVars
<1>2. session = "open" => session' = "open"
  BY DEF Pass, EnsureWifi, EnsureMqtt, WifiUp, WifiAttempt, WifiWait, NoWifi, MqttUp,
         MqttLost, MqttWait, MqttAttempt, Connected, ConnectFailed, EndPass, sessionVars
<1>3. SUFFICES ASSUME AllPresent, session' # "open"
               PROVE  stableFor + Remaining' <= RecoveryTime
  BY <1>1, RecoveryTimeIsRigid DEF BoundInv, AllPresent
<1>4. Recovering
  BY <1>2, <1>3 DEF Recovering, RecoveryInv
<1>5. Remaining' <= Remaining /\ stableFor + Remaining <= RecoveryTime
  BY <1>3, <1>4, PassNotLonger DEF RecoveryInv, BoundInv, Recovering
<1>6. PICK r \in Nat, n \in Nat, s \in Nat, t \in Nat :
        r = Remaining /\ n = Remaining' /\ s = stableFor /\ t = RecoveryTime
  BY RecoveryTimeIsTime, RemainingBounded, NextRemainingBounded, ConstantTypes
     DEF RecoveryInv, ReconnectTypeOK
<1>7. n <= r /\ s + r <= t
  BY <1>5, <1>6
<1>8. s + n <= t
  BY <1>7
<1>9. QED
  BY <1>6, <1>8

\* So does time: what it adds to the one it takes from the other.
LEMMA BoundThroughTime ==
  ASSUME RecoveryInv, TimePasses, LapIsLong, LinkInv', ReconnectTypeOK'
  PROVE  BoundInv'
<1>1. UNCHANGED <<present, session>>
  BY DEF TimePasses
<1>2. SUFFICES ASSUME AllPresent, session # "open"
               PROVE  stableFor' + Remaining' <= RecoveryTime
  BY <1>1, RecoveryTimeIsRigid DEF BoundInv, AllPresent
<1>3. Recovering
  BY <1>2 DEF Recovering, RecoveryInv
<1>4. Remaining' + 1 <= Remaining /\ stableFor + Remaining <= RecoveryTime
  BY <1>2, <1>3, TimeShortens DEF RecoveryInv, BoundInv
<1>5. PICK r \in Nat, n \in Nat, s \in Nat, t \in Nat, u \in Nat :
        /\ r = Remaining /\ n = Remaining' /\ t = RecoveryTime
        /\ s = stableFor /\ u = stableFor'
  BY RecoveryTimeIsTime, RemainingBounded, NextRemainingBounded, ConstantTypes
     DEF RecoveryInv, ReconnectTypeOK
<1>6. u <= s + 1
  BY <1>2, <1>5, ConstantTypes DEF TimePasses, Least
<1>7. n + 1 <= r /\ s + r <= t
  BY <1>4, <1>5
<1>8. u + n <= t
  BY <1>6, <1>7
<1>9. QED
  BY <1>5, <1>8

\* However long the outage was, in whatever order Wi-Fi and the broker failed and
\* came back and however far each back-off had grown, the device holds a live
\* session once both have answered for longer than RecoveryTime: the longest
\* back-off of each link in turn, the joins that shorter ones may cut short, the
\* attempt that blocks the loop, and the passes between (loop() in main.cpp,
\* EnsureConnected in wifi_manager.h and mqtt_client.h).
THEOREM RecoveryIsBounded ==
  ASSUME LapIsLong, RecoveryMax > RecoveryTime
  PROVE  Spec => []RecoveryBounded
<1>1. Init => RecoveryInv
  <2>1. SUFFICES ASSUME Init PROVE RecoveryInv
    OBVIOUS
  <2>2. ReconnectTypeOK /\ LinkInv
    BY <2>1, TypesAtFirst, LinkInvAtFirst
  <2>3. PICK r \in Nat, t \in Nat : r = Remaining /\ t = RecoveryTime /\ r <= t
    BY <2>2, RemainingBounded, RecoveryTimeIsTime
  <2>4. stableFor = 0
    BY <2>1 DEF Init
  <2>5. 0 + r <= t
    BY <2>3
  <2>6. QED
    BY <2>2, <2>3, <2>4, <2>5 DEF RecoveryInv, BoundInv
<1>2. RecoveryInv /\ [Next]_vars => RecoveryInv'
  <2>1. ASSUME RecoveryInv, UNCHANGED vars
        PROVE  RecoveryInv'
    BY <2>1
       DEF RecoveryInv, ReconnectTypeOK, LinkInv, OpenOverWholePath, AttemptAged,
           AttemptPath, JoinAged, StationFound, StableOnlyWhole, BoundInv, AllPresent,
           Remaining, RecoveryTime, SessionWithin, SessionMax, WifiWithin,
           ConnectWithin, Wait, Due, Cuts, Busy, ToWifi, ToMqtt, vars, loopVars,
           stationVars, sessionVars, worldVars
  <2>2. ASSUME RecoveryInv, Next
        PROVE  RecoveryInv'
    <3>1. CASE Pass
      <4>1. ReconnectTypeOK' /\ LinkInv'
        BY <2>2, <3>1, TypesThroughPass, LinkInvThroughPass DEF RecoveryInv
      <4>2. QED
        BY <2>2, <3>1, <4>1, BoundThroughPass DEF RecoveryInv
    <3>2. CASE World
      <4>1. ReconnectTypeOK' /\ LinkInv'
        BY <2>2, <3>2, TypesThroughWorld, LinkInvThroughWorld DEF RecoveryInv
      <4>2. QED
        BY <2>2, <3>2, <4>1, BoundThroughWorld DEF RecoveryInv
    <3>3. CASE TimePasses
      <4>1. ReconnectTypeOK' /\ LinkInv'
        BY <2>2, <3>3, TypesThroughTime, LinkInvThroughTime DEF RecoveryInv
      <4>2. QED
        BY <2>2, <3>3, <4>1, BoundThroughTime DEF RecoveryInv
    <3>4. QED
      BY <2>2, <3>1, <3>2, <3>3 DEF Next
  <2>3. QED
    BY <2>1, <2>2
<1>3. RecoveryInv => RecoveryBounded
  <2>1. SUFFICES ASSUME RecoveryInv, session # "open"
                 PROVE  ~(stableFor >= RecoveryMax)
    BY DEF RecoveryBounded
  <2>2. stableFor \in Nat
    BY <2>1, ConstantTypes DEF RecoveryInv, ReconnectTypeOK
  <2>3. CASE AllPresent
    <3>1. PICK r \in Nat, t \in Nat : r = Remaining /\ t = RecoveryTime
      BY <2>1, RemainingBounded, RecoveryTimeIsTime DEF RecoveryInv
    <3>2. stableFor + r <= t
      BY <2>1, <2>3, <3>1 DEF RecoveryInv, BoundInv
    <3>3. QED
      BY <2>2, <3>1, <3>2, ConstantTypes
  <2>4. CASE ~ AllPresent
    BY <2>1, <2>4, ConstantTypes DEF RecoveryInv, LinkInv, StableOnlyWhole
  <2>5. QED
    BY <2>3, <2>4
<1>4. QED
  BY <1>1, <1>2, <1>3, PTL DEF Spec

=============================================================================
