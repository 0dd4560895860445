--------------------------- MODULE SimDeviceProofs ---------------------------
(***************************************************************************)
(* What holds of the simulated device and its two threads for every        *)
(* configuration, every reading and every message kept by the broker.      *)
(***************************************************************************)
EXTENDS SimDevice, TLAPS

-----------------------------------------------------------------------------
(* The inductive invariant *)

\* The controller, as far as its fields have a type of their own.
DeviceType ==
  [relayOn : BOOLEAN, lastChangeTime : Nat, relayOnSince : {Never} \cup Nat,
   hasValidReading : BOOLEAN, lastHumidity : Int, failures : 0 .. FailureLimit,
   mqttReceived : BOOLEAN, mqttDesiredOn : BOOLEAN, mqttIssuedAt : {Never} \cup Nat]

MainType == [pc : {"idle", "tick", "decide"}, now : Nat, fresh : BOOLEAN]

NetType ==
  [pc : {"idle", "aged", "received", "desired", "issued"}, message : Messages,
   age : Nat, issuedAt : {Never} \cup Nat]

\* What an earlier life may have left on the retained topics.
PastModes == {past.mode : past \in PastTopics}

\* The types of all variables.
TypesInv ==
  /\ device \in DeviceType
  /\ main \in MainType
  /\ net \in NetType
  /\ connected \in BOOLEAN
  /\ lastFallback \in BOOLEAN
  /\ inbox \in Seq(Messages)
  /\ brokerDesired \in Messages
  /\ brokerActual \in {"none", "on", "off"}
  /\ brokerMode \in {"automatic", "local_fallback"} \cup PastModes
  /\ clock \in Nat
  /\ valueSentAt \in Int

\* No time kept lies in the future, and the timers of the relay agree.
TimesInv ==
  /\ main.now <= clock
  /\ device.lastChangeTime <= clock
  /\ device.mqttIssuedAt <= clock /\ net.issuedAt <= clock
  /\ device.relayOnSince = IF device.relayOn THEN device.lastChangeTime ELSE Never
  /\ ~connected => inbox = <<>>

\* On the device's clock a message of before its start is as old as the device.
Aged(time) == AtLeastZero(time)

\* Messages are delivered in the order in which they were published, from the value
\* in use over the one being written to those on their way and the one retained.
OrderInv ==
  /\ brokerDesired.sentAt <= clock
  /\ \A i \in 1 .. Len(inbox) :
       /\ inbox[i].sentAt <= brokerDesired.sentAt
       /\ \A j \in 1 .. Len(inbox) : i < j => inbox[i].sentAt <= inbox[j].sentAt
       /\ net.pc # "idle" => net.message.sentAt <= inbox[i].sentAt
       /\ Aged(valueSentAt) <= Aged(inbox[i].sentAt)
  /\ net.pc # "idle" =>
       /\ net.message.sentAt <= brokerDesired.sentAt
       /\ Aged(valueSentAt) <= Aged(net.message.sentAt)
  /\ net.pc = "issued" => valueSentAt = net.message.sentAt
  /\ Aged(valueSentAt) <= Aged(brokerDesired.sentAt)

\* The age of the message at hand was read at most ReadLag ago, and the time of issue
\* it gives is late by at most as much.
IssuedInv ==
  /\ net.pc = "aged" => AgedAt <= clock /\ clock - AgedAt <= ReadLag
  /\ net.pc \in {"received", "desired", "issued"} =>
       net.issuedAt <= Aged(net.message.sentAt) + ReadLag

\* The issue time kept is not later than that of the value it stands beside, but for
\* the time between the two clocks read, and a tick that found it fresh still would.
FreshInv ==
  /\ device.mqttIssuedAt <= Aged(valueSentAt) + ReadLag
  /\ main.pc = "decide" /\ main.fresh =>
       main.now - Aged(valueSentAt) <= StaleTimeout + ReadLag

\* The mode remembered is the one retained, unless that is from an earlier life.
ModeInv ==
  IF lastFallback THEN brokerMode \in {"local_fallback"} \cup PastModes
                  ELSE brokerMode = "automatic"

SimInv == TypesInv /\ TimesInv /\ OrderInv /\ IssuedInv /\ FreshInv /\ ModeInv

-----------------------------------------------------------------------------
(* Types *)

\* The configuration has its types.
LEMMA Configured ==
  /\ FanOnPercent \in Int /\ FanOffPercent \in Int
  /\ HumidityMin \in Int /\ HumidityMax \in Int
  /\ MinFanOn \in Nat /\ MinFanOff \in Nat /\ StaleTimeout \in Nat
  /\ FailureLimit \in Nat /\ MaxRuntime \in Nat /\ MaxRuntime > 0
  /\ HoldLastState \in BOOLEAN
  /\ ReadLag \in Nat
  BY DeviceAssumption, SimAssumption

\* The fields of the controller that the proofs compute with.
LEMMA DeviceFields ==
  ASSUME NEW d \in DeviceType
  PROVE  /\ d.relayOn \in BOOLEAN
         /\ d.lastChangeTime \in Nat
         /\ d.relayOnSince \in {Never} \cup Nat
         /\ d.failures \in 0 .. FailureLimit
         /\ d.mqttDesiredOn \in BOOLEAN
         /\ d.mqttIssuedAt \in Int
         /\ d.mqttIssuedAt \in {Never} \cup Nat
  BY DEF DeviceType, Never

\* The local variables of the two threads.
LEMMA ThreadFields ==
  ASSUME TypesInv
  PROVE  /\ main.pc \in {"idle", "tick", "decide"} /\ main.now \in Nat
         /\ main.fresh \in BOOLEAN
         /\ net.pc \in {"idle", "aged", "received", "desired", "issued"}
         /\ net.message \in Messages /\ net.age \in Nat
         /\ net.issuedAt \in {Never} \cup Nat /\ net.issuedAt \in Int
  BY DEF TypesInv, MainType, NetType, Never

\* A message has the types of its fields.
LEMMA MessageFields ==
  ASSUME NEW message \in Messages
  PROVE  message.on \in BOOLEAN /\ message.sentAt \in Int
  BY DEF Messages

\* A reading keeps the controller in its type and touches neither the relay nor what
\* the network thread writes.
LEMMA SensorType ==
  ASSUME NEW d \in DeviceType, NEW reading
  PROVE  LET new == OnSensorReading(d, reading)
         IN  /\ new \in DeviceType
             /\ new.relayOn = d.relayOn
             /\ new.lastChangeTime = d.lastChangeTime
             /\ new.relayOnSince = d.relayOnSince
             /\ new.mqttIssuedAt = d.mqttIssuedAt
<1>1. CASE InRange(reading)
  <2>1. reading.humidity \in Int BY <1>1, Configured DEF InRange
  <2>2. OnSensorReading(d, reading) =
          [d EXCEPT !.failures = 0, !.hasValidReading = TRUE,
                    !.lastHumidity = reading.humidity]
    BY <1>1 DEF OnSensorReading
  <2>3. 0 \in 0 .. FailureLimit BY Configured
  <2>4. QED BY <2>1, <2>2, <2>3 DEF DeviceType
<1>2. CASE ~InRange(reading)
  <2> DEFINE count == IF d.failures < FailureLimit THEN d.failures + 1 ELSE d.failures
  <2>1. OnSensorReading(d, reading) = [d EXCEPT !.failures = count]
    BY <1>2 DEF OnSensorReading
  <2>2. count \in 0 .. FailureLimit BY DeviceFields, Configured
  <2> HIDE DEF count
  <2>3. QED BY <2>1, <2>2 DEF DeviceType
<1>3. QED BY <1>1, <1>2

\* What a tick decides is on or off.
LEMMA OutcomeType ==
  ASSUME NEW d \in DeviceType, NEW fresh \in BOOLEAN, NEW now \in Nat
  PROVE  Outcome(d, fresh, now).on \in BOOLEAN
<1>1. d.relayOn \in BOOLEAN /\ d.mqttDesiredOn \in BOOLEAN BY DeviceFields
<1>2. Candidate(d, fresh).on \in BOOLEAN BY <1>1, Configured DEF Candidate
<1>3. QED BY <1>1, <1>2 DEF Outcome

\* A tick keeps the controller in its type; it changes the relay and both timers, or
\* nothing, and never what the network thread writes.
LEMMA TickedType ==
  ASSUME NEW d \in DeviceType, NEW fresh \in BOOLEAN, NEW now \in Nat
  PROVE  LET new == Ticked(d, fresh, now)
             on  == Outcome(d, fresh, now).on
         IN  /\ new \in DeviceType
             /\ new.relayOn = on
             /\ new.mqttIssuedAt = d.mqttIssuedAt
             /\ on = d.relayOn => new = d
             /\ on # d.relayOn => /\ new.lastChangeTime = now
                                  /\ new.relayOnSince = IF on THEN now ELSE Never
<1> DEFINE on == Outcome(d, fresh, now).on
           since == IF on THEN now ELSE Never
<1>1. on \in BOOLEAN BY OutcomeType
<1>2. since \in {Never} \cup Nat OBVIOUS
<1>3. CASE on = d.relayOn
  <2>1. Ticked(d, fresh, now) = d BY <1>3 DEF Ticked
  <2>2. QED BY <1>3, <2>1
<1>4. CASE on # d.relayOn
  <2>1. Ticked(d, fresh, now) =
          [d EXCEPT !.relayOn = on, !.lastChangeTime = now, !.relayOnSince = since]
    BY <1>4 DEF Ticked
  <2> HIDE DEF on, since
  <2>2. Ticked(d, fresh, now) \in DeviceType BY <1>1, <1>2, <2>1 DEF DeviceType
  <2>3. /\ Ticked(d, fresh, now).relayOn = on
        /\ Ticked(d, fresh, now).lastChangeTime = now
        /\ Ticked(d, fresh, now).relayOnSince = since
        /\ Ticked(d, fresh, now).mqttIssuedAt = d.mqttIssuedAt
    BY <2>1 DEF DeviceType
  <2>4. QED BY <1>4, <2>2, <2>3 DEF on, since
<1>5. QED BY <1>3, <1>4

\* Only the cutoff and a finished dwell let a tick change the relay.
LEMMA TickedDwell ==
  ASSUME NEW d \in DeviceType, NEW fresh \in BOOLEAN, NEW now \in Nat,
         d.relayOnSince = IF d.relayOn THEN d.lastChangeTime ELSE Never,
         Outcome(d, fresh, now).on # d.relayOn
  PROVE  now - d.lastChangeTime >=
           IF ~d.relayOn THEN MinFanOff
           ELSE IF MinFanOn < MaxRuntime THEN MinFanOn ELSE MaxRuntime
<1> DEFINE elapsed == now - d.lastChangeTime
<1>1. elapsed \in Int /\ d.relayOn \in BOOLEAN BY DeviceFields
<1>2. CASE MaxRuntimeExceeded(d, now)
  <2>1. d.relayOn /\ elapsed >= MaxRuntime BY <1>2 DEF MaxRuntimeExceeded
  <2> HIDE DEF elapsed
  <2>2. elapsed >= IF MinFanOn < MaxRuntime THEN MinFanOn ELSE MaxRuntime
    BY <1>1, <2>1, Configured
  <2>3. QED BY <2>1, <2>2 DEF elapsed
<1>3. CASE ~MaxRuntimeExceeded(d, now)
  <2>1. ~DwellHolds(d, now) BY <1>3 DEF Outcome
  <2>2. ~(elapsed < IF d.relayOn THEN MinFanOn ELSE MinFanOff)
    BY <2>1 DEF DwellHolds
  <2> HIDE DEF elapsed
  <2>3. elapsed >= IF ~d.relayOn THEN MinFanOff
                   ELSE IF MinFanOn < MaxRuntime THEN MinFanOn ELSE MaxRuntime
    BY <1>1, <2>2, Configured
  <2>4. QED BY <2>3 DEF elapsed
<1>4. QED BY <1>2, <1>3

\* The oldest message under way and the rest of them.
LEMMA InboxSplit ==
  ASSUME TypesInv, inbox # <<>>
  PROVE  /\ Head(inbox) = inbox[1] /\ Head(inbox) \in Messages
         /\ 1 \in 1 .. Len(inbox)
         /\ Tail(inbox) \in Seq(Messages)
         /\ Len(inbox) \in Nat
         /\ \A i \in 1 .. Len(Tail(inbox)) :
              i + 1 \in 1 .. Len(inbox) /\ Tail(inbox)[i] = inbox[i + 1]
  BY DEF TypesInv

\* A time counted from the start of the device is one.
LEMMA AtLeastZeroType ==
  ASSUME NEW n \in Int
  PROVE  AtLeastZero(n) \in Nat /\ n <= AtLeastZero(n) /\ (n > 0 => AtLeastZero(n) = n)
  BY DEF AtLeastZero

\* The message taken over, with its age.
LEMMA MessageTaken ==
  ASSUME TypesInv, TakeMessage
  PROVE  LET message == Head(inbox)
         IN  /\ inbox # <<>> /\ net.pc = "idle" /\ message \in Messages
             /\ net' \in NetType
             /\ net'.pc = "aged" /\ net'.message = message
             /\ net'.age = AtLeastZero(clock - message.sentAt)
             /\ net'.issuedAt = Never
             /\ inbox' = Tail(inbox)
<1> DEFINE message == Head(inbox)
           age == AtLeastZero(clock - message.sentAt)
<1>1. inbox # <<>> /\ net.pc = "idle" /\ inbox' = Tail(inbox) BY DEF TakeMessage
<1>2. message \in Messages BY <1>1, InboxSplit
<1>3. clock \in Nat /\ message.sentAt \in Int BY <1>2, MessageFields DEF TypesInv
<1>4. age \in Nat BY <1>3, AtLeastZeroType
<1>5. net' = [pc |-> "aged", message |-> message, age |-> age, issuedAt |-> Never]
  BY DEF TakeMessage, AgeOf
<1> HIDE DEF message, age
<1>6. net' \in NetType BY <1>2, <1>4, <1>5 DEF NetType
<1>7. /\ net'.pc = "aged" /\ net'.message = message /\ net'.age = age
      /\ net'.issuedAt = Never
  BY <1>5
<1>8. QED BY <1>1, <1>2, <1>6, <1>7 DEF message, age

\* Its time of issue on the device's clock.
LEMMA MessageDated ==
  ASSUME TypesInv, CallOnMqttDesired
  PROVE  /\ net.pc = "aged"
         /\ net' \in NetType
         /\ net'.pc = "received" /\ net'.message = net.message
         /\ net'.issuedAt = AtLeastZero(clock - net.age)
         /\ net'.issuedAt \in Nat /\ net'.issuedAt <= clock
<1> DEFINE issued == AtLeastZero(clock - net.age)
<1>1. net \in NetType /\ net.age \in Nat /\ clock \in Nat
  BY ThreadFields DEF TypesInv
<1>2. issued \in Nat /\ issued <= clock BY <1>1 DEF AtLeastZero
<1>3. net.pc = "aged" /\ net' = [net EXCEPT !.pc = "received", !.issuedAt = issued]
  BY DEF CallOnMqttDesired, IssuedOnClock
<1> HIDE DEF issued
<1>4. net' \in NetType BY <1>1, <1>2, <1>3 DEF NetType
<1>5. net'.pc = "received" /\ net'.message = net.message /\ net'.issuedAt = issued
  BY <1>1, <1>3 DEF NetType
<1>6. QED BY <1>2, <1>3, <1>4, <1>5 DEF issued

\* The network thread's three assignments keep both their types.
LEMMA Assigned ==
  ASSUME TypesInv
  PROVE  /\ SetReceived =>
              /\ device' \in DeviceType /\ net' \in NetType
              /\ device' = [device EXCEPT !.mqttReceived = TRUE]
              /\ net'.pc = "desired" /\ net.pc = "received"
              /\ net'.message = net.message /\ net'.issuedAt = net.issuedAt
         /\ SetDesired =>
              /\ device' \in DeviceType /\ net' \in NetType
              /\ device' = [device EXCEPT !.mqttDesiredOn = net.message.on]
              /\ net'.pc = "issued" /\ net.pc = "desired"
              /\ net'.message = net.message /\ net'.issuedAt = net.issuedAt
         /\ SetIssuedAt =>
              /\ device' \in DeviceType /\ net' \in NetType
              /\ device' = [device EXCEPT !.mqttIssuedAt = net.issuedAt]
              /\ net'.pc = "idle" /\ net.pc = "issued"
              /\ net'.issuedAt = Never
<1>1. device \in DeviceType /\ net \in NetType BY DEF TypesInv
<1>2. net.message.on \in BOOLEAN /\ net.issuedAt \in {Never} \cup Nat
  BY ThreadFields, MessageFields
<1>3. ASSUME SetReceived
      PROVE  /\ device' \in DeviceType /\ net' \in NetType
             /\ net'.pc = "desired"
             /\ net'.message = net.message /\ net'.issuedAt = net.issuedAt
  <2>1. device' = [device EXCEPT !.mqttReceived = TRUE]
        /\ net' = [net EXCEPT !.pc = "desired"]
    BY <1>3 DEF SetReceived
  <2>2. device' \in DeviceType BY <1>1, <2>1 DEF DeviceType
  <2>3. QED BY <1>1, <2>1, <2>2 DEF NetType
<1>4. ASSUME SetDesired
      PROVE  /\ device' \in DeviceType /\ net' \in NetType
             /\ net'.pc = "issued"
             /\ net'.message = net.message /\ net'.issuedAt = net.issuedAt
  <2>1. device' = [device EXCEPT !.mqttDesiredOn = net.message.on]
        /\ net' = [net EXCEPT !.pc = "issued"]
    BY <1>4 DEF SetDesired
  <2>2. device' \in DeviceType BY <1>1, <1>2, <2>1 DEF DeviceType
  <2>3. QED BY <1>1, <2>1, <2>2 DEF NetType
<1>5. ASSUME SetIssuedAt
      PROVE  /\ device' \in DeviceType /\ net' \in NetType
             /\ net'.pc = "idle" /\ net'.issuedAt = Never
  <2>1. device' = [device EXCEPT !.mqttIssuedAt = net.issuedAt] /\ net' = NetIdle
    BY <1>5 DEF SetIssuedAt
  <2>2. device' \in DeviceType BY <1>1, <1>2, <2>1 DEF DeviceType
  <2>3. NetIdle \in NetType BY DEF NetIdle, NetType, NoMessage, Messages, Never
  <2>4. QED BY <2>1, <2>2, <2>3 DEF NetIdle
<1>6. QED BY <1>3, <1>4, <1>5 DEF SetReceived, SetDesired, SetIssuedAt

\* The end of a tick.
LEMMA FinishEffect ==
  ASSUME TypesInv, FinishTick
  PROVE  LET on == Outcome(device, main.fresh, main.now).on
         IN  /\ device' \in DeviceType
             /\ device'.relayOn = on
             /\ device'.mqttIssuedAt = device.mqttIssuedAt
             /\ on = device.relayOn => device' = device
             /\ on # device.relayOn =>
                  /\ device'.lastChangeTime = main.now
                  /\ device'.relayOnSince = IF on THEN main.now ELSE Never
             /\ lastFallback' \in BOOLEAN
             /\ brokerActual' \in {"none", "on", "off"}
             /\ brokerMode' \in {"automatic", "local_fallback"} \cup PastModes
             /\ main' = MainIdle /\ main' \in MainType
             /\ IF connected
                  THEN /\ lastFallback' = ~main.fresh
                       /\ brokerMode' = IF lastFallback' # lastFallback THEN Mode
                                                                        ELSE brokerMode
                  ELSE UNCHANGED <<lastFallback, brokerMode>>
<1>1. device \in DeviceType /\ main.fresh \in BOOLEAN /\ main.now \in Nat
  BY ThreadFields DEF TypesInv
<1>2. device' = Ticked(device, main.fresh, main.now) /\ main' = MainIdle
  BY DEF FinishTick
<1>3. PublishStateUpdates(device'.relayOn # device.relayOn, device'.relayOn)
  BY DEF FinishTick
<1>4. Mode \in {"automatic", "local_fallback"} BY DEF Mode
<1>5. /\ lastFallback' \in BOOLEAN
      /\ brokerActual' \in {"none", "on", "off"}
      /\ brokerMode' \in {"automatic", "local_fallback"} \cup PastModes
      /\ IF connected
           THEN /\ lastFallback' = ~main.fresh
                /\ brokerMode' = IF lastFallback' # lastFallback THEN Mode ELSE brokerMode
           ELSE UNCHANGED <<lastFallback, brokerMode>>
  BY <1>1, <1>3, <1>4 DEF PublishStateUpdates, TypesInv
<1>6. MainIdle \in MainType BY DEF MainIdle, MainType
<1>7. QED BY <1>1, <1>2, <1>5, <1>6, TickedType

\* The start of a tick, and its first look at what the network thread writes.
LEMMA TickBegins ==
  ASSUME TypesInv
  PROVE  /\ TickOnce \/ PublishReading =>
              /\ main' \in MainType /\ main'.pc = "tick" /\ main'.now = clock
              /\ device' \in DeviceType
              /\ device'.relayOn = device.relayOn
              /\ device'.lastChangeTime = device.lastChangeTime
              /\ device'.relayOnSince = device.relayOnSince
              /\ device'.mqttIssuedAt = device.mqttIssuedAt
         /\ CheckFresh =>
              /\ main' \in MainType /\ main'.pc = "decide" /\ main'.now = main.now
              /\ main'.fresh =>
                   /\ device.mqttIssuedAt # Never
                   /\ main.now - device.mqttIssuedAt <= StaleTimeout
<1>1. device \in DeviceType /\ clock \in Nat /\ main \in MainType BY DEF TypesInv
<1>2. [pc |-> "tick", now |-> clock, fresh |-> FALSE] \in MainType
  BY <1>1 DEF MainType
<1>3. ASSUME TickOnce \/ PublishReading
      PROVE  /\ main' \in MainType /\ main'.pc = "tick" /\ main'.now = clock
             /\ device' \in DeviceType
             /\ device'.relayOn = device.relayOn
             /\ device'.lastChangeTime = device.lastChangeTime
             /\ device'.relayOnSince = device.relayOnSince
             /\ device'.mqttIssuedAt = device.mqttIssuedAt
  <2>1. main' = [pc |-> "tick", now |-> clock, fresh |-> FALSE]
    BY <1>3 DEF TickOnce, PublishReading, PublishSample
  <2>2. main' \in MainType /\ main'.pc = "tick" /\ main'.now = clock
    BY <1>2, <2>1
  <2>3. CASE TickOnce BY <1>1, <2>2, <2>3 DEF TickOnce
  <2>4. CASE PublishReading
    <3>1. PICK reading : device' = OnSensorReading(device, reading)
      BY <2>4 DEF PublishReading, PublishSample
    <3>2. QED BY <1>1, <2>2, <3>1, SensorType
  <2>5. QED BY <1>3, <2>3, <2>4
<1>4. ASSUME CheckFresh
      PROVE  /\ main' \in MainType /\ main'.pc = "decide" /\ main'.now = main.now
             /\ main'.fresh =>
                  /\ device.mqttIssuedAt # Never
                  /\ main.now - device.mqttIssuedAt <= StaleTimeout
  <2> DEFINE fresh == MqttFresh(device, main.now)
  <2>1. main' = [main EXCEPT !.pc = "decide", !.fresh = fresh] BY <1>4 DEF CheckFresh
  <2>2. fresh \in BOOLEAN
    BY <1>1 DEF MqttFresh, DeviceType
  <2>3. fresh => /\ device.mqttIssuedAt # Never
                 /\ main.now - device.mqttIssuedAt <= StaleTimeout
    BY DEF MqttFresh
  <2> HIDE DEF fresh
  <2>4. /\ main' \in MainType /\ main'.pc = "decide" /\ main'.now = main.now
        /\ main'.fresh = fresh
    BY <1>1, <2>1, <2>2 DEF MainType
  <2>5. QED BY <2>3, <2>4
<1>5. QED BY <1>3, <1>4

\* A step of the world: what the broker keeps and what is on its way.
LEMMA WorldEffect ==
  ASSUME TypesInv
  PROVE  /\ ServicePublish =>
              /\ brokerDesired' \in Messages /\ brokerDesired'.sentAt = clock
              /\ inbox' = IF connected THEN Append(inbox, brokerDesired') ELSE inbox
              /\ inbox' \in Seq(Messages)
         /\ Disconnect => ~connected' /\ inbox' = <<>>
         /\ Reconnect => /\ connected' /\ connected' \in BOOLEAN
                         /\ inbox' = <<>> \/ inbox' = <<brokerDesired>>
                         /\ inbox' \in Seq(Messages)
<1>1. /\ clock \in Nat /\ inbox \in Seq(Messages) /\ brokerDesired \in Messages
  BY DEF TypesInv
<1>2. ASSUME ServicePublish
      PROVE  /\ brokerDesired' \in Messages /\ brokerDesired'.sentAt = clock
             /\ inbox' = IF connected THEN Append(inbox, brokerDesired') ELSE inbox
             /\ inbox' \in Seq(Messages)
  <2>1. PICK on \in BOOLEAN : brokerDesired' = [on |-> on, sentAt |-> clock]
    BY <1>2 DEF ServicePublish
  <2>2. brokerDesired' \in Messages /\ brokerDesired'.sentAt = clock
    BY <1>1, <2>1 DEF Messages
  <2>3. inbox' = IF connected THEN Append(inbox, brokerDesired') ELSE inbox
    BY <1>2 DEF ServicePublish
  <2>4. Append(inbox, brokerDesired') \in Seq(Messages) BY <1>1, <2>2
  <2>5. QED BY <1>1, <2>2, <2>3, <2>4
<1>3. <<>> \in Seq(Messages) /\ <<brokerDesired>> \in Seq(Messages) BY <1>1
<1>4. QED BY <1>2, <1>3 DEF Disconnect, Reconnect

\* Every step keeps the types.
LEMMA TypesNext == TypesInv /\ [SimNext]_simVars => TypesInv'
<1> SUFFICES ASSUME TypesInv, [SimNext]_simVars PROVE TypesInv' OBVIOUS
<1> USE DEF brokerVars
<1>1. CASE PublishReading \/ TickOnce
  BY <1>1, TickBegins DEF PublishReading, PublishSample, TickOnce, TypesInv
<1>2. CASE CheckFresh BY <1>2, TickBegins DEF CheckFresh, TypesInv
<1>3. CASE FinishTick BY <1>3, FinishEffect DEF FinishTick, TypesInv
<1>4. CASE Disconnect
  <2>1. <<>> \in Seq(Messages) OBVIOUS
  <2>2. QED BY <1>4, <2>1 DEF Disconnect, TypesInv
<1>5. CASE Reconnect BY <1>5, WorldEffect DEF Reconnect, TypesInv
<1>6. CASE TakeMessage
  <2>1. inbox' \in Seq(Messages) BY <1>6, MessageTaken, InboxSplit
  <2>2. net' \in NetType BY <1>6, MessageTaken
  <2>3. QED BY <1>6, <2>1, <2>2 DEF TakeMessage, TypesInv
<1>14. CASE CallOnMqttDesired
  <2>1. net' \in NetType BY <1>14, MessageDated
  <2>2. QED BY <1>14, <2>1 DEF CallOnMqttDesired, TypesInv
<1>7. CASE SetReceived BY <1>7, Assigned DEF SetReceived, TypesInv
<1>8. CASE SetDesired
  <2>1. valueSentAt' \in Int BY <1>8, ThreadFields, MessageFields DEF SetDesired
  <2>2. QED BY <1>8, <2>1, Assigned DEF SetDesired, TypesInv
<1>9. CASE SetIssuedAt BY <1>9, Assigned DEF SetIssuedAt, TypesInv
<1>10. CASE ServicePublish BY <1>10, WorldEffect DEF ServicePublish, TypesInv
<1>11. CASE TimePasses BY <1>11 DEF TimePasses, TypesInv
<1>12. CASE UNCHANGED simVars BY <1>12 DEF simVars, TypesInv
<1>13. QED BY <1>1, <1>2, <1>3, <1>4, <1>5, <1>6, <1>7, <1>8, <1>9, <1>10, <1>11,
              <1>12, <1>14 DEF SimNext

\* The types hold at the start.
LEMMA TypesInit == SimInit => TypesInv
<1> SUFFICES ASSUME SimInit PROVE TypesInv OBVIOUS
<1>1. 0 \in 0 .. FailureLimit BY Configured
<1>2. NewController \in DeviceType BY <1>1 DEF NewController, DeviceType
<1>3. MainIdle \in MainType BY DEF MainIdle, MainType
<1>4. NetIdle \in NetType BY DEF NetIdle, NetType, NoMessage, Messages, Never
<1>5. brokerDesired \in Messages BY SimAssumption DEF SimInit, Messages
<1>6. <<>> \in Seq(Messages) OBVIOUS
<1>7. /\ device = NewController /\ main = MainIdle /\ net = NetIdle /\ inbox = <<>>
      /\ clock = 0 /\ valueSentAt = 0
      /\ \E past \in PastTopics : brokerActual = past.actual /\ brokerMode = past.mode
  BY DEF SimInit
<1>11. brokerActual \in {"none", "on", "off"} /\ brokerMode \in PastModes
  BY <1>7, PastAssumption DEF PastModes
<1>8. connected = FALSE /\ lastFallback = TRUE BY DEF SimInit
<1>9. connected \in BOOLEAN /\ lastFallback \in BOOLEAN BY <1>8
<1>10. QED BY <1>2, <1>3, <1>4, <1>5, <1>6, <1>7, <1>9, <1>11 DEF TypesInv

-----------------------------------------------------------------------------
(* Times *)

\* No step moves a time kept beyond the clock.
LEMMA TimesNext ==
  ASSUME TypesInv, TimesInv, [SimNext]_simVars
  PROVE  TimesInv'
<1> USE DEF TimesInv
<1>0. /\ clock \in Nat /\ main.now \in Nat /\ net.issuedAt \in Int
      /\ device.lastChangeTime \in Nat /\ device.mqttIssuedAt \in Int
      /\ device.relayOn \in BOOLEAN
  BY ThreadFields, DeviceFields DEF TypesInv
<1>1. CASE PublishReading \/ TickOnce
  <2>1. /\ main'.now = clock
        /\ device'.relayOn = device.relayOn
        /\ device'.lastChangeTime = device.lastChangeTime
        /\ device'.relayOnSince = device.relayOnSince
        /\ device'.mqttIssuedAt = device.mqttIssuedAt
    BY <1>1, TickBegins
  <2>2. UNCHANGED <<net, connected, inbox, clock>>
    BY <1>1 DEF PublishReading, PublishSample, TickOnce
  <2>3. QED BY <1>0, <2>1, <2>2
<1>2. CASE CheckFresh
  <2>1. main'.now = main.now /\ UNCHANGED <<device, net, connected, inbox, clock>>
    BY <1>2, TickBegins DEF CheckFresh
  <2>2. QED BY <2>1
<1>3. CASE FinishTick
  <2>1. UNCHANGED <<net, connected, inbox, clock>> /\ main'.now = 0
    BY <1>3 DEF FinishTick, MainIdle
  <2>2. device'.mqttIssuedAt = device.mqttIssuedAt BY <1>3, FinishEffect
  <2>3. /\ device'.lastChangeTime <= clock
        /\ device'.relayOnSince = IF device'.relayOn THEN device'.lastChangeTime
                                                     ELSE Never
    <3> DEFINE on == Outcome(device, main.fresh, main.now).on
    <3>1. /\ device'.relayOn = on
          /\ on = device.relayOn => device' = device
          /\ on # device.relayOn =>
               /\ device'.lastChangeTime = main.now
               /\ device'.relayOnSince = IF on THEN main.now ELSE Never
      BY <1>3, FinishEffect
    <3> HIDE DEF on
    <3>2. CASE on = device.relayOn BY <3>1, <3>2
    <3>3. CASE on # device.relayOn BY <3>1, <3>3
    <3>4. QED BY <3>2, <3>3
  <2>4. QED BY <1>0, <2>1, <2>2, <2>3
<1>4. CASE Disconnect BY <1>4 DEF Disconnect
<1>5. CASE Reconnect BY <1>5 DEF Reconnect
<1>6. CASE TakeMessage
  <2>1. net'.issuedAt = Never /\ inbox # <<>> BY <1>6, MessageTaken
  <2>2. UNCHANGED <<device, main, connected, clock>> BY <1>6 DEF TakeMessage
  <2>3. Never <= clock BY <1>0 DEF Never
  <2>4. QED BY <2>1, <2>2, <2>3
<1>14. CASE CallOnMqttDesired
  <2>1. net'.issuedAt <= clock BY <1>14, MessageDated
  <2>2. UNCHANGED <<device, main, connected, inbox, clock>> BY <1>14 DEF CallOnMqttDesired
  <2>3. QED BY <2>1, <2>2
<1>7. CASE SetReceived
  <2>1. device' = [device EXCEPT !.mqttReceived = TRUE] /\ net'.issuedAt = net.issuedAt
    BY <1>7, Assigned
  <2>2. /\ device'.relayOn = device.relayOn
        /\ device'.lastChangeTime = device.lastChangeTime
        /\ device'.relayOnSince = device.relayOnSince
        /\ device'.mqttIssuedAt = device.mqttIssuedAt
    BY <2>1 DEF TypesInv, DeviceType
  <2>3. QED BY <1>7, <2>1, <2>2 DEF SetReceived
<1>8. CASE SetDesired
  <2>1. /\ device' = [device EXCEPT !.mqttDesiredOn = net.message.on]
        /\ net'.issuedAt = net.issuedAt
    BY <1>8, Assigned
  <2>2. /\ device'.relayOn = device.relayOn
        /\ device'.lastChangeTime = device.lastChangeTime
        /\ device'.relayOnSince = device.relayOnSince
        /\ device'.mqttIssuedAt = device.mqttIssuedAt
    BY <2>1 DEF TypesInv, DeviceType
  <2>3. QED BY <1>8, <2>1, <2>2 DEF SetDesired
<1>9. CASE SetIssuedAt
  <2>1. /\ device' = [device EXCEPT !.mqttIssuedAt = net.issuedAt]
        /\ net'.issuedAt = Never
    BY <1>9, Assigned
  <2>2. /\ device'.relayOn = device.relayOn
        /\ device'.lastChangeTime = device.lastChangeTime
        /\ device'.relayOnSince = device.relayOnSince
        /\ device'.mqttIssuedAt = net.issuedAt
    BY <2>1 DEF TypesInv, DeviceType
  <2>3. Never <= clock BY <1>0 DEF Never
  <2>4. QED BY <1>9, <2>1, <2>2, <2>3 DEF SetIssuedAt
<1>10. CASE ServicePublish
  <2>1. UNCHANGED <<device, main, net, connected, clock>> BY <1>10 DEF ServicePublish
  <2>2. ~connected => inbox' = inbox BY <1>10, WorldEffect
  <2>3. QED BY <2>1, <2>2
<1>11. CASE TimePasses
  <2>1. clock' = clock + 1 /\ UNCHANGED <<device, main, net, connected, inbox>>
    BY <1>11 DEF TimePasses
  <2>2. QED BY <1>0, <2>1
<1>12. CASE UNCHANGED simVars BY <1>12 DEF simVars
<1>13. QED BY <1>1, <1>2, <1>3, <1>4, <1>5, <1>6, <1>7, <1>8, <1>9, <1>10, <1>11,
              <1>12, <1>14 DEF SimNext

\* The mode remembered stays the one retained.
LEMMA ModeNext ==
  ASSUME TypesInv, ModeInv, [SimNext]_simVars
  PROVE  ModeInv'
<1>1. CASE FinishTick
  <2>1. /\ lastFallback' \in BOOLEAN
        /\ IF connected
             THEN /\ lastFallback' = ~main.fresh
                  /\ brokerMode' = IF lastFallback' # lastFallback THEN Mode ELSE brokerMode
             ELSE UNCHANGED <<lastFallback, brokerMode>>
    BY <1>1, FinishEffect
  <2>2. lastFallback \in BOOLEAN /\ main.fresh \in BOOLEAN BY ThreadFields DEF TypesInv
  <2>3. CASE ~connected BY <2>1, <2>3 DEF ModeInv
  <2>4. CASE connected BY <2>1, <2>2, <2>4 DEF ModeInv, Mode
  <2>5. QED BY <2>3, <2>4
<1>2. CASE ~FinishTick
  <2>1. UNCHANGED <<lastFallback, brokerMode>>
    BY <1>2 DEF SimNext, PublishReading, PublishSample, TickOnce, CheckFresh, Disconnect,
       Reconnect, TakeMessage, CallOnMqttDesired, SetReceived, SetDesired, SetIssuedAt,
       ServicePublish, TimePasses, simVars, brokerVars
  <2>2. QED BY <2>1 DEF ModeInv
<1>3. QED BY <1>1, <1>2

-----------------------------------------------------------------------------
(* The order of the messages *)

\* Ages keep the order of the times of issue.
LEMMA AgedMonotone ==
  ASSUME NEW a \in Int, NEW b \in Int
  PROVE  /\ Aged(a) \in Nat
         /\ a <= b => Aged(a) <= Aged(b)
         /\ a > 0 => Aged(a) = a
         /\ a <= 0 => Aged(a) = 0
  BY DEF Aged, AtLeastZero

\* The types that the order is about.
LEMMA SentTypes ==
  ASSUME TypesInv
  PROVE  /\ clock \in Nat /\ valueSentAt \in Int
         /\ brokerDesired.sentAt \in Int /\ net.message.sentAt \in Int
         /\ Len(inbox) \in Nat /\ inbox \in Seq(Messages)
         /\ \A i \in 1 .. Len(inbox) : inbox[i].sentAt \in Int
<1>1. inbox \in Seq(Messages) /\ brokerDesired \in Messages BY DEF TypesInv
<1>2. \A i \in 1 .. Len(inbox) : inbox[i] \in Messages BY <1>1
<1>3. QED BY <1>1, <1>2, ThreadFields, MessageFields DEF TypesInv

\* A step of the main thread's tick concerns no message.
LEMMA TickLeavesMessages ==
  ASSUME PublishReading \/ TickOnce \/ CheckFresh \/ FinishTick
  PROVE  UNCHANGED <<brokerDesired, inbox, net, clock, valueSentAt>>
  BY DEF PublishReading, PublishSample, TickOnce, CheckFresh, FinishTick, brokerVars

\* Messages stay in the order in which they were published.
LEMMA OrderNext ==
  ASSUME TypesInv, OrderInv, [SimNext]_simVars
  PROVE  OrderInv'
<1>0. /\ clock \in Nat /\ valueSentAt \in Int
      /\ brokerDesired.sentAt \in Int /\ net.message.sentAt \in Int
      /\ Len(inbox) \in Nat /\ inbox \in Seq(Messages)
      /\ \A i \in 1 .. Len(inbox) : inbox[i].sentAt \in Int
  BY SentTypes
<1> USE DEF brokerVars
<1>1. CASE UNCHANGED <<brokerDesired, inbox, net, clock, valueSentAt>>
  BY <1>1 DEF OrderInv, Aged
<1>2. CASE Disconnect
  <2>1. inbox' = <<>> /\ UNCHANGED <<brokerDesired, net, clock, valueSentAt>>
    BY <1>2 DEF Disconnect
  <2>2. Len(inbox') = 0 BY <2>1
  <2>3. QED BY <2>1, <2>2 DEF OrderInv, Aged
<1>3. CASE Reconnect
  <2>1. /\ inbox' = <<>> \/ inbox' = <<brokerDesired>>
        /\ UNCHANGED <<brokerDesired, net, clock, valueSentAt>>
    BY <1>3, WorldEffect DEF Reconnect
  <2>2. \A i \in 1 .. Len(inbox') : i = 1 /\ inbox'[i] = brokerDesired BY <2>1
  <2>3. QED BY <1>0, <2>1, <2>2 DEF OrderInv, Aged
<1>4. CASE TakeMessage
  <2> DEFINE message == Head(inbox)
  <2>1. /\ message = inbox[1] /\ 1 \in 1 .. Len(inbox)
        /\ \A i \in 1 .. Len(inbox') :
             i + 1 \in 1 .. Len(inbox) /\ inbox'[i] = inbox[i + 1] /\ 1 < i + 1
    <3>1. inbox # <<>> /\ inbox' = Tail(inbox) BY <1>4 DEF TakeMessage
    <3>2. QED BY <3>1, InboxSplit
  <2>2. net.pc = "idle" /\ net'.pc = "aged" /\ net'.message = message
    BY <1>4, MessageTaken
  <2>3. UNCHANGED <<brokerDesired, clock, valueSentAt>> BY <1>4 DEF TakeMessage
  <2> HIDE DEF message
  <2>4. /\ message.sentAt \in Int
        /\ message.sentAt <= brokerDesired.sentAt
        /\ brokerDesired.sentAt <= clock
        /\ Aged(valueSentAt) <= Aged(message.sentAt)
        /\ Aged(valueSentAt) <= Aged(brokerDesired.sentAt)
    BY <1>0, <2>1 DEF OrderInv
  <2>5. ASSUME NEW i \in 1 .. Len(inbox')
        PROVE  /\ inbox'[i].sentAt <= brokerDesired.sentAt
               /\ \A j \in 1 .. Len(inbox') : i < j => inbox'[i].sentAt <= inbox'[j].sentAt
               /\ message.sentAt <= inbox'[i].sentAt
               /\ Aged(valueSentAt) <= Aged(inbox'[i].sentAt)
    <3>1. \A j \in 1 .. Len(inbox') : i < j => i + 1 < j + 1 BY <1>0
    <3>2. QED BY <2>1, <3>1 DEF OrderInv
  <2>6. QED BY <2>2, <2>3, <2>4, <2>5 DEF OrderInv, Aged
<1>12. CASE CallOnMqttDesired
  <2>1. net.pc = "aged" /\ net'.pc = "received" /\ net'.message = net.message
    BY <1>12, MessageDated
  <2>2. UNCHANGED <<brokerDesired, inbox, clock, valueSentAt>>
    BY <1>12 DEF CallOnMqttDesired
  <2>3. QED BY <2>1, <2>2 DEF OrderInv, Aged
<1>5. CASE SetReceived
  <2>1. /\ net.pc = "received" /\ net'.pc = "desired"
        /\ net'.message = net.message /\ net'.issuedAt = net.issuedAt
    BY <1>5, Assigned
  <2>2. UNCHANGED <<brokerDesired, inbox, clock, valueSentAt>> BY <1>5 DEF SetReceived
  <2>3. QED BY <2>1, <2>2 DEF OrderInv, Aged
<1>6. CASE SetDesired
  <2>1. /\ net.pc = "desired" /\ net'.pc = "issued"
        /\ net'.message = net.message /\ net'.issuedAt = net.issuedAt
    BY <1>6, Assigned
  <2>2. UNCHANGED <<brokerDesired, inbox, clock>> /\ valueSentAt' = net.message.sentAt
    BY <1>6 DEF SetDesired
  <2>3. /\ brokerDesired.sentAt <= clock
        /\ net.message.sentAt <= brokerDesired.sentAt
    BY <2>1 DEF OrderInv
  <2>4. ASSUME NEW i \in 1 .. Len(inbox)
        PROVE  /\ inbox[i].sentAt <= brokerDesired.sentAt
               /\ \A j \in 1 .. Len(inbox) : i < j => inbox[i].sentAt <= inbox[j].sentAt
               /\ net.message.sentAt <= inbox[i].sentAt
               /\ Aged(net.message.sentAt) <= Aged(inbox[i].sentAt)
    BY <1>0, <2>1, AgedMonotone DEF OrderInv
  <2>5. /\ Aged(net.message.sentAt) <= Aged(brokerDesired.sentAt)
        /\ Aged(net.message.sentAt) <= Aged(net.message.sentAt)
    <3>1. net.message.sentAt <= net.message.sentAt BY <1>0
    <3>2. QED BY <1>0, <2>3, <3>1, AgedMonotone
  <2>6. QED BY <2>1, <2>2, <2>3, <2>4, <2>5 DEF OrderInv, Aged
<1>7. CASE SetIssuedAt
  <2>1. net'.pc = "idle" BY <1>7, Assigned
  <2>2. UNCHANGED <<brokerDesired, inbox, clock, valueSentAt>> BY <1>7 DEF SetIssuedAt
  <2>3. QED BY <2>1, <2>2 DEF OrderInv, Aged
<1>8. CASE ServicePublish
  <2>1. /\ brokerDesired'.sentAt = clock
        /\ inbox' = inbox \/ inbox' = Append(inbox, brokerDesired')
        /\ UNCHANGED <<net, clock, valueSentAt>>
    BY <1>8, WorldEffect DEF ServicePublish
  <2>2. brokerDesired.sentAt <= clock /\ Aged(brokerDesired.sentAt) <= Aged(clock)
        /\ Aged(brokerDesired.sentAt) \in Nat /\ Aged(clock) \in Nat
        /\ Aged(valueSentAt) \in Nat
    BY <1>0, AgedMonotone DEF OrderInv
  <2>3. Aged(valueSentAt) <= Aged(clock) BY <2>2 DEF OrderInv
  <2>4. net.pc # "idle" => net.message.sentAt <= clock BY <1>0, <2>2 DEF OrderInv
  <2>5. \A i \in 1 .. Len(inbox) : inbox[i].sentAt <= clock
    BY <1>0, <2>2 DEF OrderInv
  <2>6. \A i \in 1 .. Len(inbox') :
          \/ i \in 1 .. Len(inbox) /\ inbox'[i] = inbox[i]
          \/ /\ i = Len(inbox) + 1 /\ Len(inbox') = Len(inbox) + 1
             /\ inbox'[i].sentAt = clock
    <3>1. CASE inbox' = inbox BY <3>1
    <3>2. CASE inbox' = Append(inbox, brokerDesired')
      <4>1. /\ Len(inbox') = Len(inbox) + 1
            /\ \A i \in 1 .. Len(inbox) : inbox'[i] = inbox[i]
            /\ inbox'[Len(inbox) + 1] = brokerDesired'
        BY <1>0, <3>2
      <4>2. QED BY <1>0, <2>1, <4>1
    <3>3. QED BY <2>1, <3>1, <3>2
  <2>7. ASSUME NEW i \in 1 .. Len(inbox')
        PROVE  /\ inbox'[i].sentAt <= clock
               /\ net.pc # "idle" => net.message.sentAt <= inbox'[i].sentAt
               /\ Aged(valueSentAt) <= Aged(inbox'[i].sentAt)
    BY <1>0, <2>3, <2>4, <2>5, <2>6 DEF OrderInv
  <2>8. ASSUME NEW i \in 1 .. Len(inbox'), NEW j \in 1 .. Len(inbox'), i < j
        PROVE  inbox'[i].sentAt <= inbox'[j].sentAt
    <3>1. i \in 1 .. Len(inbox) /\ inbox'[i] = inbox[i] BY <1>0, <2>6, <2>8
    <3>2. QED BY <2>5, <2>6, <2>8, <3>1 DEF OrderInv
  <2>9. QED BY <1>0, <2>1, <2>3, <2>4, <2>7, <2>8 DEF OrderInv, Aged
<1>9. CASE TimePasses
  <2>1. clock' = clock + 1 /\ UNCHANGED <<brokerDesired, inbox, net, valueSentAt>>
    BY <1>9 DEF TimePasses
  <2>2. brokerDesired.sentAt <= clock' BY <1>0, <2>1 DEF OrderInv
  <2>3. QED BY <2>1, <2>2 DEF OrderInv, Aged
<1>10. CASE UNCHANGED simVars BY <1>1, <1>10 DEF simVars
<1>11. QED BY <1>1, <1>2, <1>3, <1>4, <1>5, <1>6, <1>7, <1>8, <1>9, <1>10, <1>12,
              TickLeavesMessages DEF SimNext

\* The age of a message that is not from the future, taken off a clock read up to
\* ReadLag later, dates it late by at most that.
LEMMA DatedLate ==
  ASSUME NEW now \in Nat, NEW age \in Nat, NEW time \in Int, NEW lag \in Nat,
         now - (time + age) <= lag
  PROVE  AtLeastZero(now - age) <= Aged(time) + lag
<1>1. now - age <= time + lag OBVIOUS
<1>2. Aged(time) \in Nat /\ time <= Aged(time) BY AtLeastZeroType DEF Aged
<1>3. QED BY <1>1, <1>2 DEF AtLeastZero

\* The age stays at most ReadLag old until the device's own clock is read for it.
LEMMA IssuedNext ==
  ASSUME TypesInv, OrderInv, IssuedInv, [SimNext]_simVars
  PROVE  IssuedInv'
<1>0. /\ clock \in Nat /\ net.age \in Nat /\ net.message.sentAt \in Int
      /\ net.issuedAt \in Int /\ ReadLag \in Nat
  BY SentTypes, ThreadFields, Configured
<1>1. CASE UNCHANGED <<net, clock>> BY <1>1 DEF IssuedInv, AgedAt, Aged
<1>2. CASE TakeMessage
  <2> DEFINE message == Head(inbox)
  <2>1. /\ message = inbox[1] /\ 1 \in 1 .. Len(inbox) /\ message \in Messages
        /\ net'.pc = "aged" /\ net'.message = message
        /\ net'.age = AtLeastZero(clock - message.sentAt)
    BY <1>2, InboxSplit, MessageTaken
  <2>2. clock' = clock BY <1>2 DEF TakeMessage
  <2> HIDE DEF message
  <2>3. message.sentAt \in Int BY <2>1, MessageFields
  <2>4. message.sentAt <= clock
    <3>1. brokerDesired.sentAt \in Int /\ message.sentAt <= brokerDesired.sentAt
          /\ brokerDesired.sentAt <= clock
      BY <2>1, SentTypes DEF OrderInv
    <3>2. QED BY <1>0, <2>3, <3>1
  <2>5. message.sentAt + net'.age = clock BY <1>0, <2>1, <2>3, <2>4 DEF AtLeastZero
  <2>6. QED BY <1>0, <2>1, <2>2, <2>5 DEF IssuedInv, AgedAt
<1>3. CASE CallOnMqttDesired
  <2>1. /\ net.pc = "aged" /\ net'.pc = "received" /\ net'.message = net.message
        /\ net'.issuedAt = AtLeastZero(clock - net.age)
    BY <1>3, MessageDated
  <2>2. clock - (net.message.sentAt + net.age) <= ReadLag
    BY <2>1 DEF IssuedInv, AgedAt
  <2>3. net'.issuedAt <= Aged(net.message.sentAt) + ReadLag
    BY <1>0, <2>1, <2>2, DatedLate
  <2>4. QED BY <2>1, <2>3 DEF IssuedInv, Aged
<1>4. CASE SetReceived \/ SetDesired
  <2>1. /\ net.pc \in {"received", "desired"} /\ net'.pc \in {"desired", "issued"}
        /\ net'.message = net.message /\ net'.issuedAt = net.issuedAt
    BY <1>4, Assigned
  <2>2. QED BY <2>1 DEF IssuedInv, Aged
<1>5. CASE SetIssuedAt
  <2>1. net'.pc = "idle" BY <1>5, Assigned
  <2>2. QED BY <2>1 DEF IssuedInv
<1>6. CASE TimePasses
  <2>1. /\ clock' = clock + 1 /\ net' = net
        /\ net.pc = "aged" => clock + 1 - AgedAt <= ReadLag
    BY <1>6 DEF TimePasses
  <2>2. AgedAt \in Int BY <1>0 DEF AgedAt
  <2>3. AgedAt' = AgedAt BY <2>1 DEF AgedAt
  <2>4. net.pc = "aged" => AgedAt <= clock BY DEF IssuedInv
  <2>5. net.pc = "aged" => AgedAt' <= clock' /\ clock' - AgedAt' <= ReadLag
    BY <1>0, <2>1, <2>2, <2>3, <2>4
  <2>6. QED BY <2>1, <2>5 DEF IssuedInv, Aged
<1>7. CASE Disconnect \/ Reconnect \/ ServicePublish \/ UNCHANGED simVars
  BY <1>1, <1>7 DEF Disconnect, Reconnect, ServicePublish, simVars
<1>8. QED BY <1>1, <1>2, <1>3, <1>4, <1>5, <1>6, <1>7, TickLeavesMessages DEF SimNext

\* The issue time kept stays no later than that of the value beside it, and a fresh
\* look stays right while the network thread writes.
LEMMA FreshNext ==
  ASSUME TypesInv, OrderInv, IssuedInv, FreshInv, [SimNext]_simVars
  PROVE  FreshInv'
<1>0. /\ clock \in Nat /\ valueSentAt \in Int /\ net.message.sentAt \in Int
      /\ main.now \in Nat /\ main.fresh \in BOOLEAN
      /\ main.pc \in {"idle", "tick", "decide"}
      /\ device.mqttIssuedAt \in Int /\ net.issuedAt \in Int
      /\ StaleTimeout \in Nat /\ ReadLag \in Nat
      /\ Aged(valueSentAt) \in Nat /\ Aged(net.message.sentAt) \in Nat
  BY SentTypes, ThreadFields, DeviceFields, Configured, AgedMonotone DEF TypesInv
<1>1. CASE PublishReading \/ TickOnce
  <2>1. main'.pc = "tick" /\ device'.mqttIssuedAt = device.mqttIssuedAt
    BY <1>1, TickBegins
  <2>2. valueSentAt' = valueSentAt BY <1>1, TickLeavesMessages
  <2>3. QED BY <2>1, <2>2 DEF FreshInv, Aged
<1>2. CASE CheckFresh
  <2>1. /\ main'.now = main.now
        /\ main'.fresh => main.now - device.mqttIssuedAt <= StaleTimeout
        /\ UNCHANGED <<device, valueSentAt>>
    BY <1>2, TickBegins DEF CheckFresh
  <2>2. device.mqttIssuedAt <= Aged(valueSentAt) + ReadLag BY DEF FreshInv
  <2>3. main'.fresh => main.now - Aged(valueSentAt) <= StaleTimeout + ReadLag
    BY <1>0, <2>1, <2>2
  <2>4. QED BY <2>1, <2>2, <2>3 DEF FreshInv, Aged
<1>3. CASE FinishTick
  <2>1. device'.mqttIssuedAt = device.mqttIssuedAt /\ main'.pc = "idle"
    BY <1>3, FinishEffect DEF MainIdle
  <2>2. valueSentAt' = valueSentAt BY <1>3, TickLeavesMessages
  <2>3. QED BY <2>1, <2>2 DEF FreshInv, Aged
<1>4. CASE SetReceived
  <2>1. device' = [device EXCEPT !.mqttReceived = TRUE] BY <1>4, Assigned
  <2>2. device'.mqttIssuedAt = device.mqttIssuedAt BY <2>1 DEF TypesInv, DeviceType
  <2>3. QED BY <1>4, <2>2 DEF SetReceived, FreshInv, Aged
<1>5. CASE SetDesired
  <2>1. device' = [device EXCEPT !.mqttDesiredOn = net.message.on] /\ net.pc = "desired"
    BY <1>5, Assigned
  <2>2. device'.mqttIssuedAt = device.mqttIssuedAt BY <2>1 DEF TypesInv, DeviceType
  <2>3. valueSentAt' = net.message.sentAt /\ UNCHANGED main BY <1>5 DEF SetDesired
  <2>4. Aged(valueSentAt) <= Aged(net.message.sentAt) BY <2>1 DEF OrderInv
  <2>5. device.mqttIssuedAt <= Aged(net.message.sentAt) + ReadLag
    BY <1>0, <2>4 DEF FreshInv
  <2>6. main.pc = "decide" /\ main.fresh =>
          main.now - Aged(net.message.sentAt) <= StaleTimeout + ReadLag
    BY <1>0, <2>4 DEF FreshInv
  <2>7. QED BY <2>2, <2>3, <2>5, <2>6 DEF FreshInv, Aged
<1>6. CASE SetIssuedAt
  <2>1. device' = [device EXCEPT !.mqttIssuedAt = net.issuedAt] /\ net.pc = "issued"
    BY <1>6, Assigned
  <2>2. device'.mqttIssuedAt = net.issuedAt BY <2>1 DEF TypesInv, DeviceType
  <2>3. net.issuedAt <= Aged(valueSentAt) + ReadLag BY <2>1 DEF OrderInv, IssuedInv
  <2>4. UNCHANGED <<main, valueSentAt>> BY <1>6 DEF SetIssuedAt
  <2>5. QED BY <1>0, <2>2, <2>3, <2>4 DEF FreshInv, Aged
<1>7. CASE \/ Disconnect \/ Reconnect \/ TakeMessage \/ CallOnMqttDesired
           \/ ServicePublish \/ TimePasses \/ UNCHANGED simVars
  <2>1. UNCHANGED <<device, main, valueSentAt>>
    BY <1>7 DEF Disconnect, Reconnect, TakeMessage, CallOnMqttDesired, ServicePublish,
                TimePasses, simVars
  <2>2. QED BY <2>1 DEF FreshInv, Aged
<1>8. QED BY <1>1, <1>2, <1>3, <1>4, <1>5, <1>6, <1>7 DEF SimNext

-----------------------------------------------------------------------------
(* What holds of every run *)

\* The invariant holds of every run of the device.
LEMMA SimInvHolds == SimSpec => []SimInv
<1>1. SimInit => SimInv
  <2> SUFFICES ASSUME SimInit PROVE SimInv OBVIOUS
  <2>1. TypesInv BY TypesInit
  <2>2. /\ device = NewController /\ main = MainIdle /\ net = NetIdle /\ inbox = <<>>
        /\ clock = 0 /\ valueSentAt = 0
        /\ lastFallback = TRUE /\ brokerMode \in PastModes
    BY DEF SimInit, PastModes
  <2>3. TimesInv
    BY <2>2 DEF TimesInv, NewController, MainIdle, NetIdle, Never
  <2>4. brokerDesired.sentAt \in Int /\ brokerDesired.sentAt <= 0
    BY SimAssumption DEF SimInit
  <2>5. Aged(0) <= Aged(brokerDesired.sentAt) /\ Aged(0) = 0
    BY <2>4, AgedMonotone
  <2>6. OrderInv
    <3>1. Len(inbox) = 0 /\ net.pc = "idle" BY <2>2 DEF NetIdle
    <3>2. QED BY <2>2, <2>4, <2>5, <3>1 DEF OrderInv
  <2>7. FreshInv
    <3>1. device.mqttIssuedAt = Never /\ main.pc = "idle"
      BY <2>2 DEF NewController, MainIdle
    <3>2. QED BY <2>2, <2>5, <3>1, Configured DEF FreshInv, Never
  <2>8. ModeInv BY <2>2 DEF ModeInv
  <2>9. IssuedInv BY <2>2 DEF IssuedInv, NetIdle
  <2>10. QED BY <2>1, <2>3, <2>6, <2>7, <2>8, <2>9 DEF SimInv
<1>2. SimInv /\ [SimNext]_simVars => SimInv'
  BY TypesNext, TimesNext, OrderNext, IssuedNext, FreshNext, ModeNext DEF SimInv
<1>3. QED BY <1>1, <1>2, PTL DEF SimSpec

\* The types of both threads' variables: no time kept lies in the future, the timers
\* of the relay agree with it, and a disconnected device receives nothing.
THEOREM SimTypesHold == SimSpec => []SimTypeOK
<1>1. SimInv => SimTypeOK
  <2> SUFFICES ASSUME SimInv PROVE SimTypeOK OBVIOUS
  <2>1. TypesInv /\ TimesInv BY DEF SimInv
  <2>2. /\ main.pc \in {"idle", "tick", "decide"} /\ main.now \in Nat
        /\ net.pc \in {"idle", "aged", "received", "desired", "issued"}
        /\ net.message \in Messages /\ net.age \in Nat
        /\ net.issuedAt \in {Never} \cup Nat
        /\ device.relayOn \in BOOLEAN
        /\ device.lastChangeTime \in Nat
        /\ device.mqttIssuedAt \in {Never} \cup Nat
        /\ device.failures \in 0 .. FailureLimit
        /\ clock \in Nat
    BY <2>1, ThreadFields, DeviceFields DEF TypesInv
  <2>3. /\ main.now <= clock /\ device.lastChangeTime <= clock
        /\ device.mqttIssuedAt <= clock /\ net.issuedAt <= clock
        /\ device.relayOnSince = IF device.relayOn THEN device.lastChangeTime ELSE Never
        /\ ~connected => inbox = <<>>
    BY <2>1 DEF TimesInv
  <2>4. /\ main.now \in 0 .. clock /\ device.lastChangeTime \in 0 .. clock
        /\ net.issuedAt \in {Never} \cup 0 .. clock
        /\ device.mqttIssuedAt \in {Never} \cup 0 .. clock
    BY <2>2, <2>3
  <2>5. device.lastChangeTime # Never BY <2>2 DEF Never
  <2>6. device.relayOn <=> device.relayOnSince # Never BY <2>2, <2>3, <2>5
  <2>7. QED BY <2>1, <2>2, <2>3, <2>4, <2>6 DEF SimTypeOK, TypesInv, PastModes
<1>2. QED BY <1>1, SimInvHolds, PTL

\* The value a tick obeys is that of a message still fresh when the tick began, up to
\* the time between the two clocks read for it, wherever the network thread interrupts
\* the tick or is interrupted (device_simulator.py, _on_message; device_controller.py,
\* on_mqtt_desired, _mqtt_fresh).
THEOREM ObeyedStaysFresh == SimSpec => ObeyedIsFresh
<1>1. SimInv /\ [SimNext]_simVars =>
        [FinishTick /\ main.fresh /\ main.now > StaleTimeout + ReadLag =>
           main.now - valueSentAt <= StaleTimeout + ReadLag]_simVars
  <2> SUFFICES ASSUME SimInv, FinishTick, main.fresh, main.now > StaleTimeout + ReadLag
               PROVE  main.now - valueSentAt <= StaleTimeout + ReadLag
    OBVIOUS
  <2>1. TypesInv /\ FreshInv BY DEF SimInv
  <2>2. main.pc = "decide" BY DEF FinishTick
  <2>3. main.now - Aged(valueSentAt) <= StaleTimeout + ReadLag
    BY <2>1, <2>2 DEF FreshInv
  <2>4. /\ main.now \in Nat /\ valueSentAt \in Int
        /\ StaleTimeout \in Nat /\ ReadLag \in Nat
    BY <2>1, ThreadFields, SentTypes, Configured
  <2>5. QED BY <2>3, <2>4, AgedMonotone
<1>2. QED BY <1>1, SimInvHolds, PTL DEF SimSpec, ObeyedIsFresh

\* After a tick with a connection the retained mode is that of the tick, also when it
\* changed while there was none; what an earlier life left stays at most until the
\* first tick outside local fallback (device_simulator.py, _publish_state_updates).
THEOREM RetainedModeInStep == SimSpec => ModeInStep
<1>1. SimInv /\ [SimNext]_simVars =>
        [FinishTick /\ connected =>
           \/ brokerMode' = Mode
           \/ ~main.fresh /\ \E past \in PastTopics : brokerMode' = past.mode]_simVars
  <2> SUFFICES ASSUME SimInv, FinishTick, connected
               PROVE  \/ brokerMode' = Mode
                      \/ ~main.fresh /\ \E past \in PastTopics : brokerMode' = past.mode
    OBVIOUS
  <2>1. TypesInv /\ ModeInv BY DEF SimInv
  <2>2. /\ lastFallback' = ~main.fresh
        /\ brokerMode' = IF lastFallback' # lastFallback THEN Mode ELSE brokerMode
    BY <2>1, FinishEffect
  <2>3. main.fresh \in BOOLEAN /\ lastFallback \in BOOLEAN
    BY <2>1, ThreadFields DEF TypesInv
  <2>4. brokerMode' = Mode \/ (~main.fresh /\ brokerMode' \in PastModes)
    BY <2>1, <2>2, <2>3 DEF ModeInv, Mode
  <2>5. QED BY <2>4 DEF PastModes
<1>2. QED BY <1>1, SimInvHolds, PTL DEF SimSpec, ModeInStep

\* The relay keeps its dwell times from tick to tick, through outages and interrupted
\* ticks (device_controller.py, tick).
THEOREM SimKeepsDwell == SimSpec => SimDwellKept
<1>1. SimInv /\ [SimNext]_simVars =>
        [device'.relayOn # device.relayOn =>
           main.now - device.lastChangeTime >=
             IF ~device.relayOn THEN MinFanOff
             ELSE IF MinFanOn < MaxRuntime THEN MinFanOn ELSE MaxRuntime]_simVars
  <2> SUFFICES ASSUME SimInv, [SimNext]_simVars, device'.relayOn # device.relayOn
               PROVE  main.now - device.lastChangeTime >=
                        IF ~device.relayOn THEN MinFanOff
                        ELSE IF MinFanOn < MaxRuntime THEN MinFanOn ELSE MaxRuntime
    OBVIOUS
  <2>1. TypesInv /\ TimesInv BY DEF SimInv
  <2>2. ~(PublishReading \/ TickOnce) BY <2>1, TickBegins
  <2>3. ~SetReceived /\ ~SetDesired /\ ~SetIssuedAt
    BY <2>1, Assigned DEF TypesInv, DeviceType
  <2>4. CASE FinishTick
    <3>1. device'.relayOn = Outcome(device, main.fresh, main.now).on
      BY <2>1, <2>4, FinishEffect
    <3>2. /\ device \in DeviceType /\ main.fresh \in BOOLEAN /\ main.now \in Nat
          /\ device.relayOnSince = IF device.relayOn THEN device.lastChangeTime ELSE Never
      BY <2>1, ThreadFields DEF TypesInv, TimesInv
    <3>3. QED BY <3>1, <3>2, TickedDwell
  <2>5. CASE CheckFresh \/ Disconnect \/ Reconnect \/ TakeMessage \/ CallOnMqttDesired
             \/ ServicePublish \/ TimePasses \/ UNCHANGED simVars
    BY <2>5 DEF CheckFresh, Disconnect, Reconnect, TakeMessage, CallOnMqttDesired,
                ServicePublish, TimePasses, simVars
  <2>6. QED BY <2>2, <2>3, <2>4, <2>5 DEF SimNext
<1>2. QED BY <1>1, SimInvHolds, PTL DEF SimSpec, SimDwellKept

=============================================================================
