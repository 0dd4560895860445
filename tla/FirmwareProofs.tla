--------------------------- MODULE FirmwareProofs ---------------------------
(***************************************************************************)
(* What holds of the main loop around the controller, for every value of   *)
(* the constants: the dwell times of the contact and the types whatever    *)
(* the clock does; the bound on a run and what a fan/desired message may   *)
(* do for an uptime that stays below the wrap of the clock.  The lemmas    *)
(* about Tick and the other methods are those of ControllerProofs, which   *)
(* hold for every time a caller passes.                                    *)
(***************************************************************************)
EXTENDS Firmware, ControllerProofs

-----------------------------------------------------------------------------
(* Types, and where the loop is in real time *)

Messages == DesiredMessages \cup Commands

\* What the history knows of a message handled: it was sent before, and its age was
\* read in the pass that handled it.
HeldMessages ==
  {h \in [message : DesiredMessages, readAt : Nat, at : Nat, aged : BOOLEAN] :
     /\ h.message.sentAt <= h.readAt /\ h.readAt <= h.at
     /\ h.at - h.readAt <= LoopLag}

\* The type invariant with what makes it inductive: the contact follows
\* relay_on_, no pass is older than the lag, and a Tick is due with its sample.
LoopInv ==
  /\ FirmwareTypeOK
  /\ pin = relayOn
  /\ uptime <= Horizon /\ uptime - loopStart <= LoopLag
  /\ pc = "tick" => lastSample = LoopNow
  /\ held # NothingHeld => held \in HeldMessages /\ held.at <= uptime

\* No message on its way or retained comes from the future.
QueueInv ==
  /\ \A i \in 1 .. Len(inbox) : inbox[i].sentAt <= uptime
  /\ brokerDesired # NoMessage => brokerDesired.sentAt <= uptime

TypesInv == LoopInv /\ QueueInv

\* The constants of the loop are naturals.
LEMMA LoopConstants ==
  /\ SampleInterval \in Nat \ {0} /\ LoopLag \in Nat \ {0}
  /\ Horizon \in Nat /\ 0 \in UInt32
  /\ Second \in Nat \ {0} /\ BootTime \in Nat
  BY FirmwareAssumption, EnvironmentAssumption, ClockModulusAssumption DEF UInt32

\* A division by a second is exact up to what is left over.
LEMMA WholeSeconds ==
  ASSUME NEW a \in Int
  PROVE  /\ a \div Second \in Int
         /\ (a \div Second) * Second <= a
         /\ a < (a \div Second) * Second + Second
<1>1. Second \in Nat /\ Second > 0 BY LoopConstants
<1>2. /\ a \div Second \in Int
      /\ a = Second * (a \div Second) + (a % Second)
      /\ a % Second \in 0 .. Second - 1
  BY <1>1
<1>3. QED BY <1>1, <1>2

\* The stamps are whole numbers.
LEMMA StampType ==
  ASSUME NEW time \in Int
  PROVE  Seconds(time) \in Int /\ WallClock(time) \in Int
<1>1. BootTime + time \in Int BY LoopConstants
<1>2. QED BY <1>1, WholeSeconds DEF Seconds, WallClock

\* The seconds between two times are the time between them, up to a second.
LEMMA SecondsBetween ==
  ASSUME NEW earlier \in Int, NEW later \in Int
  PROVE  /\ (Seconds(later) - Seconds(earlier)) * Second < later - earlier + Second
         /\ later - earlier < (Seconds(later) - Seconds(earlier)) * Second + Second
<1> DEFINE a == BootTime + earlier
           b == BootTime + later
<1>1. a \in Int /\ b \in Int /\ Second \in Int /\ BootTime \in Int BY LoopConstants
<1>2. /\ a \div Second \in Int /\ b \div Second \in Int
      /\ (a \div Second) * Second <= a /\ a < (a \div Second) * Second + Second
      /\ (b \div Second) * Second <= b /\ b < (b \div Second) * Second + Second
  BY <1>1, WholeSeconds
<1>3. (b \div Second - a \div Second) * Second
        = (b \div Second) * Second - (a \div Second) * Second
  BY <1>1, <1>2
<1>4. Seconds(later) = b \div Second /\ Seconds(earlier) = a \div Second BY DEF Seconds
<1>5. b - a = later - earlier BY <1>1
<1> HIDE DEF a, b
<1>6. QED BY <1>1, <1>2, <1>3, <1>4, <1>5

\* A published message is a fan/desired message.
LEMMA DesiredMessageType ==
  ASSUME uptime \in Nat, NEW on \in BOOLEAN, NEW source \in Sources, NEW stamp \in Int
  PROVE  /\ Desired(on, source, stamp) \in DesiredMessages
         /\ Desired(on, source, stamp) \in Messages
         /\ Desired(on, source, stamp).sentAt = uptime
         /\ Desired(on, source, stamp).on = on
         /\ Desired(on, source, stamp).source = source
         /\ Desired(on, source, stamp) # NoMessage
<1>1. /\ Desired(on, source, stamp) \in DesiredMessages
      /\ Desired(on, source, stamp).sentAt = uptime
      /\ Desired(on, source, stamp).on = on
      /\ Desired(on, source, stamp).source = source
  BY DEF Desired, DesiredMessages
<1>2. Desired(on, source, stamp).topic # NoMessage.topic BY DEF Desired, NoMessage
<1>3. QED BY <1>1, <1>2 DEF Messages

\* An operator's command is a command message.
LEMMA CommandMessageType ==
  ASSUME uptime \in Nat, NEW type \in {"on", "off", "auto"}, NEW duration \in Durations,
         NEW stamp \in Int
  PROVE  /\ Command(type, duration, stamp) \in Messages
         /\ Command(type, duration, stamp).sentAt = uptime
         /\ Command(type, duration, stamp).topic = "command"
  BY DEF Command, Commands, Messages, Switches

\* A message appended to the queue keeps what every message in it has.
LEMMA AppendMessage ==
  ASSUME NEW queue \in Seq(Messages), NEW message \in Messages
  PROVE  /\ Append(queue, message) \in Seq(Messages)
         /\ Len(Append(queue, message)) = Len(queue) + 1
         /\ \A i \in 1 .. Len(queue) + 1 :
              Append(queue, message)[i] =
                IF i = Len(queue) + 1 THEN message ELSE queue[i]
  OBVIOUS

\* Taking the first message off the queue leaves the others as they were.
LEMMA TakeMessage ==
  ASSUME NEW queue \in Seq(Messages), queue # <<>>
  PROVE  /\ Head(queue) \in Messages /\ Head(queue) = queue[1] /\ 1 \in 1 .. Len(queue)
         /\ Tail(queue) \in Seq(Messages)
         /\ \A i \in 1 .. Len(Tail(queue)) :
              i + 1 \in 1 .. Len(queue) /\ Tail(queue)[i] = queue[i + 1]
  OBVIOUS

\* Only a few steps of the loop call the controller, and only time moves time.
LEMMA ControllerCalled ==
  ASSUME [FirmwareNext]_firmwareVars,
         ~HandleMessage, ~Sample, ~TickAndPublish, ~TimePasses
  PROVE  UNCHANGED vars
<1>1. CASE Pass
  BY <1>1 DEF Pass, StartPass, StayOffline, StayOnline, Reconnect, NoMessageYet, SkipSample
<1>2. CASE ServicePublish BY <1>2 DEF ServicePublish
<1>3. CASE OperatorCommand BY <1>3 DEF OperatorCommand
<1>4. CASE Disconnect BY <1>4 DEF Disconnect
<1>5. CASE Sync BY <1>5 DEF Sync
<1>6. CASE UNCHANGED firmwareVars BY <1>6 DEF firmwareVars
<1>7. QED BY <1>1, <1>2, <1>3, <1>4, <1>5, <1>6 DEF FirmwareNext

\* Only a step of TimePasses changes the time, and by one.
LEMMA TimeMoves ==
  ASSUME LoopInv, [FirmwareNext]_firmwareVars
  PROVE  uptime' = uptime \/ TimePasses
<1>1. CASE HandleMessage BY <1>1 DEF HandleMessage, OnMqttDesired, OnCommand
<1>2. CASE Sample BY <1>2 DEF Sample, OnSensorReading
<1>3. CASE TickAndPublish BY <1>3 DEF TickAndPublish, Tick
<1>4. CASE ~(HandleMessage \/ Sample \/ TickAndPublish \/ TimePasses)
  BY <1>4, ControllerCalled DEF vars
<1>5. QED BY <1>1, <1>2, <1>3, <1>4

\* What the code calls with a message it handles, whose age it read in this pass.
LEMMA HandledMessage ==
  ASSUME TypesInv, HandleMessage
  PROVE  /\ Head(inbox) \in Messages /\ Head(inbox).sentAt <= uptime /\ Now \in UInt32
         /\ \E readAt \in loopStart .. uptime :
              /\ Head(inbox).sentAt <= readAt
              /\ AgeOf(Head(inbox), readAt) \in UInt32
              /\ \/ /\ Head(inbox) \in DesiredMessages
                    /\ OnMqttDesired(Head(inbox).on, AgeOf(Head(inbox), readAt), Now)
                    /\ held' = [message |-> Head(inbox), readAt |-> readAt,
                                at |-> uptime, aged |-> synced]
                 \/ /\ Head(inbox) \in Commands
                    /\ OnCommand(Head(inbox).type, Head(inbox).duration,
                                 AgeOf(Head(inbox), readAt), Now)
                    /\ UNCHANGED held
<1>1. /\ inbox \in Seq(Messages) /\ inbox # <<>>
      /\ uptime \in Nat /\ loopStart \in 0 .. uptime
  BY DEF TypesInv, LoopInv, FirmwareTypeOK, HandleMessage, Messages, TypeOK
<1>2. Head(inbox) \in Messages /\ Head(inbox) = inbox[1] /\ 1 \in 1 .. Len(inbox)
  BY <1>1, TakeMessage
<1>3. /\ Head(inbox).sentAt <= uptime /\ Head(inbox).sentAt \in Int
      /\ Head(inbox).issuedAt \in Int
  BY <1>2 DEF TypesInv, QueueInv, Messages, DesiredMessages, Commands
<1>4. ASSUME NEW readAt \in loopStart .. uptime
      PROVE  AgeOf(Head(inbox), readAt) \in UInt32
  <2> DEFINE seconds == WallClock(readAt) - Head(inbox).issuedAt
  <2>1. readAt \in Int BY <1>1
  <2>2. seconds \in Int BY <1>3, <2>1, StampType
  <2>3. seconds > 0 => (seconds * Second) % ClockModulus \in UInt32
    <3>1. SUFFICES ASSUME seconds > 0 PROVE (seconds * Second) % ClockModulus \in UInt32
      OBVIOUS
    <3>2. seconds * Second \in Nat BY <2>2, <3>1, LoopConstants
    <3>3. QED BY <3>2, MillisType DEF Millis
  <2>4. QED BY <2>3, LoopConstants DEF AgeOf
<1>5. Now \in UInt32 BY NowType DEF TypesInv, LoopInv, FirmwareTypeOK
<1>6. /\ Head(inbox).topic = "desired" => Head(inbox) \in DesiredMessages
      /\ Head(inbox).topic = "command" => Head(inbox) \in Commands
  BY <1>2 DEF Messages, DesiredMessages, Commands
<1>7. QED BY <1>2, <1>3, <1>4, <1>5, <1>6 DEF HandleMessage

\* Every step keeps the variables of the controller in their types.
LEMMA ControllerTypes ==
  ASSUME TypesInv, [FirmwareNext]_firmwareVars
  PROVE  TypeOK'
<1>1. TypeOK /\ loopStart \in Nat BY DEF TypesInv, LoopInv, FirmwareTypeOK, TypeOK
<1>2. LoopNow \in UInt32 BY <1>1, MillisType DEF LoopNow
<1>3. CASE HandleMessage
  <2>1. /\ Now \in UInt32
        /\ Head(inbox) \in DesiredMessages => Head(inbox).on \in BOOLEAN
        /\ Head(inbox) \in Commands =>
             /\ Head(inbox).type \in {"on", "off", "auto"}
             /\ Head(inbox).duration \in Durations
    BY <1>3, HandledMessage DEF DesiredMessages, Commands, Switches
  <2>2. PICK age \in UInt32 :
          \/ /\ Head(inbox) \in DesiredMessages
             /\ OnMqttDesired(Head(inbox).on, age, Now)
          \/ /\ Head(inbox) \in Commands
             /\ OnCommand(Head(inbox).type, Head(inbox).duration, age, Now)
    BY <1>3, HandledMessage
  <2>3. QED BY <1>1, <2>1, <2>2, DesiredType, CommandType
<1>4. CASE Sample BY <1>1, <1>2, <1>4, ReadingType DEF Sample
<1>5. CASE TickAndPublish BY <1>1, <1>2, <1>5, TickType DEF TickAndPublish
<1>6. CASE TimePasses
  BY <1>1, <1>6
  DEF TimePasses, controllerButTime, TypeOK, relayVars, sensorVars, mqttVars,
      overrideVars, tickVars
<1>7. CASE ~(HandleMessage \/ Sample \/ TickAndPublish \/ TimePasses)
  BY <1>1, <1>7, ControllerCalled
  DEF vars, TypeOK, relayVars, sensorVars, mqttVars, overrideVars, tickVars
<1>8. QED BY <1>3, <1>4, <1>5, <1>6, <1>7

\* What one step does to the queue: a message more, one less, or a new session.
LEMMA QueueEffect ==
  ASSUME TypesInv, [FirmwareNext]_firmwareVars
  PROVE  /\ \/ UNCHANGED brokerDesired
            \/ /\ brokerDesired' \in DesiredMessages
               /\ brokerDesired' # NoMessage /\ brokerDesired'.sentAt = uptime
         /\ \/ UNCHANGED <<inbox, connected>>
            \/ inbox' = <<>>
            \/ Reconnect /\ brokerDesired # NoMessage
            \/ HandleMessage
            \/ /\ connected /\ UNCHANGED connected
               /\ \E message \in Messages :
                    /\ message.sentAt = uptime
                    /\ message \in Commands \/ message = brokerDesired'
                    /\ inbox' = Append(inbox, message)
<1>0. uptime \in Nat BY DEF TypesInv, LoopInv, FirmwareTypeOK, TypeOK
<1>1. CASE StartPass \/ StayOffline \/ StayOnline \/ NoMessageYet \/ SkipSample \/ Sample
  BY <1>1 DEF StartPass, StayOffline, StayOnline, NoMessageYet, SkipSample, Sample,
              brokerVars, linkVars
<1>2. CASE Reconnect BY <1>2 DEF Reconnect, brokerVars
<1>3. CASE HandleMessage BY <1>3 DEF HandleMessage, brokerVars
<1>4. CASE TickAndPublish
  <2>0. TypeOK' BY ControllerTypes
  <2>1. decision'.relayOn \in BOOLEAN /\ "local_fallback" \in Sources
    BY <2>0 DEF TypeOK, ControlDecision, Sources
  <2> DEFINE message ==
        Desired(decision'.relayOn, "local_fallback", WallClock(uptime))
  <2>2. /\ message \in DesiredMessages /\ message \in Messages
        /\ message.sentAt = uptime /\ message # NoMessage
    BY <1>0, <2>1, DesiredMessageType, StampType
  <2> HIDE DEF message
  <2>3. \/ UNCHANGED <<brokerDesired, inbox>>
        \/ connected /\ brokerDesired' = message /\ inbox' = Append(inbox, brokerDesired')
    BY <1>4 DEF TickAndPublish, PublishChange, message
  <2>4. UNCHANGED connected BY <1>4 DEF TickAndPublish
  <2>5. QED BY <2>2, <2>3, <2>4
<1>5. CASE ServicePublish
  <2>1. PICK on \in BOOLEAN :
          /\ brokerDesired' = Desired(on, "automation", Seconds(uptime))
          /\ inbox' = IF connected THEN Append(inbox, brokerDesired') ELSE inbox
    BY <1>5 DEF ServicePublish
  <2> DEFINE message == Desired(on, "automation", Seconds(uptime))
  <2>2. /\ message \in DesiredMessages /\ message \in Messages
        /\ message.sentAt = uptime /\ message # NoMessage
    BY <1>0, DesiredMessageType, StampType DEF Sources
  <2> HIDE DEF message
  <2>3. /\ brokerDesired' = message
        /\ inbox' = IF connected THEN Append(inbox, brokerDesired') ELSE inbox
        /\ UNCHANGED connected
    BY <1>5, <2>1 DEF ServicePublish, message
  <2>4. connected \in BOOLEAN BY DEF TypesInv, LoopInv, FirmwareTypeOK
  <2>5. QED BY <2>2, <2>3, <2>4
<1>6. CASE OperatorCommand
  <2>1. PICK type \in {"on", "off", "auto"}, duration \in Durations :
          inbox' = Append(inbox, Command(type, duration, Seconds(uptime)))
    BY <1>6 DEF OperatorCommand
  <2> DEFINE message == Command(type, duration, Seconds(uptime))
  <2>2. message \in Messages /\ message \in Commands /\ message.sentAt = uptime
    BY <1>0, CommandMessageType, StampType DEF Command, Commands, Switches
  <2> HIDE DEF message
  <2>3. inbox' = Append(inbox, message) BY <2>1 DEF message
  <2>4. connected /\ UNCHANGED <<brokerDesired, connected>>
    BY <1>6 DEF OperatorCommand, brokerVars
  <2>5. QED BY <2>2, <2>3, <2>4
<1>7. CASE Disconnect BY <1>7 DEF Disconnect, brokerVars
<1>8. CASE Sync \/ TimePasses \/ UNCHANGED firmwareVars
  BY <1>8 DEF Sync, TimePasses, firmwareVars, brokerVars, linkVars
<1>9. QED
  BY <1>1, <1>2, <1>3, <1>4, <1>5, <1>6, <1>7, <1>8 DEF FirmwareNext, Pass

\* Every step keeps the queue and the retained message well typed and from the
\* past, and an empty queue while there is no connection.
LEMMA QueueNext ==
  ASSUME TypesInv, [FirmwareNext]_firmwareVars
  PROVE  /\ QueueInv'
         /\ inbox' \in Seq(Messages) /\ (~connected' => inbox' = <<>>)
         /\ brokerDesired' \in DesiredMessages \cup {NoMessage}
<1>0. /\ uptime \in Nat /\ uptime' \in Nat /\ uptime <= uptime'
      /\ inbox \in Seq(Messages) /\ (~connected => inbox = <<>>)
      /\ brokerDesired \in DesiredMessages \cup {NoMessage}
      /\ \A i \in 1 .. Len(inbox) : inbox[i].sentAt <= uptime
      /\ brokerDesired # NoMessage => brokerDesired.sentAt <= uptime
  BY TimeMoves
  DEF TypesInv, LoopInv, QueueInv, FirmwareTypeOK, Messages, TypeOK, TimePasses
<1>00. \A m \in Messages : m.sentAt \in Int BY DEF Messages, DesiredMessages, Commands
<1>1. /\ brokerDesired' \in DesiredMessages \cup {NoMessage}
      /\ brokerDesired' # NoMessage => brokerDesired'.sentAt <= uptime'
  <2>1. CASE UNCHANGED brokerDesired
    BY <1>0, <2>1 DEF DesiredMessages
  <2>2. CASE ~UNCHANGED brokerDesired BY <1>0, <2>2, QueueEffect
  <2>3. QED BY <2>1, <2>2
<1>2. /\ inbox' \in Seq(Messages)
      /\ ~connected' => inbox' = <<>>
      /\ \A i \in 1 .. Len(inbox') : inbox'[i].sentAt <= uptime'
  <2>0. \A i \in 1 .. Len(inbox) : inbox[i].sentAt \in Int BY <1>0, <1>00
  <2>1. CASE UNCHANGED <<inbox, connected>> BY <1>0, <2>0, <2>1
  <2>2. CASE inbox' = <<>> BY <2>2
  <2>3. CASE Reconnect /\ brokerDesired # NoMessage
    <3>1. inbox' = <<brokerDesired>> /\ connected' = TRUE BY <2>3 DEF Reconnect
    <3>2. /\ brokerDesired \in Messages /\ brokerDesired.sentAt \in Int
          /\ brokerDesired.sentAt <= uptime
      BY <1>0, <2>3 DEF Messages, DesiredMessages
    <3>3. QED BY <1>0, <3>1, <3>2
  <2>4. CASE HandleMessage
    <3>1. /\ inbox # <<>> /\ inbox' = Tail(inbox) /\ connected /\ UNCHANGED connected
      BY <2>4 DEF HandleMessage
    <3>2. /\ Tail(inbox) \in Seq(Messages)
          /\ \A i \in 1 .. Len(Tail(inbox)) :
               i + 1 \in 1 .. Len(inbox) /\ Tail(inbox)[i] = inbox[i + 1]
      BY <1>0, <3>1, TakeMessage
    <3>3. \A i \in 1 .. Len(inbox') : inbox'[i].sentAt <= uptime'
      BY <1>0, <2>0, <3>1, <3>2
    <3>4. QED BY <3>1, <3>2, <3>3
  <2>5. ASSUME NEW message \in Messages, message.sentAt = uptime,
               inbox' = Append(inbox, message), connected, UNCHANGED connected
        PROVE  /\ inbox' \in Seq(Messages)
               /\ ~connected' => inbox' = <<>>
               /\ \A i \in 1 .. Len(inbox') : inbox'[i].sentAt <= uptime'
    <3>1. /\ inbox' \in Seq(Messages) /\ Len(inbox') = Len(inbox) + 1
          /\ \A i \in 1 .. Len(inbox) + 1 :
               inbox'[i] = IF i = Len(inbox) + 1 THEN message ELSE inbox[i]
      BY <1>0, <2>5, AppendMessage
    <3>2. Len(inbox) \in Nat BY <1>0
    <3>3. \A i \in 1 .. Len(inbox') : inbox'[i].sentAt <= uptime'
      BY <1>0, <2>0, <2>5, <3>1, <3>2
    <3>4. QED BY <2>5, <3>1, <3>3
  <2>6. QED BY <2>1, <2>2, <2>3, <2>4, <2>5, QueueEffect
<1>3. QED BY <1>1, <1>2 DEF QueueInv

\* The state at boot.
LEMMA TypesInit == FirmwareInit => TypesInv
<1> SUFFICES ASSUME FirmwareInit PROVE TypesInv OBVIOUS
<1>1. TypeOK BY InitType DEF FirmwareInit
<1>2. /\ uptime = 0 /\ loopStart = 0 /\ lastSample = 0 /\ pc = "idle" /\ inbox = <<>>
      /\ held = NothingHeld /\ pin = FALSE /\ relayOn = FALSE
      /\ lastFallback = TRUE /\ connected = FALSE /\ synced \in SyncedAtBoot
  BY DEF FirmwareInit, Init
<1>3. PICK past \in PastLives : /\ brokerDesired = past.desired
                                /\ brokerActual = past.actual
                                /\ brokerMode = past.mode
  BY DEF FirmwareInit
<1>4. /\ past.desired \in
           {NoMessage} \cup [topic : {"desired"}, on : BOOLEAN, source : Sources,
                             issuedAt : Int, sentAt : {time \in Int : time <= 0}]
      /\ past.actual \in Switches \cup {"none"} /\ past.mode \in Modes \cup {"none"}
  BY PastAssumption
<1>5. /\ brokerDesired \in DesiredMessages \cup {NoMessage}
      /\ brokerDesired # NoMessage => brokerDesired.sentAt <= 0
  BY <1>3, <1>4 DEF DesiredMessages
<1>6. synced \in BOOLEAN BY <1>2, FirmwareAssumption
<1>7. {lastFallback, connected, synced, pin} \subseteq BOOLEAN BY <1>2, <1>6
<1>8. inbox \in Seq(Messages) BY <1>2
<1>9. pc \in {"idle", "network", "receive", "sample", "tick"} BY <1>2
<1>10. FirmwareTypeOK
  <2>1. loopStart \in 0 .. uptime /\ lastSample \in UInt32 BY <1>2, LoopConstants
  <2>2. ~connected => inbox = <<>> BY <1>2
  <2>3. held = NothingHeld \/ held.message \in DesiredMessages BY <1>2
  <2>4. brokerActual \in Switches \cup {"none"} /\ brokerMode \in Modes \cup {"none"}
    BY <1>3, <1>4
  <2>5. QED
    BY <1>1, <1>5, <1>7, <1>8, <1>9, <2>1, <2>2, <2>3, <2>4 DEF FirmwareTypeOK, Messages
<1>11. uptime <= Horizon /\ uptime - loopStart <= LoopLag BY <1>2, LoopConstants
<1>12. LoopInv BY <1>2, <1>10, <1>11 DEF LoopInv
<1>13. QueueInv BY <1>2, <1>5 DEF QueueInv
<1>14. QED BY <1>12, <1>13 DEF TypesInv

\* A pass goes through its steps in order, and no step is older than the lag.
LEMMA PassNext ==
  ASSUME TypesInv, [FirmwareNext]_firmwareVars
  PROVE  /\ pc' \in {"idle", "network", "receive", "sample", "tick"}
         /\ loopStart' \in 0 .. uptime' /\ lastSample' \in UInt32
         /\ uptime' <= Horizon /\ uptime' - loopStart' <= LoopLag
         /\ pc' = "tick" => lastSample' = LoopNow'
<1>0. /\ uptime \in Nat /\ loopStart \in 0 .. uptime /\ lastSample \in UInt32
      /\ uptime <= Horizon /\ uptime - loopStart <= LoopLag
      /\ pc \in {"idle", "network", "receive", "sample", "tick"}
      /\ pc = "tick" => lastSample = LoopNow
  BY DEF TypesInv, LoopInv, FirmwareTypeOK, TypeOK
<1>1. CASE StartPass
  <2>1. uptime' = uptime /\ loopStart' = uptime /\ pc' = "network" /\ lastSample' = lastSample
    BY <1>1 DEF StartPass, vars
  <2>2. QED BY <1>0, <2>1, LoopConstants
<1>2. CASE TimePasses
  <2>1. /\ uptime < Horizon /\ uptime + 1 - loopStart <= LoopLag /\ uptime' = uptime + 1
        /\ loopStart' = loopStart /\ pc' = pc /\ lastSample' = lastSample
    BY <1>2 DEF TimePasses, loopVars
  <2>2. QED BY <1>0, <2>1, LoopConstants DEF LoopNow
<1>3. CASE ~StartPass /\ ~TimePasses
  <2>1. uptime' = uptime BY <1>3, TimeMoves DEF TypesInv
  <2>2. loopStart' = loopStart
    BY <1>3
    DEF FirmwareNext, Pass, StayOffline, StayOnline, Reconnect, HandleMessage, Sample,
        NoMessageYet, SkipSample, TickAndPublish, ServicePublish, OperatorCommand,
        Disconnect, Sync, firmwareVars, loopVars
  <2>3. /\ pc' \in {"idle", "network", "receive", "sample", "tick"}
        /\ \/ Sample /\ lastSample' = LoopNow
           \/ lastSample' = lastSample /\ (pc' = "tick" => pc = "tick")
    BY <1>0, <1>3
    DEF FirmwareNext, Pass, StayOffline, StayOnline, Reconnect, HandleMessage, Sample,
        NoMessageYet, SkipSample, TickAndPublish, ServicePublish, OperatorCommand,
        Disconnect, Sync, firmwareVars, loopVars
  <2>4. LoopNow \in UInt32 /\ LoopNow' = LoopNow
    BY <1>0, <2>2, MillisType DEF LoopNow
  <2>5. QED BY <1>0, <2>1, <2>2, <2>3, <2>4
<1>4. QED BY <1>1, <1>2, <1>3

\* What a Tick publishes, in types, and the pin it leaves.
LEMMA TickPublishes ==
  ASSUME TypesInv, TickAndPublish
  PROVE  /\ pin' = relayOn' /\ pin' \in BOOLEAN /\ lastFallback' \in BOOLEAN
         /\ brokerActual' \in Switches \cup {"none"}
         /\ brokerMode' \in Modes \cup {"none"}
<1>1. TypeOK' BY ControllerTypes DEF FirmwareNext, Pass
<1>2. /\ decision'.relayOn \in BOOLEAN /\ decision'.fallback \in BOOLEAN
      /\ decision'.mode \in Modes
  BY <1>1 DEF TypeOK, ControlDecision
<1>3. decision'.relayOn = relayOn' BY DEF TickAndPublish, Tick, SwitchRelay
<1>4. QED
  BY <1>2, <1>3
  DEF TickAndPublish, PublishMode, PublishChange, TypesInv, LoopInv, FirmwareTypeOK,
      Switches

\* Every step keeps the rest of the types.
LEMMA FlagsNext ==
  ASSUME TypesInv, [FirmwareNext]_firmwareVars
  PROVE  /\ pin' = relayOn' /\ {lastFallback, connected, synced, pin}' \subseteq BOOLEAN
         /\ brokerActual' \in Switches \cup {"none"}
         /\ brokerMode' \in Modes \cup {"none"}
<1>0. /\ pin = relayOn /\ {lastFallback, connected, synced, pin} \subseteq BOOLEAN
      /\ brokerActual \in Switches \cup {"none"} /\ brokerMode \in Modes \cup {"none"}
  BY DEF TypesInv, LoopInv, FirmwareTypeOK
<1>1. connected' \in BOOLEAN /\ synced' \in BOOLEAN
  BY <1>0
  DEF FirmwareNext, Pass, StartPass, StayOffline, StayOnline, Reconnect, HandleMessage,
      Sample, NoMessageYet, SkipSample, TickAndPublish, ServicePublish, OperatorCommand,
      Disconnect, Sync, TimePasses, firmwareVars, linkVars
<1>2. CASE TickAndPublish BY <1>1, <1>2, TickPublishes
<1>3. CASE ~TickAndPublish
  <2>1. UNCHANGED <<pin, lastFallback, brokerActual, brokerMode>>
    BY <1>3
    DEF FirmwareNext, Pass, StartPass, StayOffline, StayOnline, Reconnect, HandleMessage,
        Sample, NoMessageYet, SkipSample, ServicePublish, OperatorCommand,
        Disconnect, Sync, TimePasses, firmwareVars, loopVars, brokerVars
  <2>2. relayOn' = relayOn
    <3>1. CASE HandleMessage
      BY <3>1 DEF HandleMessage, OnMqttDesired, OnCommand, relayVars
    <3>2. CASE Sample BY <3>2 DEF Sample, OnSensorReading, relayVars
    <3>3. CASE TimePasses BY <3>3 DEF TimePasses, controllerButTime, relayVars
    <3>4. CASE ~(HandleMessage \/ Sample \/ TimePasses)
      BY <1>3, <3>4, ControllerCalled DEF vars, relayVars
    <3>5. QED BY <3>1, <3>2, <3>3, <3>4
  <2>3. QED BY <1>0, <1>1, <2>1, <2>2
<1>4. QED BY <1>2, <1>3

\* Every step keeps the history of the message held.
LEMMA HeldTypeNext ==
  ASSUME TypesInv, [FirmwareNext]_firmwareVars
  PROVE  held' # NothingHeld => held' \in HeldMessages /\ held'.at <= uptime'
<1>0. /\ uptime \in Nat /\ uptime' \in Nat /\ uptime <= uptime' /\ synced \in BOOLEAN
      /\ loopStart \in 0 .. uptime /\ uptime - loopStart <= LoopLag /\ LoopLag \in Nat
      /\ held # NothingHeld => held \in HeldMessages /\ held.at <= uptime
  BY TimeMoves, LoopConstants
  DEF TypesInv, LoopInv, FirmwareTypeOK, TypeOK, TimePasses
<1>1. CASE HandleMessage
  <2>1. CASE UNCHANGED held BY <1>0, <2>1 DEF HeldMessages
  <2>2. CASE ~UNCHANGED held
    <3>1. PICK readAt \in loopStart .. uptime :
            /\ Head(inbox) \in DesiredMessages /\ Head(inbox).sentAt <= readAt
            /\ held' = [message |-> Head(inbox), readAt |-> readAt, at |-> uptime,
                        aged |-> synced]
      BY <1>1, <2>2, HandledMessage
    <3>2. readAt \in Nat /\ uptime - readAt <= LoopLag BY <1>0
    <3>3. QED BY <1>0, <3>1, <3>2 DEF HeldMessages
  <2>3. QED BY <2>1, <2>2
<1>2. CASE ~HandleMessage
  <2>1. held' = held
    BY <1>2
    DEF FirmwareNext, Pass, StartPass, StayOffline, StayOnline, Reconnect,
        Sample, NoMessageYet, SkipSample, TickAndPublish, ServicePublish, OperatorCommand,
        Disconnect, Sync, TimePasses, firmwareVars
  <2>2. QED BY <1>0, <2>1 DEF HeldMessages
<1>3. QED BY <1>1, <1>2

\* The types, and what they rest on, hold in every state.
LEMMA TypesNext ==
  ASSUME TypesInv, [FirmwareNext]_firmwareVars
  PROVE  TypesInv'
<1>1. held' = NothingHeld \/ held'.message \in DesiredMessages
  BY HeldTypeNext DEF HeldMessages
<1>2. FirmwareTypeOK'
  BY <1>1, ControllerTypes, QueueNext, PassNext, FlagsNext DEF FirmwareTypeOK, Messages
<1>3. LoopInv' BY <1>2, PassNext, FlagsNext, HeldTypeNext DEF LoopInv
<1>4. QED BY <1>3, QueueNext DEF TypesInv

\* The invariant of the loop always holds.
LEMMA TypesInvHolds == FirmwareSpec => []TypesInv
  BY TypesInit, TypesNext, PTL DEF FirmwareSpec

\* Every variable of the loop, of the broker and of the controller keeps its type,
\* across wraps of the clock and messages of any age.
THEOREM FirmwareTypesHold == FirmwareSpec => []FirmwareTypeOK
<1>1. TypesInv => FirmwareTypeOK BY DEF TypesInv, LoopInv
<1>2. QED BY <1>1, TypesInvHolds, PTL

-----------------------------------------------------------------------------
(* The dwell times of the contact, whatever the clock does *)

\* The controller's time stamp is a clock reading of the pass that switched the
\* relay, which began at most the lag before.
StampedAt(s) ==
  /\ s \in Nat /\ s <= loopStart
  /\ switchedAt - LoopLag <= s /\ s <= switchedAt
  /\ lastRelayChange = Millis(s)

ContactInv ==
  /\ switchedAt <= uptime
  /\ relayOn => relayOnSince = lastRelayChange
  /\ \E s \in Nat : StampedAt(s)

\* Only a Tick moves the relay, its timers and the pin.
LEMMA OnlyTickMovesContact ==
  ASSUME TypesInv, [FirmwareNext]_firmwareVars, ~TickAndPublish
  PROVE  UNCHANGED <<relayVars, tickVars, pin>>
<1>1. UNCHANGED <<relayVars, tickVars>>
  <2>1. CASE HandleMessage BY <2>1 DEF HandleMessage, OnMqttDesired, OnCommand
  <2>2. CASE Sample BY <2>2 DEF Sample, OnSensorReading
  <2>3. CASE TimePasses BY <2>3 DEF TimePasses, controllerButTime
  <2>4. CASE ~(HandleMessage \/ Sample \/ TimePasses)
    BY <2>4, ControllerCalled DEF vars
  <2>5. QED BY <2>1, <2>2, <2>3, <2>4
<1>2. UNCHANGED pin BY <1>1, FlagsNext DEF relayVars, TypesInv, LoopInv
<1>3. QED BY <1>1, <1>2

\* Neither the time nor the start of the pass ever goes back; between two passes
\* the start stays.
LEMMA TimeForward ==
  ASSUME TypesInv, [FirmwareNext]_firmwareVars
  PROVE  /\ uptime' \in Nat /\ uptime <= uptime'
         /\ loopStart' \in Nat /\ loopStart <= loopStart' /\ loopStart' <= uptime'
         /\ ~StartPass => loopStart' = loopStart
<1>0. uptime \in Nat /\ loopStart \in 0 .. uptime
  BY DEF TypesInv, LoopInv, FirmwareTypeOK, TypeOK
<1>1. uptime' \in Nat /\ uptime <= uptime'
  BY <1>0, TimeMoves DEF TypesInv, TimePasses
<1>2. CASE StartPass BY <1>0, <1>1, <1>2, PassNext DEF StartPass
<1>3. CASE ~StartPass
  <2>1. loopStart' = loopStart
    BY <1>3
    DEF FirmwareNext, Pass, StayOffline, StayOnline, Reconnect, HandleMessage, Sample,
        NoMessageYet, SkipSample, TickAndPublish, ServicePublish, OperatorCommand,
        Disconnect, Sync, TimePasses, firmwareVars, loopVars
  <2>2. QED BY <1>0, <1>1, <2>1
<1>4. QED BY <1>2, <1>3

\* A Tick that changes the relay stamps it with the start of its pass; one that
\* does not leaves the timers alone.
LEMMA TickStamps ==
  ASSUME TypesInv, ContactInv, TickAndPublish
  PROVE  /\ relayOn' # relayOn =>
              /\ lastRelayChange' = LoopNow /\ switchedAt' = uptime
              /\ relayOn' => relayOnSince' = LoopNow
         /\ relayOn' = relayOn =>
              UNCHANGED <<lastRelayChange, relayOnSince, switchedAt>>
         /\ UNCHANGED <<loopStart, uptime>>
<1>1. relayOn' = Outcome(LoopNow).on /\ SwitchRelay(Outcome(LoopNow).on, LoopNow)
  BY TickEffect DEF TickAndPublish, Tick
<1>2. UNCHANGED <<loopStart, uptime>> BY DEF TickAndPublish, Tick
<1>3. QED BY <1>1, <1>2 DEF SwitchRelay

\* Every step keeps the time stamp a reading of the pass that switched.
LEMMA ContactNext ==
  ASSUME TypesInv, ContactInv, [FirmwareNext]_firmwareVars
  PROVE  ContactInv'
<1>0. /\ uptime \in Nat /\ loopStart \in 0 .. uptime /\ switchedAt \in Nat
      /\ uptime - loopStart <= LoopLag
  BY DEF TypesInv, LoopInv, FirmwareTypeOK, TypeOK
<1>1. CASE TickAndPublish /\ relayOn' # relayOn
  <2>1. /\ lastRelayChange' = LoopNow /\ switchedAt' = uptime
        /\ relayOn' => relayOnSince' = LoopNow
        /\ loopStart' = loopStart /\ uptime' = uptime
    BY <1>1, TickStamps
  <2>2. StampedAt(loopStart)' BY <1>0, <2>1, LoopConstants DEF StampedAt, LoopNow
  <2>3. QED BY <1>0, <2>1, <2>2 DEF ContactInv
<1>2. CASE ~(TickAndPublish /\ relayOn' # relayOn)
  <2>1. UNCHANGED <<lastRelayChange, relayOnSince, switchedAt, relayOn>>
    BY <1>2, TickStamps, OnlyTickMovesContact DEF relayVars, tickVars
  <2>2. uptime' \in Nat /\ uptime <= uptime' /\ loopStart' \in Nat /\ loopStart <= loopStart'
    BY TimeForward
  <2>3. PICK s \in Nat : StampedAt(s) BY DEF ContactInv
  <2>4. StampedAt(s)' BY <1>0, <2>1, <2>2, <2>3 DEF StampedAt
  <2>5. switchedAt' <= uptime' BY <1>0, <2>1, <2>2 DEF ContactInv
  <2>6. QED BY <2>1, <2>4, <2>5 DEF ContactInv
<1>3. QED BY <1>1, <1>2

\* At boot every timer starts at time zero.
LEMMA ContactInit == FirmwareInit => ContactInv
<1> SUFFICES ASSUME FirmwareInit PROVE ContactInv OBVIOUS
<1>1. /\ switchedAt = 0 /\ uptime = 0 /\ loopStart = 0
      /\ lastRelayChange = 0 /\ relayOn = FALSE
  BY DEF FirmwareInit, Init
<1>2. Millis(0) = 0 BY MillisExact, ClockModulusAssumption
<1>3. StampedAt(0) BY <1>1, <1>2, LoopConstants DEF StampedAt
<1>4. QED BY <1>1, <1>3 DEF ContactInv

\* The invariant of the contact always holds.
LEMMA ContactInvHolds == FirmwareSpec => [](TypesInv /\ ContactInv)
<1>1. FirmwareInit => TypesInv /\ ContactInv BY TypesInit, ContactInit
<1>2. (TypesInv /\ ContactInv) /\ [FirmwareNext]_firmwareVars => (TypesInv /\ ContactInv)'
  BY TypesNext, ContactNext
<1>3. QED BY <1>1, <1>2, PTL DEF FirmwareSpec

\* However long its passes take and however often the clock wraps, the contact of
\* the relay keeps the dwell times up to the lag of one pass.
THEOREM ContactKeepsDwell == FirmwareSpec => ContactDwellKept
<1>1. TypesInv /\ ContactInv /\ [FirmwareNext]_firmwareVars =>
        [pin' # pin =>
           uptime - switchedAt >=
             (IF pin THEN ShortestRun ELSE MinFanOff) - LoopLag]_firmwareVars
  <2> SUFFICES ASSUME TypesInv, ContactInv, FirmwareNext, pin' # pin
               PROVE  uptime - switchedAt >=
                        (IF pin THEN ShortestRun ELSE MinFanOff) - LoopLag
    OBVIOUS
  <2>1. TickAndPublish BY OnlyTickMovesContact
  <2>2. relayOn' # relayOn /\ pin = relayOn
    BY <2>1, TickPublishes DEF TypesInv, LoopInv
  <2>3. /\ TypeOK /\ uptime \in Nat /\ loopStart \in Nat /\ loopStart <= uptime
        /\ switchedAt \in Nat
    BY DEF TypesInv, LoopInv, FirmwareTypeOK, TypeOK
  <2>4. LoopNow \in UInt32 BY <2>3, MillisType DEF LoopNow
  <2>5. /\ SaturatingSub(LoopNow, lastRelayChange) \in Nat
        /\ SaturatingSub(LoopNow, lastRelayChange) >=
             IF relayOn THEN ShortestRun ELSE MinFanOff
    BY <2>1, <2>2, <2>3, <2>4, SwitchElapsed DEF ContactInv, TickAndPublish
  <2>6. PICK s \in Nat : StampedAt(s) BY DEF ContactInv
  <2>7. SaturatingSub(LoopNow, lastRelayChange) <= loopStart - s
    BY <2>3, <2>6, ElapsedNeverLate DEF StampedAt, LoopNow
  <2>8. QED
    BY <2>2, <2>3, <2>5, <2>6, <2>7, LoopConstants, ShortestRunType DEF StampedAt
<1>2. QED BY <1>1, ContactInvHolds, PTL DEF FirmwareSpec, ContactDwellKept

-----------------------------------------------------------------------------
(* The bound on a run, for an uptime below the wrap *)

\* How late the next sample may be and how long the relay may have been on, step
\* by step of a pass: the cutoff has just been tested, or a Tick is under way.
RunInv ==
  /\ lastRelayChange <= loopStart
  /\ lastRelayChange <= switchedAt /\ switchedAt - LoopLag <= lastRelayChange
  /\ lastSample <= loopStart
  /\ pc = "idle" => loopStart - lastSample < SampleInterval
  /\ pc \in {"network", "receive", "sample"} =>
       loopStart - lastSample < SampleInterval + LoopLag
  /\ relayOn =>
       IF pc = "tick"
         THEN loopStart - lastRelayChange <= MaxRuntime + SampleInterval + LoopLag - 2
         ELSE lastSample - lastRelayChange < MaxRuntime

\* The values the proof compares.
LEMMA LoopValues ==
  ASSUME Horizon < ClockModulus, TypesInv
  PROVE  /\ uptime \in Nat /\ loopStart \in Nat /\ loopStart <= uptime
         /\ uptime <= Horizon /\ uptime < ClockModulus
         /\ uptime - loopStart <= LoopLag
         /\ LoopNow = loopStart /\ Now = uptime
         /\ lastRelayChange \in Nat /\ lastSample \in Nat /\ switchedAt \in Nat
         /\ lastSample < ClockModulus /\ lastRelayChange < ClockModulus
         /\ relayOn \in BOOLEAN
<1>1. /\ uptime \in Nat /\ loopStart \in 0 .. uptime /\ uptime <= Horizon
      /\ lastRelayChange \in UInt32 /\ lastSample \in UInt32 /\ switchedAt \in Nat
      /\ relayOn \in BOOLEAN /\ uptime - loopStart <= LoopLag
  BY DEF TypesInv, LoopInv, FirmwareTypeOK, TypeOK
<1>2. loopStart \in Nat /\ loopStart <= uptime /\ uptime < ClockModulus
  BY <1>1, LoopConstants, ClockModulusAssumption
<1>3. LoopNow = loopStart /\ Now = uptime
  BY <1>1, <1>2, ClockModulusAssumption, MillisExact DEF LoopNow, Now
<1>4. QED BY <1>1, <1>2, <1>3, ClockModulusAssumption DEF UInt32

\* A sample is due when the interval has passed.
LEMMA SampleDueExact ==
  ASSUME Horizon < ClockModulus, TypesInv, lastSample <= loopStart
  PROVE  SampleDue <=> loopStart - lastSample >= SampleInterval
<1>1. /\ loopStart - lastSample \in Nat /\ loopStart - lastSample < ClockModulus
      /\ LoopNow = loopStart
  BY LoopValues, ClockModulusAssumption
<1>2. Sub32(LoopNow, lastSample) = loopStart - lastSample
  BY <1>1, MillisExact DEF Sub32, Millis
<1>3. QED BY <1>2 DEF SampleDue

\* A Tick that leaves the relay on has just begun the run or tested the cutoff.
LEMMA TickTestsCutoff ==
  ASSUME Horizon < ClockModulus, TypesInv, ContactInv, RunInv, TickAndPublish, relayOn'
  PROVE  lastSample' - lastRelayChange' < MaxRuntime
<1>1. lastSample = loopStart /\ LoopNow = loopStart /\ lastSample' = lastSample
  BY LoopValues DEF TypesInv, LoopInv, TickAndPublish
<1>2. CASE relayOn' # relayOn
  BY <1>1, <1>2, TickStamps, LoopValues, ShortestRunType
<1>3. CASE relayOn' = relayOn
  <2>1. lastRelayChange' = lastRelayChange BY <1>3, TickStamps
  <2>2. relayOn' = Outcome(LoopNow).on BY TickEffect DEF TickAndPublish
  <2>3. ~MaxRuntimeExceeded(LoopNow) BY <2>2 DEF Outcome
  <2>4. SaturatingSub(loopStart, lastRelayChange) < MaxRuntime
    <3>1. relayOn /\ relayOnSince = lastRelayChange BY <1>3 DEF ContactInv
    <3>2. ~(SaturatingSub(loopStart, lastRelayChange) >= MaxRuntime)
      BY <1>1, <2>3, <3>1 DEF MaxRuntimeExceeded
    <3>3. SaturatingSub(loopStart, lastRelayChange) \in Nat
      BY LoopValues DEF SaturatingSub
    <3>4. QED BY <3>2, <3>3, ShortestRunType
  <2>5. loopStart - lastRelayChange < MaxRuntime
    BY <2>4, LoopValues, ShortestRunType DEF SaturatingSub, RunInv
  <2>6. QED BY <1>1, <2>1, <2>5
<1>4. QED BY <1>2, <1>3

\* Every step keeps the bounds of its place in the pass.
LEMMA RunNext ==
  ASSUME Horizon < ClockModulus, TypesInv, ContactInv, RunInv,
         [FirmwareNext]_firmwareVars
  PROVE  RunInv'
<1>0. /\ TypesInv' /\ SampleInterval \in Nat \ {0} /\ LoopLag \in Nat \ {0}
      /\ MaxRuntime \in Nat \ {0}
      /\ pc \in {"idle", "network", "receive", "sample", "tick"}
  BY TypesNext, LoopConstants, ShortestRunType DEF TypesInv, LoopInv, FirmwareTypeOK
<1>1. CASE TickAndPublish
  <2>1. /\ lastSample = loopStart /\ LoopNow = loopStart /\ lastSample' = lastSample
        /\ loopStart' = loopStart /\ pc' = "idle" /\ uptime' = uptime
    BY <1>1, LoopValues DEF TypesInv, LoopInv, TickAndPublish, Tick
  <2>2. /\ lastRelayChange' <= loopStart'
        /\ lastRelayChange' <= switchedAt' /\ switchedAt' - LoopLag <= lastRelayChange'
    <3>1. CASE relayOn' # relayOn BY <1>0, <1>1, <2>1, <3>1, TickStamps, LoopValues
    <3>2. CASE relayOn' = relayOn BY <1>1, <2>1, <3>2, TickStamps DEF RunInv
    <3>3. QED BY <3>1, <3>2
  <2>3. relayOn' => lastSample' - lastRelayChange' < MaxRuntime
    BY <1>1, TickTestsCutoff
  <2>4. QED BY <1>0, <2>1, <2>2, <2>3, LoopValues DEF RunInv
<1>2. CASE ~TickAndPublish
  <2>0. UNCHANGED <<relayOn, lastRelayChange, switchedAt>>
    BY <1>2, OnlyTickMovesContact DEF relayVars, tickVars
  <2>1. CASE StartPass
    <3>1. /\ pc = "idle" /\ pc' = "network" /\ loopStart' = uptime /\ uptime' = uptime
          /\ lastSample' = lastSample
      BY <2>1 DEF StartPass, vars
    <3>2. QED BY <1>0, <2>0, <3>1, LoopValues DEF RunInv
  <2>2. CASE Sample
    <3>1. /\ pc = "sample" /\ pc' = "tick" /\ loopStart' = loopStart
          /\ lastSample' = LoopNow
      BY <2>2 DEF Sample
    <3>2. relayOn =>
            loopStart - lastRelayChange <= MaxRuntime + SampleInterval + LoopLag - 2
      BY <1>0, <3>1, LoopValues DEF RunInv
    <3>3. QED BY <1>0, <2>0, <3>1, <3>2, LoopValues DEF RunInv
  <2>3. CASE SkipSample
    <3>1. /\ pc = "sample" /\ pc' = "idle" /\ loopStart' = loopStart
          /\ lastSample' = lastSample /\ ~SampleDue
      BY <2>3 DEF SkipSample
    <3>2. ~(loopStart - lastSample >= SampleInterval)
      BY <3>1, SampleDueExact DEF RunInv
    <3>3. QED BY <1>0, <2>0, <3>1, <3>2, LoopValues DEF RunInv
  <2>4. CASE ~(StartPass \/ Sample \/ SkipSample)
    <3>1. UNCHANGED <<loopStart, lastSample>>
      BY <1>2, <2>4
      DEF FirmwareNext, Pass, StayOffline, StayOnline, Reconnect, HandleMessage,
          NoMessageYet, ServicePublish, OperatorCommand, Disconnect, Sync, TimePasses,
          firmwareVars, loopVars
    <3>2. \/ pc' = pc
          \/ pc \in {"network", "receive"} /\ pc' \in {"receive", "sample"}
      BY <1>2, <2>4
      DEF FirmwareNext, Pass, StayOffline, StayOnline, Reconnect, HandleMessage,
          NoMessageYet, ServicePublish, OperatorCommand, Disconnect, Sync, TimePasses,
          firmwareVars, loopVars
    <3>3. QED BY <2>0, <3>1, <3>2 DEF RunInv
  <2>5. QED BY <2>1, <2>2, <2>3, <2>4
<1>3. QED BY <1>1, <1>2

\* At boot no time has passed.
LEMMA RunInit == FirmwareInit => RunInv
<1> SUFFICES ASSUME FirmwareInit PROVE RunInv OBVIOUS
<1>1. /\ switchedAt = 0 /\ loopStart = 0 /\ lastSample = 0 /\ pc = "idle"
      /\ lastRelayChange = 0 /\ relayOn = FALSE
  BY DEF FirmwareInit, Init
<1>2. QED BY <1>1, LoopConstants DEF RunInv

\* Below the wrap the bounds of the pass always hold.
LEMMA RunInvHolds ==
  ASSUME Horizon < ClockModulus
  PROVE  FirmwareSpec => [](TypesInv /\ ContactInv /\ RunInv)
<1>1. FirmwareInit => RunInv BY RunInit
<1>2. TypesInv /\ ContactInv /\ RunInv /\ [FirmwareNext]_firmwareVars => RunInv'
  BY RunNext
<1>3. QED BY <1>1, <1>2, ContactInvHolds, PTL DEF FirmwareSpec

\* As long as the clock does not wrap, no contact stays closed for longer than the
\* runtime limit, the wait for a sample and the lag of two passes, whatever blocks
\* the loop and whoever asks for the fan.
THEOREM ContactRunIsBounded ==
  ASSUME Horizon < ClockModulus
  PROVE  FirmwareSpec => []ContactRuntimeBounded
<1>1. TypesInv /\ RunInv => ContactRuntimeBounded
  <2> SUFFICES ASSUME TypesInv, RunInv, pin
               PROVE  uptime - switchedAt <=
                        MaxRuntime + SampleInterval + 2 * LoopLag - 2
    BY DEF ContactRuntimeBounded
  <2>1. relayOn /\ pc \in {"idle", "network", "receive", "sample", "tick"}
    BY DEF TypesInv, LoopInv, FirmwareTypeOK
  <2>2. uptime - switchedAt <= loopStart - lastRelayChange + LoopLag
    BY LoopValues, LoopConstants DEF RunInv
  <2>3. loopStart - lastRelayChange <= MaxRuntime + SampleInterval + LoopLag - 2
    BY <2>1, LoopValues, LoopConstants, ShortestRunType DEF RunInv
  <2>4. QED BY <2>2, <2>3, LoopValues, LoopConstants, ShortestRunType
<1>2. QED BY <1>1, RunInvHolds, PTL

-----------------------------------------------------------------------------
(* What a fan/desired message may still decide *)

\* The age the code saw of the message it holds.
HeldAge ==
  LET seconds == Seconds(held.readAt) - held.message.issuedAt
  IN  IF held.aged /\ seconds > 0 THEN Millis(seconds * Second) ELSE 0

\* The controller holds the last message handled, stamped as its age told.
HeldInv ==
  /\ mqttReceived <=> held # NothingHeld
  /\ held # NothingHeld =>
       /\ mqttDesiredOn = held.message.on
       /\ mqttIssuedAt = SaturatingSub(Millis(held.at), HeldAge)

\* Only a message handled changes what the controller holds.
LEMMA OnlyHandlingHolds ==
  ASSUME [FirmwareNext]_firmwareVars, ~HandleMessage
  PROVE  UNCHANGED <<mqttVars, held>>
<1>1. UNCHANGED mqttVars
  <2>1. CASE Sample BY <2>1 DEF Sample, OnSensorReading
  <2>2. CASE TickAndPublish BY <2>2 DEF TickAndPublish, Tick
  <2>3. CASE TimePasses BY <2>3 DEF TimePasses, controllerButTime
  <2>4. CASE ~(Sample \/ TickAndPublish \/ TimePasses)
    BY <2>4, ControllerCalled DEF vars
  <2>5. QED BY <2>1, <2>2, <2>3, <2>4
<1>2. UNCHANGED held
  BY DEF FirmwareNext, Pass, StartPass, StayOffline, StayOnline, Reconnect, Sample,
         NoMessageYet, SkipSample, TickAndPublish, ServicePublish, OperatorCommand,
         Disconnect, Sync, TimePasses, firmwareVars
<1>3. QED BY <1>1, <1>2

\* Every step keeps the message held and its stamp together.
LEMMA HeldNext ==
  ASSUME TypesInv, HeldInv, [FirmwareNext]_firmwareVars
  PROVE  HeldInv'
<1>1. CASE HandleMessage
  <2>0. PICK readAt \in loopStart .. uptime :
          \/ /\ Head(inbox) \in DesiredMessages
             /\ OnMqttDesired(Head(inbox).on, AgeOf(Head(inbox), readAt), Now)
             /\ held' = [message |-> Head(inbox), readAt |-> readAt, at |-> uptime,
                         aged |-> synced]
          \/ /\ OnCommand(Head(inbox).type, Head(inbox).duration,
                          AgeOf(Head(inbox), readAt), Now)
             /\ UNCHANGED held
    BY <1>1, HandledMessage
  <2>1. CASE /\ Head(inbox) \in DesiredMessages
             /\ OnMqttDesired(Head(inbox).on, AgeOf(Head(inbox), readAt), Now)
             /\ held' = [message |-> Head(inbox), readAt |-> readAt, at |-> uptime,
                         aged |-> synced]
    <3>1. /\ mqttReceived' = TRUE /\ mqttDesiredOn' = Head(inbox).on
          /\ mqttIssuedAt' = SaturatingSub(Now, AgeOf(Head(inbox), readAt))
      BY <2>1 DEF OnMqttDesired, IssuedAt
    <3>2. HeldAge' = AgeOf(Head(inbox), readAt) /\ Millis(held'.at) = Now
      BY <2>1 DEF HeldAge, AgeOf, WallClock, Now, Millis
    <3>3. held' # NothingHeld
      <4>1. held'.message # NothingHeld.message
        BY <2>1 DEF NothingHeld, NoMessage, DesiredMessages
      <4>2. QED BY <4>1
    <3>4. held'.message.on = Head(inbox).on BY <2>1
    <3>5. QED BY <3>1, <3>2, <3>3, <3>4 DEF HeldInv
  <2>2. CASE /\ OnCommand(Head(inbox).type, Head(inbox).duration,
                          AgeOf(Head(inbox), readAt), Now)
             /\ UNCHANGED held
    BY <2>2 DEF OnCommand, mqttVars, HeldInv, HeldAge, Millis
  <2>3. QED BY <2>0, <2>1, <2>2
<1>2. CASE ~HandleMessage
  BY <1>2, OnlyHandlingHolds DEF mqttVars, HeldInv, HeldAge, Millis
<1>3. QED BY <1>1, <1>2

\* The message held and the types, in every state.
LEMMA HeldInvHolds == FirmwareSpec => [](TypesInv /\ HeldInv)
<1>1. FirmwareInit => HeldInv
  <2> SUFFICES ASSUME FirmwareInit PROVE HeldInv OBVIOUS
  <2>1. mqttReceived = FALSE /\ held = NothingHeld BY DEF FirmwareInit, Init
  <2>2. QED BY <2>1 DEF HeldInv
<1>2. TypesInv /\ HeldInv /\ [FirmwareNext]_firmwareVars => HeldInv' BY HeldNext
<1>3. QED BY <1>1, <1>2, TypesInvHolds, PTL DEF FirmwareSpec

\* The values of the message held, below the wrap.
LEMMA HeldValues ==
  ASSUME Horizon < ClockModulus, TypesInv, HeldInv, held # NothingHeld
  PROVE  /\ held.message \in DesiredMessages /\ held.message.sentAt \in Int
         /\ held.message.issuedAt \in Int /\ held.message.on \in BOOLEAN
         /\ held.at \in Nat /\ held.at <= uptime
         /\ held.readAt \in Nat /\ held.readAt <= held.at
         /\ held.at - held.readAt <= LoopLag
         /\ held.message.sentAt <= held.readAt
         /\ held.aged \in BOOLEAN /\ HeldAge \in Nat
         /\ mqttIssuedAt = SaturatingSub(held.at, HeldAge)
         /\ mqttIssuedAt \in Nat /\ mqttIssuedAt <= held.at
<1>1. /\ held.message \in DesiredMessages /\ held.at \in Nat /\ held.at <= uptime
      /\ held.readAt \in Nat /\ held.readAt <= held.at
      /\ held.at - held.readAt <= LoopLag
      /\ held.message.sentAt <= held.readAt /\ held.aged \in BOOLEAN
      /\ held.message.sentAt \in Int /\ held.message.issuedAt \in Int
      /\ held.message.on \in BOOLEAN
  BY DEF TypesInv, LoopInv, HeldMessages, DesiredMessages
<1>2. held.at < ClockModulus BY <1>1, LoopValues, ClockModulusAssumption
<1>3. Millis(held.at) = held.at BY <1>1, <1>2, MillisExact
<1>4. HeldAge \in Nat
  <2> DEFINE seconds == Seconds(held.readAt) - held.message.issuedAt
  <2>1. seconds \in Int BY <1>1, StampType
  <2>2. seconds > 0 => Millis(seconds * Second) \in Nat
    <3>1. SUFFICES ASSUME seconds > 0 PROVE Millis(seconds * Second) \in Nat OBVIOUS
    <3>2. seconds * Second \in Nat BY <2>1, <3>1, LoopConstants
    <3>3. QED BY <3>2, MillisType, ClockModulusAssumption DEF UInt32
  <2>3. QED BY <2>2 DEF HeldAge
<1>5. mqttIssuedAt = SaturatingSub(held.at, HeldAge) BY <1>3 DEF HeldInv
<1>6. mqttIssuedAt \in Nat /\ mqttIssuedAt <= held.at
  BY <1>1, <1>4, <1>5 DEF SaturatingSub
<1>7. QED BY <1>1, <1>4, <1>5, <1>6

\* An age read from a stamp of the right second, and with room in 32 bits, is the time
\* since the message was sent, up to a second.
LEMMA AgeUpToSecond ==
  ASSUME Horizon < ClockModulus, TypesInv, HeldInv, held # NothingHeld, AgeKnown
  PROVE  /\ HeldAge < held.readAt - held.message.sentAt + Second
         /\ held.readAt - held.message.sentAt < HeldAge + Second
<1> DEFINE elapsed == held.readAt - held.message.sentAt
           seconds == Seconds(held.readAt) - Seconds(held.message.sentAt)
<1>1. /\ held.readAt \in Int /\ held.message.sentAt \in Int
      /\ elapsed \in Nat /\ Second \in Nat /\ ClockModulus \in Nat
  BY HeldValues, LoopConstants, ClockModulusAssumption
<1>2. seconds \in Int BY <1>1, StampType
<1>3. seconds * Second < elapsed + Second /\ elapsed < seconds * Second + Second
  BY <1>1, SecondsBetween
<1>4. HeldAge = IF seconds > 0 THEN Millis(seconds * Second) ELSE 0
  BY DEF HeldAge, AgeKnown, Dated
<1>5. elapsed + Second <= ClockModulus BY DEF AgeKnown
<1> HIDE DEF elapsed, seconds
<1>6. CASE seconds > 0
  <2>1. seconds * Second \in Nat BY <1>1, <1>2, <1>6
  <2>2. seconds * Second < ClockModulus BY <1>1, <1>3, <1>5, <2>1
  <2>3. HeldAge = seconds * Second BY <1>4, <1>6, <2>1, <2>2, MillisExact
  <2>4. QED BY <1>3, <2>3 DEF elapsed
<1>7. CASE ~(seconds > 0)
  <2>1. HeldAge = 0 BY <1>4, <1>7
  <2>2. seconds * Second <= 0
    <3>1. seconds <= 0 /\ Second >= 0 BY <1>1, <1>2, <1>7
    <3>2. QED BY <1>1, <1>2, <3>1
  <2>3. seconds * Second \in Int BY <1>1, <1>2
  <2>4. elapsed < Second /\ 0 < elapsed + Second
    BY <1>1, <1>3, <2>2, <2>3, LoopConstants
  <2>5. QED BY <1>1, <2>1, <2>4 DEF elapsed
<1>8. QED BY <1>6, <1>7

\* With its age known a message is never stamped later than a second, and the time the
\* pass took to hand it on, after it was sent, unless the stamp is time zero.
LEMMA AgedStamp ==
  ASSUME Horizon < ClockModulus, TypesInv, HeldInv, held # NothingHeld, AgeKnown
  PROVE  \/ mqttIssuedAt = 0
         \/ mqttIssuedAt < held.message.sentAt + LoopLag + Second
<1>1. CASE HeldAge >= held.at BY <1>1, HeldValues DEF SaturatingSub
<1>2. CASE HeldAge < held.at
  <2>1. mqttIssuedAt = held.at - HeldAge BY <1>2, HeldValues DEF SaturatingSub
  <2>2. held.readAt - held.message.sentAt < HeldAge + Second BY AgeUpToSecond
  <2>3. QED BY <2>1, <2>2, HeldValues, LoopConstants
<1>3. QED BY <1>1, <1>2, HeldValues

\* In automatic mode there is a message, and the pass finds it fresh, or began
\* before it was issued.
LEMMA AutomaticIsFresh ==
  ASSUME Horizon < ClockModulus, TypesInv, HeldInv, TickAndPublish,
         decision'.mode = "automatic"
  PROVE  /\ held # NothingHeld
         /\ \/ mqttIssuedAt > loopStart
            \/ loopStart - mqttIssuedAt <= StaleTimeout
<1>1. OperatingMode(LoopNow) = "automatic" BY TickEffect DEF TickAndPublish
<1>2. LoopNow = loopStart BY LoopValues
<1>3. mqttReceived /\ Sub32(loopStart, mqttIssuedAt) <= StaleTimeout
  BY <1>1, <1>2 DEF OperatingMode, IsMqttFresh
<1>4. held # NothingHeld BY <1>3 DEF HeldInv
<1>5. CASE mqttIssuedAt <= loopStart
  <2>1. /\ loopStart - mqttIssuedAt \in Nat
        /\ loopStart - mqttIssuedAt < ClockModulus
    BY <1>4, <1>5, HeldValues, LoopValues, ClockModulusAssumption
  <2>2. Sub32(loopStart, mqttIssuedAt) = loopStart - mqttIssuedAt
    BY <2>1, MillisExact DEF Sub32, Millis
  <2>3. QED BY <1>3, <1>4, <2>2
<1>6. QED BY <1>4, <1>5, HeldValues, LoopValues

\* As long as the clock does not wrap, a message decides for the stale timeout after
\* it came in and the lag of a pass at most, even when its age is unknown.
THEOREM MessagesLapse ==
  ASSUME Horizon < ClockModulus
  PROVE  FirmwareSpec => MessageLapses
<1>1. TypesInv /\ HeldInv /\ [FirmwareNext]_firmwareVars =>
        [TickAndPublish /\ decision'.mode = "automatic" =>
           uptime - held.at <= StaleTimeout + LoopLag]_firmwareVars
  <2> SUFFICES ASSUME TypesInv, HeldInv, TickAndPublish, decision'.mode = "automatic"
               PROVE  uptime - held.at <= StaleTimeout + LoopLag
    OBVIOUS
  <2>1. /\ mqttIssuedAt \in Nat /\ held.at \in Nat /\ mqttIssuedAt <= held.at
        /\ \/ mqttIssuedAt > loopStart
           \/ loopStart - mqttIssuedAt <= StaleTimeout
    BY AutomaticIsFresh, HeldValues
  <2>2. QED BY <2>1, LoopValues, LoopConstants, ShortestRunType
<1>2. QED BY <1>1, HeldInvHolds, PTL DEF FirmwareSpec, MessageLapses

\* A message fresh by a second keeps its stamp within the stale timeout, whether its
\* age was not known or told by a stamp of the right second.
LEMMA FreshStamp ==
  ASSUME Horizon < ClockModulus, TypesInv, HeldInv, held # NothingHeld,
         held.aged => Dated(held.message),
         uptime - held.message.sentAt + Second - 1 <= StaleTimeout
  PROVE  uptime - mqttIssuedAt <= StaleTimeout
<1>1. StaleTimeout \in Nat /\ StaleTimeout < ClockModulus /\ ClockModulus \in Nat
  BY ConfigAssumption, ClockModulusAssumption DEF UInt32
<1>2. CASE held.aged
  <2>1. AgeKnown
    BY <1>1, <1>2, HeldValues, LoopValues, LoopConstants DEF AgeKnown
  <2>2. HeldAge < held.readAt - held.message.sentAt + Second BY <2>1, AgeUpToSecond
  <2>3. mqttIssuedAt >= held.at - HeldAge BY HeldValues DEF SaturatingSub
  <2>4. QED BY <1>1, <2>2, <2>3, HeldValues, LoopValues, LoopConstants
<1>3. CASE ~held.aged
  <2>1. HeldAge = 0 BY <1>3 DEF HeldAge
  <2>2. mqttIssuedAt = held.at BY <2>1, HeldValues DEF SaturatingSub
  <2>3. QED BY <1>1, <2>2, HeldValues, LoopValues, LoopConstants
<1>4. QED BY <1>2, <1>3

\* As long as the clock does not wrap, a message handled in an earlier pass and fresh by
\* a second is what governs, whether or not its age was known, unless an override does
\* or it was stamped before its sender's clock was set.
THEOREM FreshMessageGoverns ==
  ASSUME Horizon < ClockModulus
  PROVE  FirmwareSpec => HeldCommandGoverns
<1>1. TypesInv /\ HeldInv /\ [FirmwareNext]_firmwareVars =>
        [TickAndPublish /\ ~IsOverrideActive(LoopNow) /\ held # NothingHeld
         /\ (held.aged => Dated(held.message))
         /\ uptime - held.message.sentAt + Second - 1 <= StaleTimeout
         /\ held.at <= loopStart =>
           decision'.mode = "automatic"]_firmwareVars
  <2> SUFFICES ASSUME TypesInv, HeldInv, TickAndPublish, ~IsOverrideActive(LoopNow),
                      held # NothingHeld, held.aged => Dated(held.message),
                      uptime - held.message.sentAt + Second - 1 <= StaleTimeout,
                      held.at <= loopStart
               PROVE  decision'.mode = "automatic"
    OBVIOUS
  <2>1. uptime - mqttIssuedAt <= StaleTimeout BY FreshStamp
  <2>2. /\ loopStart - mqttIssuedAt \in Nat
        /\ loopStart - mqttIssuedAt <= StaleTimeout
    BY <2>1, HeldValues, LoopValues, ShortestRunType
  <2>3. Sub32(LoopNow, mqttIssuedAt) = loopStart - mqttIssuedAt
    BY <2>2, HeldValues, LoopValues, MillisExact, ClockModulusAssumption
    DEF Sub32, Millis
  <2>4. IsMqttFresh(LoopNow) BY <2>2, <2>3 DEF IsMqttFresh, HeldInv
  <2>5. OperatingMode(LoopNow) = "automatic" BY <2>4 DEF OperatingMode
  <2>6. QED BY <2>5, TickEffect DEF TickAndPublish
<1>2. QED BY <1>1, HeldInvHolds, PTL DEF FirmwareSpec, HeldCommandGoverns

\* As long as the clock does not wrap, a message whose age was known decides until it is
\* stale by a second and the lag of two passes at most, wherever the broker kept it,
\* once the device is up for the stale timeout.
THEOREM StaleMessagesIgnoredIfAged ==
  ASSUME Horizon < ClockModulus
  PROVE  FirmwareSpec => StaleMessageIgnoredIfAged
<1>1. TypesInv /\ HeldInv /\ [FirmwareNext]_firmwareVars =>
        [TickAndPublish /\ decision'.mode = "automatic"
         /\ uptime > StaleTimeout + LoopLag /\ AgeKnown =>
           uptime - held.message.sentAt
             < StaleTimeout + 2 * LoopLag + Second]_firmwareVars
  <2> SUFFICES ASSUME TypesInv, HeldInv, TickAndPublish,
                      decision'.mode = "automatic", uptime > StaleTimeout + LoopLag,
                      AgeKnown
               PROVE  uptime - held.message.sentAt < StaleTimeout + 2 * LoopLag + Second
    OBVIOUS
  <2>1. /\ held # NothingHeld
        /\ \/ mqttIssuedAt > loopStart
           \/ loopStart - mqttIssuedAt <= StaleTimeout
    BY AutomaticIsFresh
  <2>2. \/ mqttIssuedAt = 0
        \/ mqttIssuedAt < held.message.sentAt + LoopLag + Second
    BY <2>1, AgedStamp
  <2>3. QED BY <2>1, <2>2, HeldValues, LoopValues, LoopConstants, ShortestRunType
<1>2. QED BY <1>1, HeldInvHolds, PTL DEF FirmwareSpec, StaleMessageIgnoredIfAged

\* The fan/desired messages the broker or the device still has.
Known ==
  {m \in DesiredMessages :
     \/ m = brokerDesired
     \/ \E i \in 1 .. Len(inbox) : m = inbox[i]
     \/ held # NothingHeld /\ m = held.message}

\* A message known after a step was known before, or has just been published: by the
\* service, or by the device about a change of its relay.
LEMMA KnownNext ==
  ASSUME TypesInv, [FirmwareNext]_firmwareVars, NEW m \in Known'
  PROVE  /\ m \in DesiredMessages
         /\ \/ m \in Known
            \/ m.sentAt = uptime /\ m.source = "automation"
            \/ /\ TickAndPublish /\ m.sentAt = uptime
               /\ relayOn' # relayOn /\ m.on = relayOn'
<1>0. /\ uptime \in Nat /\ inbox \in Seq(Messages)
      /\ brokerDesired \in DesiredMessages \cup {NoMessage}
  BY DEF TypesInv, LoopInv, FirmwareTypeOK, TypeOK, Messages
<1>1. m \in DesiredMessages BY DEF Known
<1>2. ASSUME m = brokerDesired', ~UNCHANGED brokerDesired
      PROVE  \/ m.sentAt = uptime /\ m.source = "automation"
             \/ /\ TickAndPublish /\ m.sentAt = uptime
                /\ relayOn' # relayOn /\ m.on = relayOn'
  <2>1. CASE ServicePublish
    <3>1. PICK on \in BOOLEAN :
            brokerDesired' = Desired(on, "automation", Seconds(uptime))
      BY <2>1 DEF ServicePublish
    <3>2. QED BY <1>2, <3>1 DEF Desired
  <2>2. CASE TickAndPublish
    <3>1. /\ decision'.changed
          /\ brokerDesired' =
               Desired(decision'.relayOn, "local_fallback", WallClock(uptime))
      BY <1>2, <2>2 DEF TickAndPublish, PublishChange
    <3>2. /\ decision'.relayOn = relayOn'
          /\ decision'.changed <=> relayOn' # relayOn
      BY <2>2 DEF TickAndPublish, Tick, SwitchRelay
    <3>3. m.sentAt = uptime /\ m.on = decision'.relayOn BY <1>2, <3>1 DEF Desired
    <3>4. QED BY <2>2, <3>1, <3>2, <3>3
  <2>3. ServicePublish \/ TickAndPublish
    BY <1>2
    DEF FirmwareNext, Pass, StartPass, StayOffline, StayOnline, Reconnect, HandleMessage,
        Sample, NoMessageYet, SkipSample, OperatorCommand, Disconnect, Sync, TimePasses,
        firmwareVars, brokerVars
  <2>4. QED BY <2>1, <2>2, <2>3
<1>3. CASE m = brokerDesired'
  <2>1. CASE UNCHANGED brokerDesired BY <1>1, <1>3, <2>1 DEF Known
  <2>2. CASE ~UNCHANGED brokerDesired BY <1>1, <1>2, <1>3, <2>2
  <2>3. QED BY <2>1, <2>2
<1>4. CASE \E i \in 1 .. Len(inbox') : m = inbox'[i]
  <2>0. PICK i \in 1 .. Len(inbox') : m = inbox'[i] BY <1>4
  <2>1. CASE UNCHANGED inbox BY <1>1, <2>0, <2>1 DEF Known
  <2>2. CASE inbox' = <<>> BY <2>0, <2>2
  <2>3. CASE Reconnect /\ brokerDesired # NoMessage
    <3>1. inbox' = <<brokerDesired>> BY <2>3 DEF Reconnect
    <3>2. m = brokerDesired BY <2>0, <3>1
    <3>3. QED BY <1>1, <3>2 DEF Known
  <2>4. CASE HandleMessage
    <3>1. inbox # <<>> /\ inbox' = Tail(inbox) BY <2>4 DEF HandleMessage
    <3>2. i + 1 \in 1 .. Len(inbox) /\ m = inbox[i + 1]
      BY <1>0, <2>0, <3>1, TakeMessage
    <3>3. QED BY <1>1, <3>2 DEF Known
  <2>5. ASSUME NEW message \in Messages,
               message \in Commands \/ message = brokerDesired',
               message.sentAt = uptime, inbox' = Append(inbox, message)
        PROVE  \/ m \in Known
               \/ m.sentAt = uptime /\ m.source = "automation"
               \/ /\ TickAndPublish /\ m.sentAt = uptime
                  /\ relayOn' # relayOn /\ m.on = relayOn'
    <3>1. /\ Len(inbox') = Len(inbox) + 1
          /\ inbox'[i] = IF i = Len(inbox) + 1 THEN message ELSE inbox[i]
      BY <1>0, <2>0, <2>5, AppendMessage
    <3>2. CASE i = Len(inbox) + 1
      <4>1. m = message BY <2>0, <3>1, <3>2
      <4>2. m \notin Commands BY <1>1 DEF DesiredMessages, Commands
      <4>3. QED BY <1>3, <2>5, <4>1, <4>2
    <3>3. CASE i # Len(inbox) + 1
      <4>1. i \in 1 .. Len(inbox) /\ m = inbox[i] BY <1>0, <2>0, <3>1, <3>3
      <4>2. QED BY <1>1, <4>1 DEF Known
    <3>4. QED BY <3>2, <3>3
  <2>6. QED BY <1>1, <2>1, <2>2, <2>3, <2>4, <2>5, QueueEffect
<1>5. CASE held' # NothingHeld /\ m = held'.message
  <2>1. CASE UNCHANGED held BY <1>1, <1>5, <2>1 DEF Known
  <2>2. CASE ~UNCHANGED held
    <3>1. HandleMessage BY <2>2, OnlyHandlingHolds
    <3>2. held'.message = Head(inbox) BY <2>2, <3>1, HandledMessage
    <3>3. m = Head(inbox) /\ inbox # <<>> BY <1>5, <3>1, <3>2 DEF HandleMessage
    <3>4. 1 \in 1 .. Len(inbox) /\ m = inbox[1] BY <1>0, <3>3, TakeMessage
    <3>5. QED BY <1>1, <3>4 DEF Known
  <2>3. QED BY <2>1, <2>2
<1>6. QED BY <1>1, <1>3, <1>4, <1>5 DEF Known

\* What is known at boot is what an earlier life left, published before time zero.
LEMMA KnownInit ==
  ASSUME FirmwareInit, NEW m \in Known
  PROVE  m \in DesiredMessages /\ m.sentAt <= 0
<1>1. m = brokerDesired /\ m \in DesiredMessages BY DEF FirmwareInit, Known
<1>2. PICK past \in PastLives : brokerDesired = past.desired BY DEF FirmwareInit
<1>3. m # NoMessage BY <1>1 DEF NoMessage, DesiredMessages
<1>4. m.sentAt <= 0
  <2>1. past.desired \in {NoMessage} \cup
          [topic : {"desired"}, on : BOOLEAN, source : Sources,
           issuedAt : Int, sentAt : {time \in Int : time <= 0}]
    BY PastAssumption
  <2>2. QED BY <1>1, <1>2, <1>3, <2>1
<1>5. QED BY <1>1, <1>4

-----------------------------------------------------------------------------
(* The device's own messages, come back *)

\* The dwell a relay in that state has to finish.
Dwell(on) == IF on THEN ShortestRun ELSE MinFanOff

\* A message of the device asks for the state the relay is in, or was sent so long
\* before the last change that a whole dwell lies between; or it is of an earlier life.
EchoOK(m) ==
  \/ m.sentAt <= 0
  \/ m.sentAt <= lastRelayChange + LoopLag
                   - IF m.on = relayOn THEN 0 ELSE Dwell(m.on)

EchoInv == \A m \in Known : m.source = "local_fallback" => EchoOK(m)

\* A change of the relay comes at least a whole dwell after the one before, on the
\* clock the controller reads.
LEMMA ChangesApart ==
  ASSUME Horizon < ClockModulus, TypesInv, ContactInv, RunInv, TickAndPublish,
         relayOn' # relayOn
  PROVE  /\ lastRelayChange' = loopStart
         /\ lastRelayChange + Dwell(relayOn) <= loopStart
<1>1. LoopNow \in UInt32 BY LoopValues, ClockModulusAssumption DEF UInt32
<1>2. SaturatingSub(loopStart, lastRelayChange) >= Dwell(relayOn)
  BY <1>1, LoopValues, SwitchElapsed
  DEF ContactInv, TypesInv, LoopInv, FirmwareTypeOK, TickAndPublish, Dwell
<1>3. lastRelayChange <= loopStart BY DEF RunInv
<1>4. SaturatingSub(loopStart, lastRelayChange) = loopStart - lastRelayChange
  BY <1>3, LoopValues DEF SaturatingSub
<1>5. QED BY <1>2, <1>4, LoopValues, TickStamps, ShortestRunType DEF Dwell

\* Every step keeps the device's own messages harmless.
LEMMA EchoNext ==
  ASSUME Horizon < ClockModulus, TypesInv, ContactInv, RunInv, EchoInv,
         [FirmwareNext]_firmwareVars
  PROVE  EchoInv'
<1>0. /\ Dwell(TRUE) \in Nat /\ Dwell(FALSE) \in Nat /\ LoopLag \in Nat
      /\ lastRelayChange \in Nat /\ lastRelayChange' \in Nat
      /\ relayOn \in BOOLEAN /\ relayOn' \in BOOLEAN
      /\ loopStart \in Nat /\ uptime \in Nat /\ uptime - loopStart <= LoopLag
  BY ShortestRunType, LoopConstants, LoopValues, TypesNext, ClockModulusAssumption
  DEF Dwell, TypesInv, LoopInv, FirmwareTypeOK, TypeOK, UInt32
<1>1. /\ relayOn' # relayOn =>
           /\ TickAndPublish /\ lastRelayChange' = loopStart
           /\ lastRelayChange + Dwell(relayOn) <= lastRelayChange'
      /\ relayOn' = relayOn => lastRelayChange' = lastRelayChange
  BY ChangesApart, TickStamps, OnlyTickMovesContact DEF relayVars
<1>3. ASSUME NEW m \in Known', m.source = "local_fallback"
      PROVE  EchoOK(m)'
  <2>0. m.sentAt \in Int /\ m.on \in BOOLEAN BY DEF Known, DesiredMessages
  <2>1. CASE m \in Known
    <3>1. EchoOK(m) BY <1>3, <2>1 DEF EchoInv
    <3>2. CASE m.sentAt <= 0 BY <3>2 DEF EchoOK
    <3>3. CASE m.sentAt <= lastRelayChange + LoopLag
                             - IF m.on = relayOn THEN 0 ELSE Dwell(m.on)
      <4>1. CASE relayOn' = relayOn BY <1>1, <3>3, <4>1 DEF EchoOK, Dwell, ShortestRun
      <4>2. CASE relayOn' # relayOn /\ m.on = relayOn
        <5>1. Dwell(m.on) = Dwell(relayOn) /\ Dwell(m.on) \in Nat BY <1>0, <2>0, <4>2
        <5>2. m.sentAt <= lastRelayChange' + LoopLag - Dwell(m.on)
          BY <1>0, <1>1, <2>0, <3>3, <4>2, <5>1
        <5>3. m.on # relayOn' BY <4>2
        <5>4. QED BY <3>3, <5>2, <5>3 DEF EchoOK, Dwell, ShortestRun
      <4>3. CASE relayOn' # relayOn /\ m.on # relayOn
        <5>1. m.on = relayOn' BY <1>0, <2>0, <4>3
        <5>2. Dwell(m.on) \in Nat /\ Dwell(relayOn) \in Nat BY <1>0, <2>0
        <5>3. m.sentAt <= lastRelayChange' + LoopLag
          BY <1>0, <1>1, <2>0, <3>3, <4>3, <5>2
        <5>4. QED BY <1>0, <3>3, <5>1, <5>3 DEF EchoOK
      <4>4. QED BY <4>1, <4>2, <4>3
    <3>4. QED BY <3>1, <3>2, <3>3 DEF EchoOK
  <2>2. CASE /\ TickAndPublish /\ m.sentAt = uptime
             /\ relayOn' # relayOn /\ m.on = relayOn'
    BY <1>0, <1>1, <2>2 DEF EchoOK
  <2>3. QED BY <1>3, <2>1, <2>2, KnownNext
<1>4. QED BY <1>3 DEF EchoInv

\* At boot the only message of the device is one of an earlier life.
LEMMA EchoInit == FirmwareInit => EchoInv
<1> SUFFICES ASSUME FirmwareInit, NEW m \in Known, m.source = "local_fallback"
             PROVE  EchoOK(m)
  BY DEF EchoInv
<1>1. m.sentAt <= 0 BY KnownInit
<1>2. QED BY <1>1 DEF EchoOK

\* A message of this life of the device that asks for the other state finds the dwell
\* of the last change still running, if it is fresh at all.
LEMMA EchoHeldBack ==
  ASSUME Horizon < ClockModulus,
         StaleTimeout + 2 * LoopLag + Second <= ShortestRun + MinFanOff,
         TypesInv, RunInv, HeldInv, EchoInv, TickAndPublish,
         decision'.mode = "automatic", AgeKnown,
         held.message.source = "local_fallback", held.message.sentAt > 0,
         held.message.on # relayOn
  PROVE  DwellHolds(LoopNow)
<1>1. /\ held # NothingHeld
      /\ \/ mqttIssuedAt > loopStart
         \/ loopStart - mqttIssuedAt <= StaleTimeout
  BY AutomaticIsFresh
<1> DEFINE m == held.message
<1>2. m \in Known /\ m.sentAt \in Int /\ m.on \in BOOLEAN
  BY <1>1, HeldValues DEF Known
<1>3. mqttIssuedAt < m.sentAt + LoopLag + Second
  BY <1>1, <1>2, AgedStamp, LoopConstants
<1>4. m.sentAt <= lastRelayChange + LoopLag - Dwell(m.on)
  BY <1>2 DEF EchoInv, EchoOK
<1>5. Dwell(m.on) = IF relayOn THEN MinFanOff ELSE ShortestRun
  BY <1>2, LoopValues DEF Dwell
<1>6. lastRelayChange <= loopStart BY DEF RunInv
<1> HIDE DEF m
<1>7. loopStart - lastRelayChange < IF relayOn THEN MinFanOn ELSE MinFanOff
  <2>1. loopStart - lastRelayChange < StaleTimeout + 2 * LoopLag + Second - Dwell(m.on)
    BY <1>1, <1>2, <1>3, <1>4, <1>5, LoopValues, LoopConstants, HeldValues,
       ShortestRunType
  <2>2. QED BY <1>5, <2>1, LoopValues, LoopConstants, ShortestRunType
<1>8. SaturatingSub(LoopNow, lastRelayChange) = loopStart - lastRelayChange
  BY <1>6, LoopValues DEF SaturatingSub
<1>9. QED BY <1>7, <1>8 DEF DwellHolds

\* With a stale timeout, a lag of two passes and a second no longer than an on-off
\* cycle, no message the device published itself in this life moves its relay when it
\* comes back with its age known.
THEOREM EchoesAreNeutral ==
  ASSUME Horizon < ClockModulus,
         StaleTimeout + 2 * LoopLag + Second <= ShortestRun + MinFanOff
  PROVE  FirmwareSpec => EchoNeutral
<1> DEFINE EInv == TypesInv /\ ContactInv /\ RunInv /\ HeldInv /\ EchoInv
<1>1. FirmwareInit => EchoInv BY EchoInit
<1>2. TypesInv /\ ContactInv /\ RunInv /\ EchoInv /\ [FirmwareNext]_firmwareVars
        => EchoInv'
  BY EchoNext
<1>3. EInv /\ [FirmwareNext]_firmwareVars =>
        [TickAndPublish /\ decision'.mode = "automatic" /\ AgeKnown
         /\ held.message.source = "local_fallback" /\ held.message.sentAt > 0 =>
           relayOn' = relayOn \/ decision'.reason = "max_runtime_cutoff"]_firmwareVars
  <2> SUFFICES ASSUME EInv, TickAndPublish, decision'.mode = "automatic", AgeKnown,
                      held.message.source = "local_fallback", held.message.sentAt > 0
               PROVE  relayOn' = relayOn \/ decision'.reason = "max_runtime_cutoff"
    OBVIOUS
  <2>1. /\ relayOn' = Outcome(LoopNow).on
        /\ decision'.reason = Outcome(LoopNow).reason
        /\ OperatingMode(LoopNow) = "automatic"
    BY TickEffect DEF TickAndPublish
  <2>2. ComputeCandidate(LoopNow).on = mqttDesiredOn
    BY <2>1 DEF ComputeCandidate
  <2>3. mqttDesiredOn = held.message.on BY AutomaticIsFresh DEF HeldInv
  <2>4. mqttDesiredOn # relayOn => DwellHolds(LoopNow) BY <2>3, EchoHeldBack
  <2>5. CASE MaxRuntimeExceeded(LoopNow) BY <2>1, <2>5 DEF Outcome
  <2>6. CASE ~MaxRuntimeExceeded(LoopNow)
    BY <2>1, <2>2, <2>4, <2>6 DEF Outcome
  <2>7. QED BY <2>5, <2>6
<1>4. QED
  BY <1>1, <1>2, <1>3, RunInvHolds, HeldInvHolds, PTL DEF FirmwareSpec, EchoNeutral

=============================================================================
