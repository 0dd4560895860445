----------------------------- MODULE DemoProofs -----------------------------
(***************************************************************************)
(* What holds of the end-to-end demonstration, run by hand or as a step of *)
(* the check, for every configuration, environment and choice of delays.   *)
(***************************************************************************)
EXTENDS DemoScript, SequenceTheorems, TLAPS

-----------------------------------------------------------------------------
(* The inductive invariant *)

\* What may be of the service's process.
ServiceStates == {"none", "starting", "up", "stopping", "dead"}

\* The messages on a queue.
Items(queue) == {queue[i] : i \in 1 .. Len(queue)}

\* The types of what the script, the device and the service keep, as far as the
\* proofs compute with it.
DemoTypes ==
  /\ Record(device, DOMAIN NewController) /\ device.mqttIssuedAt \in Int
  /\ Record(main, {"pc", "now", "fresh"})
  /\ main.pc \in {"idle", "tick", "decide"} /\ main.now \in Nat
  /\ Record(net, {"pc", "message", "age", "issuedAt"}) /\ net.issuedAt \in Int
  /\ inbox \in Seq(Items(inbox))
  /\ clock \in Nat
  /\ Record(demo, {"step", "wake", "deadline", "code"})
  /\ demo.step \in 0 .. Len(Program) + 1
  /\ Record(service, {"state", "since", "rule"})
  /\ service.state \in ServiceStates /\ service.since \in Nat
  /\ machine.epoch \in Nat

\* Only a reading, a check and a wait tick the device, and the script goes on when
\* the tick is over.
TickInv ==
  main.pc # "idle" => InDemo /\ Current.op \in {"send", "check", "await"}

\* What each step of the clean-up has stopped stays stopped, as does everything
\* before the script begins.
Past(step) == demo.step = 0 \/ demo.step > Len(Script) + step

LeftInv ==
  /\ Past(1) => ~connected
  /\ Past(2) => observer = "none"
  /\ Past(3) => ~Alive
  /\ Past(4) => broker = "none"

\* The latest time at which the service may have issued a message.
LastWord == IF service.state = "dead" THEN service.since ELSE clock

\* No message is younger, wherever it is, nor what the device knows of one.
WordInv ==
  /\ service.since <= clock
  /\ main.now <= clock
  /\ \A message \in Items(inbox) \cup {brokerDesired} :
       message.sentAt \in Int /\ message.sentAt <= LastWord
  /\ net.issuedAt <= LastWord
  /\ device.mqttIssuedAt <= LastWord
  /\ main.pc = "decide" /\ main.fresh /\ service.state = "dead" =>
       main.now - service.since <= StaleTimeout

\* All of it.
DemoInv == DemoTypes /\ TickInv /\ LeftInv /\ WordInv

-----------------------------------------------------------------------------
(* The script *)

\* A function on 1 .. n is a sequence.
LEMMA Listed ==
  ASSUME NEW S, NEW n \in Nat, NEW s \in [1 .. n -> S]
  PROVE  s \in Seq(S) /\ Len(s) = n
  OBVIOUS

\* The program ends with the four operations of the clean-up.
LEMMA ProgramShape ==
  /\ Len(Script) \in Nat
  /\ Len(Program) = Len(Script) + 4
  /\ DOMAIN Program = 1 .. Len(Script) + 4
  /\ Program[Len(Script) + 1].op = "stop_device"
  /\ Program[Len(Script) + 2].op = "stop_observer"
  /\ Program[Len(Script) + 3].op = "stop_service"
  /\ Program[Len(Script) + 4].op = "stop_broker"
<1> DEFINE Ops == {UntilFallback[i] : i \in 1 .. 27}
                    \cup {InvalidReadings[i] : i \in 1 .. 2 * FailureLimit}
                    \cup {Recovery[i] : i \in 1 .. 9} \cup {CleanUp[i] : i \in 1 .. 4}
<1>1. UntilFallback \in [1 .. 27 -> Ops]
  <2>1. UntilFallback = [i \in 1 .. 27 |-> UntilFallback[i]] BY DEF UntilFallback
  <2>2. QED BY <2>1
<1>2. InvalidReadings \in [1 .. 2 * FailureLimit -> Ops] BY DEF InvalidReadings
<1>3. Recovery \in [1 .. 9 -> Ops]
  <2>1. Recovery = [i \in 1 .. 9 |-> Recovery[i]] BY DEF Recovery
  <2>2. QED BY <2>1
<1>4. CleanUp \in [1 .. 4 -> Ops]
  <2>1. CleanUp = [i \in 1 .. 4 |-> CleanUp[i]] BY DEF CleanUp
  <2>2. QED BY <2>1
<1> HIDE DEF Ops
<1>5. Script \in Seq(Ops) /\ Len(Script) \in Nat
  <2>1. 2 * FailureLimit \in Nat BY DeviceAssumption
  <2>2. UntilFallback \in Seq(Ops) BY <1>1, Listed
  <2>3. InvalidReadings \in Seq(Ops) BY <1>2, <2>1, Listed
  <2>4. Recovery \in Seq(Ops) BY <1>3, Listed
  <2>5. Script \in Seq(Ops) BY <2>2, <2>3, <2>4, ConcatProperties DEF Script
  <2>6. QED BY <2>5, LenProperties
<1>6. CleanUp \in Seq(Ops) /\ Len(CleanUp) = 4 BY <1>4, Listed
<1>7. /\ Program \in Seq(Ops)
      /\ Len(Program) = Len(Script) + 4
      /\ \A i \in 1 .. Len(Script) + 4 :
           Program[i] = IF i <= Len(Script) THEN Script[i] ELSE CleanUp[i - Len(Script)]
  <2> DEFINE whole == Script \o CleanUp
  <2>1. /\ whole \in Seq(Ops)
        /\ Len(whole) = Len(Script) + Len(CleanUp)
        /\ \A i \in 1 .. Len(Script) + Len(CleanUp) :
             whole[i] = IF i <= Len(Script) THEN Script[i] ELSE CleanUp[i - Len(Script)]
    BY <1>5, <1>6, ConcatProperties
  <2> HIDE DEF whole
  <2>2. Program = whole BY DEF Program, whole
  <2>3. QED BY <1>6, <2>1, <2>2
<1>8. DOMAIN Program = 1 .. Len(Script) + 4 BY <1>7
<1>9. \A i \in 1 .. 4 : Program[Len(Script) + i] = CleanUp[i]
  BY <1>5, <1>7
<1>10. /\ CleanUp[1].op = "stop_device" /\ CleanUp[2].op = "stop_observer"
       /\ CleanUp[3].op = "stop_service" /\ CleanUp[4].op = "stop_broker"
  BY DEF CleanUp, Do
<1>11. QED BY <1>5, <1>7, <1>8, <1>9, <1>10

-----------------------------------------------------------------------------
(* Types *)

\* What can change the variables of the demonstration.
DemoNext ==
  \/ LaunchDemo \/ ScriptStep \/ WorldStep \/ ServiceExits
  \/ InDemo /\ CrashService
  \/ ReportReturned(TRUE) \/ ReportReturned(FALSE)

\* Every step of the whole is one of the demonstration or leaves it alone.
LEMMA Steps == [FullNext]_fullVars => DemoNext \/ UNCHANGED demoVars
<1>1. Progress => DemoNext \/ UNCHANGED demoVars
  BY DEF Progress, Skip, RunTests, RunDemo, DemoEnded, Summarise, DemoStep, RunReport,
         ReportStep, ReportEnded, DemoNext
<1>2. DemoFault \/ ServiceObeys => DemoNext BY DEF DemoFault, ServiceObeys, DemoNext
<1>3. QED BY <1>1, <1>2 DEF FullNext, fullVars

\* The steps in which the script only moves on, and nothing else changes but that
\* there has been a fault.
ScriptAlone ==
  \/ LaunchDemo \/ GoToSleep \/ AssertFound \/ TimeOut \/ Succeed \/ LookForBroker
  \/ ReportReturned(TRUE) \/ ReportReturned(FALSE)

\* Where the script may be.
LEMMA StepTypes ==
  ASSUME DemoTypes
  PROVE  /\ demo.step \in 0 .. Len(Program) + 1 /\ demo.step \in Int
         /\ InDemo <=> demo.step \in 1 .. Len(Script) + 4
         /\ Len(Script) \in Nat
  BY ProgramShape DEF DemoTypes, InDemo

\* Which steps change which variable.
LEMMA Writers ==
  ASSUME DemoNext
  PROVE  /\ SendReading \/ FinishDemoTick \/ Network \/ UNCHANGED device
         /\ Network \/ UNCHANGED net
         /\ \/ SendReading \/ LookAtDevice \/ CheckDemoFresh \/ FinishDemoTick
            \/ UNCHANGED main
         /\ Network \/ ConnectDevice \/ StopDevice \/ ServiceHandles \/ UNCHANGED inbox
         /\ ServiceHandles \/ UNCHANGED brokerDesired
         /\ ConnectDevice \/ StopDevice \/ UNCHANGED connected
         /\ StartObserver \/ StopObserver \/ ObserverSubscribed \/ UNCHANGED observer
         /\ StartBroker \/ BrokerReady \/ StopBroker \/ UNCHANGED broker
         /\ \/ StartService \/ ServiceReady \/ ServiceRefused \/ ServiceHandles
            \/ CrashService \/ Terminate \/ ServiceExits \/ ServiceStopped
            \/ UNCHANGED service
         /\ DemoTimePasses \/ UNCHANGED clock
         /\ UNCHANGED machine
  BY DEF DemoNext, ScriptStep, WorldStep, LaunchDemo, GoToSleep, AssertFound, TimeOut,
     Succeed, SendReading, LookAtDevice, CheckDemoFresh, FinishDemoTick, ConnectDevice,
     StopDevice, StartObserver, StopObserver, StartBroker, LookForBroker, StopBroker,
     StartService, Terminate, ServiceStopped, Network, BrokerReady, ServiceReady,
     ServiceRefused, ServiceHandles, ObserverSubscribed, DemoTimePasses, CrashService,
     ServiceExits, ReportReturned, PublishSample, TickOnce, CheckFresh, FinishTick,
     Reconnect, OnMessage, SetReceived, SetDesired, SetIssuedAt, simVars, worldVars,
     brokerVars

\* Where the script goes from a step.
LEMMA Moves ==
  ASSUME DemoTypes
  PROVE  /\ Record(Continued, {"step", "wake", "deadline", "code"})
         /\ Continued.step = demo.step + 1
         /\ Record(Failed, {"step", "wake", "deadline", "code"})
         /\ Failed.step = Len(Script) + 1
         /\ Record(Again, {"step", "wake", "deadline", "code"})
         /\ Again.step = demo.step
<1>1. Record(demo, {"step", "wake", "deadline", "code"}) BY DEF DemoTypes
<1>2. /\ Record(Continued, {"step", "wake", "deadline", "code"})
      /\ Continued.step = demo.step + 1
  BY <1>1 DEF Record, Continued
<1>3. /\ Record(Failed, {"step", "wake", "deadline", "code"})
      /\ Failed.step = Len(Script) + 1
  BY <1>1 DEF Record, Failed
<1>4. /\ Record(Again, {"step", "wake", "deadline", "code"})
      /\ Again.step = demo.step
  BY <1>1 DEF Record, Again
<1>5. QED BY <1>2, <1>3, <1>4

\* A reading and a tick leave to the device what a message wrote.
LEMMA ControllerKeeps ==
  ASSUME NEW d, Record(d, DOMAIN NewController)
  PROVE  /\ \A reading :
              /\ Record(OnSensorReading(d, reading), DOMAIN NewController)
              /\ OnSensorReading(d, reading).mqttIssuedAt = d.mqttIssuedAt
         /\ \A fresh, now :
              /\ Record(Ticked(d, fresh, now), DOMAIN NewController)
              /\ Ticked(d, fresh, now).mqttIssuedAt = d.mqttIssuedAt
<1>1. DOMAIN NewController =
        {"relayOn", "lastChangeTime", "relayOnSince", "hasValidReading", "lastHumidity",
         "failures", "mqttReceived", "mqttDesiredOn", "mqttIssuedAt"}
  BY DEF NewController
<1>2. ASSUME NEW reading
      PROVE  /\ Record(OnSensorReading(d, reading), DOMAIN NewController)
             /\ OnSensorReading(d, reading).mqttIssuedAt = d.mqttIssuedAt
  BY <1>1 DEF OnSensorReading, Record
<1>3. ASSUME NEW fresh, NEW now
      PROVE  /\ Record(Ticked(d, fresh, now), DOMAIN NewController)
             /\ Ticked(d, fresh, now).mqttIssuedAt = d.mqttIssuedAt
  BY <1>1 DEF Ticked, Record
<1>4. QED BY <1>2, <1>3

\* A queue of whatever messages is one of the messages on it.
LEMMA Narrow ==
  ASSUME NEW S, NEW queue \in Seq(S)
  PROVE  queue \in Seq(Items(queue)) /\ Items(queue) \subseteq S
<1> DEFINE all == {queue[i] : i \in 1 .. Len(queue)}
<1>1. Len(queue) \in Nat /\ queue \in [1 .. Len(queue) -> S] OBVIOUS
<1>2. all \subseteq S BY <1>1
<1>3. queue \in [1 .. Len(queue) -> all] BY <1>1
<1> HIDE DEF all
<1>4. queue \in Seq(all) BY <1>1, <1>3
<1>5. QED BY <1>2, <1>4 DEF all, Items

\* What is taken from a queue was on it.
LEMMA QueueTail ==
  ASSUME NEW queue, queue \in Seq(Items(queue)), queue # <<>>
  PROVE  /\ Head(queue) \in Items(queue)
         /\ Tail(queue) \in Seq(Items(Tail(queue)))
         /\ Items(Tail(queue)) \subseteq Items(queue)
<1>1. Head(queue) \in Items(queue) /\ Tail(queue) \in Seq(Items(queue)) OBVIOUS
<1>2. QED BY <1>1, Narrow

\* What is put on a queue is all that is new on it.
LEMMA QueueAppend ==
  ASSUME NEW queue, queue \in Seq(Items(queue)), NEW message
  PROVE  LET longer == Append(queue, message)
         IN  /\ longer \in Seq(Items(longer))
             /\ Items(longer) \subseteq Items(queue) \cup {message}
<1> DEFINE wider == Items(queue) \cup {message}
<1>1. queue \in Seq(wider) /\ message \in wider OBVIOUS
<1> HIDE DEF wider
<1>2. Append(queue, message) \in Seq(wider) BY <1>1
<1>3. QED BY <1>2, Narrow DEF wider

\* The queues that one step can begin with.
LEMMA QueueShort ==
  ASSUME NEW message
  PROVE  /\ <<>> \in Seq(Items(<<>>)) /\ Items(<<>>) = {}
         /\ <<message>> \in Seq(Items(<<message>>))
         /\ Items(<<message>>) \subseteq {message}
<1>1. <<>> \in Seq(Items(<<>>)) OBVIOUS
<1>2. Items(<<>>) = {} BY DEF Items
<1>3. <<message>> \in Seq({message}) OBVIOUS
<1>4. <<message>> \in Seq(Items(<<message>>)) /\ Items(<<message>>) \subseteq {message}
  BY <1>3, Narrow
<1>5. QED BY <1>1, <1>2, <1>4

\* In every step the script stays where it is, goes on to the next step, fails, or
\* begins.
LEMMA ScriptMoves ==
  ASSUME DemoTypes, DemoNext
  PROVE  /\ Record(demo', {"step", "wake", "deadline", "code"})
         /\ demo'.step \in {demo.step, demo.step + 1, Len(Script) + 1}
         /\ demo'.step \in 0 .. Len(Program) + 1
<1> DEFINE Fields == {"step", "wake", "deadline", "code"}
           Moved(d) ==
             /\ Record(d, Fields)
             /\ \/ d.step = demo.step
                \/ d.step = demo.step + 1 /\ (InDemo \/ demo.step = 0)
                \/ d.step = Len(Script) + 1
<1>1. Record(demo, Fields) BY DEF DemoTypes
<1>2. Moved(demo) /\ Moved(Failed) /\ Moved(Again) BY <1>1, Moves
<1>3. InDemo => Moved(Continued) BY Moves
<1>4. ASSUME NEW d, Moved(d), NEW x
      PROVE  /\ Moved([d EXCEPT !.wake = x]) /\ Moved([d EXCEPT !.deadline = x])
             /\ Moved([d EXCEPT !.code = x])
  BY <1>4 DEF Record
<1>5. demo.step = 0 => Moved([demo EXCEPT !.step = 1]) BY <1>1 DEF Record
<1> HIDE DEF Moved
<1>6. \A op : At(op) => InDemo BY DEF At
<1>7. DemoNext => Moved(demo')
  <2>1. CASE LaunchDemo BY <2>1, <1>5 DEF LaunchDemo
  <2>2. CASE GoToSleep BY <2>2, <1>3, <1>4, <1>6 DEF GoToSleep
  <2>3. CASE AssertFound BY <2>3, <1>2, <1>3, <1>6 DEF AssertFound
  <2>4. CASE TimeOut BY <2>4, <1>2 DEF TimeOut
  <2>5. CASE Succeed BY <2>5, <1>3, <1>4, <1>6 DEF Succeed
  <2>6. CASE SendReading \/ CheckDemoFresh \/ Network \/ BrokerReady \/ ServiceReady
             \/ ServiceRefused \/ ServiceHandles \/ ObserverSubscribed \/ DemoTimePasses
             \/ CrashService \/ ServiceExits
    BY <2>6, <1>2 DEF SendReading, CheckDemoFresh, Network, BrokerReady, ServiceReady,
       ServiceRefused, ServiceHandles, ObserverSubscribed, DemoTimePasses, CrashService,
       ServiceExits
  <2>7. CASE LookAtDevice BY <2>7, <1>2, <1>4 DEF LookAtDevice
  <2>8. CASE FinishDemoTick BY <2>8, <1>2, <1>3 DEF FinishDemoTick
  <2>9. CASE ConnectDevice \/ StopDevice \/ StartObserver \/ StopObserver \/ StopBroker
             \/ StartService \/ ServiceStopped
    BY <2>9, <1>3, <1>6 DEF ConnectDevice, StopDevice, StartObserver, StopObserver,
       StopBroker, StartService, ServiceStopped
  <2>10. CASE StartBroker BY <2>10, <1>2, <1>3, <1>6 DEF StartBroker
  <2>11. CASE LookForBroker BY <2>11, <1>2, <1>3, <1>6 DEF LookForBroker
  <2>12. CASE Terminate BY <2>12, <1>2, <1>4 DEF Terminate
  <2>13. CASE ReportReturned(TRUE) \/ ReportReturned(FALSE)
    BY <2>13, <1>2, <1>3, <1>6 DEF ReportReturned
  <2>14. QED
    BY <2>1, <2>2, <2>3, <2>4, <2>5, <2>6, <2>7, <2>8, <2>9, <2>10, <2>11, <2>12, <2>13
    DEF DemoNext, ScriptStep, WorldStep
<1>8. QED BY <1>7, StepTypes, ProgramShape DEF Moved

\* The service's process changes its state in these ways only; what dies does so now.
LEMMA ServiceMoves ==
  ASSUME DemoTypes, DemoNext
  PROVE  /\ Record(service', {"state", "since", "rule"})
         /\ service'.state \in ServiceStates
         /\ \/ /\ service'.state = service.state /\ service'.since = service.since
               /\ clock' \in {clock, clock + 1}
            \/ service'.since = clock /\ clock' = clock
<1> DEFINE Fields == {"state", "since", "rule"}
           Moved(s) ==
             /\ Record(s, Fields)
             /\ s.state \in ServiceStates
             /\ \/ s.state = service.state /\ s.since = service.since
                \/ s.since = clock
<1>1. Record(service, Fields) /\ service.state \in ServiceStates BY DEF DemoTypes
<1>2. ASSUME NEW state \in ServiceStates
      PROVE  /\ Moved([service EXCEPT !.state = state, !.since = clock])
             /\ Moved([NoService EXCEPT !.state = state, !.since = clock])
  BY <1>1 DEF Record, NoService
<1>3. \A rule : Moved([service EXCEPT !.rule = rule]) BY <1>1 DEF Record
<1>4. Moved(service) BY <1>1
<1>5. Moved(Died) BY <1>2 DEF Died, ServiceStates
<1>6. {"starting", "up", "stopping"} \subseteq ServiceStates BY DEF ServiceStates
<1> HIDE DEF Moved
<1>7. CASE StartService \/ ServiceReady \/ ServiceRefused \/ CrashService \/ Terminate
           \/ ServiceExits \/ ServiceStopped \/ ServiceHandles
  <2>1. Moved(service')
    <3>1. CASE StartService BY <3>1, <1>2, <1>6 DEF StartService
    <3>2. CASE ServiceReady BY <3>2, <1>2, <1>6 DEF ServiceReady
    <3>3. CASE ServiceRefused \/ CrashService \/ ServiceExits
      BY <3>3, <1>5 DEF ServiceRefused, CrashService, ServiceExits
    <3>4. CASE Terminate BY <3>4, <1>2, <1>6 DEF Terminate
    <3>5. CASE ServiceStopped BY <3>5, <1>4, <1>5 DEF ServiceStopped
    <3>6. CASE ServiceHandles BY <3>6, <1>3 DEF ServiceHandles
    <3>7. QED BY <1>7, <3>1, <3>2, <3>3, <3>4, <3>5, <3>6
  <2>2. clock' = clock
    BY <1>7 DEF StartService, ServiceReady, ServiceRefused, CrashService, Terminate,
       ServiceExits, ServiceStopped, ServiceHandles, simVars
  <2>3. QED BY <2>1, <2>2 DEF Moved
<1>8. CASE /\ UNCHANGED service
           /\ clock' \in {clock, clock + 1}
  BY <1>1, <1>8
<1>9. UNCHANGED service => clock' \in {clock, clock + 1}
  BY Writers DEF DemoTimePasses
<1>10. QED BY <1>7, <1>8, <1>9, Writers

-----------------------------------------------------------------------------
(* The device and its messages *)

\* The service may have spoken until now at most, and never takes a word back.
LEMMA LastWordMoves ==
  ASSUME DemoTypes, WordInv, DemoNext
  PROVE  /\ LastWord \in Nat /\ LastWord <= clock
         /\ LastWord' \in Nat /\ LastWord <= LastWord'
         /\ service'.since <= clock'
<1>1. /\ clock \in Nat /\ service.since \in Nat /\ service.since <= clock
  BY DEF DemoTypes, WordInv
<1>2. QED BY <1>1, ServiceMoves DEF LastWord

\* What the two threads and the script make of the controller.
LEMMA DeviceMoves ==
  ASSUME DemoTypes, DemoNext
  PROVE  /\ Record(device', DOMAIN NewController)
         /\ device'.mqttIssuedAt \in {device.mqttIssuedAt, net.issuedAt}
<1> DEFINE Fields == DOMAIN NewController
           Moved(d) == /\ Record(d, Fields)
                       /\ d.mqttIssuedAt \in {device.mqttIssuedAt, net.issuedAt}
<1>1. Record(device, Fields) BY DEF DemoTypes
<1>2. Fields = {"relayOn", "lastChangeTime", "relayOnSince", "hasValidReading",
                "lastHumidity", "failures", "mqttReceived", "mqttDesiredOn",
                "mqttIssuedAt"}
  BY DEF NewController
<1>3. /\ \A reading : Moved(OnSensorReading(device, reading))
      /\ \A fresh, now : Moved(Ticked(device, fresh, now))
  BY <1>1, ControllerKeeps
<1> HIDE DEF Fields
<1>4. /\ Moved([device EXCEPT !.mqttReceived = TRUE])
      /\ \A on : Moved([device EXCEPT !.mqttDesiredOn = on])
      /\ Moved([device EXCEPT !.mqttIssuedAt = net.issuedAt])
  BY <1>1, <1>2 DEF Record
<1>5. Moved(device) BY <1>1
<1> HIDE DEF Moved
<1>6. DemoNext => Moved(device')
  <2>1. CASE SendReading BY <2>1, <1>3 DEF SendReading, PublishSample
  <2>2. CASE FinishDemoTick BY <2>2, <1>3 DEF FinishDemoTick, FinishTick
  <2>3. CASE Network
    BY <2>3, <1>4, <1>5 DEF Network, OnMessage, SetReceived, SetDesired, SetIssuedAt
  <2>4. CASE UNCHANGED device BY <2>4, <1>5
  <2>5. QED BY <2>1, <2>2, <2>3, <2>4, Writers
<1>7. QED BY <1>6 DEF Moved, Fields

\* The network thread takes a message from the queue, and of its age the time of issue.
LEMMA NetMoves ==
  ASSUME DemoTypes, WordInv, DemoNext
  PROVE  /\ Record(net', {"pc", "message", "age", "issuedAt"})
         /\ net'.issuedAt \in Int /\ net'.issuedAt <= LastWord
<1> DEFINE Fields == {"pc", "message", "age", "issuedAt"}
           Moved(n) == Record(n, Fields) /\ n.issuedAt \in Int /\ n.issuedAt <= LastWord
<1>1. LastWord \in Nat /\ LastWord <= clock /\ clock \in Nat
  BY LastWordMoves DEF DemoTypes
<1>2. Moved(net) BY DEF DemoTypes, WordInv
<1>3. Moved(NetIdle) BY <1>1 DEF NetIdle, Never, Record
<1>4. \A pc : Moved([net EXCEPT !.pc = pc]) BY <1>2 DEF Record
<1>5. CASE OnMessage
  <2> DEFINE sent == Head(inbox).sentAt
  <2>1. sent \in Int /\ sent <= LastWord
    <3>1. inbox \in Seq(Items(inbox)) /\ inbox # <<>>
      BY <1>5 DEF OnMessage, DemoTypes
    <3>2. Head(inbox) \in Items(inbox) BY <3>1, QueueTail
    <3>3. QED BY <3>2 DEF WordInv
  <2> HIDE DEF sent
  <2>2. /\ AtLeastZero(clock - AtLeastZero(clock - sent)) \in Int
        /\ AtLeastZero(clock - AtLeastZero(clock - sent)) <= LastWord
    BY <1>1, <2>1 DEF AtLeastZero
  <2>3. net' = [pc |-> "received", message |-> Head(inbox),
                age |-> AtLeastZero(clock - sent),
                issuedAt |-> AtLeastZero(clock - AtLeastZero(clock - sent))]
    BY <1>5 DEF OnMessage, AgeOf, IssuedOnClock, sent
  <2>4. QED BY <2>2, <2>3 DEF Record
<1> HIDE DEF Moved
<1>6. CASE Network
  BY <1>3, <1>4, <1>5, <1>6 DEF Network, SetReceived, SetDesired, SetIssuedAt, Moved
<1>7. CASE UNCHANGED net BY <1>2, <1>7 DEF Moved
<1>8. QED BY <1>6, <1>7, Writers DEF Moved

\* A time stamp cut off to the second is not later than now.
LEMMA IssuedInTime == DemoTypes => IssuedAt \in Int /\ IssuedAt <= clock
<1> SUFFICES ASSUME DemoTypes PROVE IssuedAt \in Int /\ IssuedAt <= clock
  OBVIOUS
<1> DEFINE now == machine.epoch + clock
<1>a. machine.epoch \in Nat /\ clock \in Nat BY DEF DemoTypes
<1>b. Second \in Nat \ {0} BY DemoAssumption
<1>1. now \in Nat /\ clock \in Nat /\ Second \in Nat \ {0} BY <1>a, <1>b
<1> HIDE DEF now
<1>2. now % Second \in Nat BY <1>1
<1>3. IssuedAt = clock - (now % Second) BY DEF IssuedAt, now
<1>4. QED BY <1>1, <1>2, <1>3

\* A message new to the queue, or kept by the broker, is one that was kept before or
\* one that a living service has just issued.
LEMMA MessagesMove ==
  ASSUME DemoTypes, WordInv, DemoNext
  PROVE  /\ inbox' \in Seq(Items(inbox'))
         /\ \A message \in Items(inbox') \cup {brokerDesired'} :
              message.sentAt \in Int /\ message.sentAt <= LastWord'
<1> DEFINE Heard == Items(inbox) \cup {brokerDesired}
           Timely(message) == message.sentAt \in Int /\ message.sentAt <= LastWord'
           Queue(q) == q \in Seq(Items(q)) /\ \A message \in Items(q) : Timely(message)
<1>1. \A message \in Heard : Timely(message)
  <2>1. LastWord \in Nat /\ LastWord' \in Nat /\ LastWord <= LastWord' BY LastWordMoves
  <2>2. \A message \in Heard : message.sentAt \in Int /\ message.sentAt <= LastWord
    BY DEF WordInv
  <2>3. QED BY <2>1, <2>2
<1>2. inbox \in Seq(Items(inbox)) BY DEF DemoTypes
<1> HIDE DEF Timely
<1>3. Queue(inbox) /\ Timely(brokerDesired) BY <1>1, <1>2
<1>4. Queue(<<>>) /\ Queue(<<brokerDesired>>) BY <1>3, QueueShort
<1>5. Timely(brokerDesired')
  <2>1. CASE ServiceHandles
    <3>1. brokerDesired'.sentAt = IssuedAt BY <2>1 DEF ServiceHandles
    <3>2. LastWord' = clock
      <4>1. service.state = "up" /\ UNCHANGED clock BY <2>1 DEF ServiceHandles
      <4>2. \E rule : service' = [service EXCEPT !.rule = rule] BY <2>1 DEF ServiceHandles
      <4>3. service'.state = service.state BY <4>2 DEF DemoTypes, Record
      <4>4. QED BY <4>1, <4>3 DEF LastWord
    <3>3. QED BY <3>1, <3>2, IssuedInTime DEF Timely
  <2>2. CASE UNCHANGED brokerDesired BY <2>2, <1>3
  <2>3. QED BY <2>1, <2>2, Writers
<1>6. Queue(inbox')
  <2>1. CASE Network
    <3>1. CASE OnMessage
      <4>1. inbox # <<>> /\ inbox' = Tail(inbox) BY <3>1 DEF OnMessage
      <4>2. QED BY <4>1, <1>3, QueueTail
    <3>2. CASE UNCHANGED inbox BY <3>2, <1>3
    <3>3. QED BY <2>1, <3>1, <3>2 DEF Network, SetReceived, SetDesired, SetIssuedAt
  <2>2. CASE ConnectDevice
    <3>1. inbox' = <<>> \/ inbox' = <<brokerDesired>>
      BY <2>2 DEF ConnectDevice, Reconnect
    <3>2. QED BY <3>1, <1>4
  <2>3. CASE StopDevice BY <2>3, <1>4 DEF StopDevice
  <2>4. CASE ServiceHandles
    <3>1. inbox' = inbox \/ inbox' = Append(inbox, brokerDesired')
      BY <2>4 DEF ServiceHandles
    <3>2. Queue(Append(inbox, brokerDesired')) BY <1>3, <1>5, QueueAppend
    <3>3. QED BY <3>1, <3>2, <1>3
  <2>5. CASE UNCHANGED inbox BY <2>5, <1>3
  <2>6. QED BY <2>1, <2>2, <2>3, <2>4, <2>5, Writers
<1>7. QED BY <1>5, <1>6 DEF Timely

\* The main thread notes the time when a tick begins, and no time passes in a tick.
LEMMA MainMoves ==
  ASSUME DemoTypes, WordInv, DemoNext
  PROVE  /\ Record(main', {"pc", "now", "fresh"})
         /\ main'.pc \in {"idle", "tick", "decide"} /\ main'.now \in Nat
         /\ main'.now <= clock'
         /\ \/ CheckFresh
            \/ main'.pc # "decide"
            \/ main' = main
<1> DEFINE Fields == {"pc", "now", "fresh"}
<1>1. /\ Record(main, Fields) /\ main.pc \in {"idle", "tick", "decide"}
      /\ main.now \in Nat /\ main.now <= clock /\ clock \in Nat
  BY DEF DemoTypes, WordInv
<1>2. clock' \in {clock, clock + 1} BY ServiceMoves
<1>3. CASE SendReading \/ LookAtDevice
  <2>1. main' = [pc |-> "tick", now |-> clock, fresh |-> FALSE]
    BY <1>3 DEF SendReading, PublishSample, LookAtDevice, TickOnce
  <2>2. QED BY <1>1, <1>2, <2>1 DEF Record
<1>4. CASE CheckDemoFresh
  <2>1. CheckFresh BY <1>4 DEF CheckDemoFresh
  <2>2. main' = [main EXCEPT !.pc = "decide", !.fresh = MqttFresh(device, main.now)]
    BY <2>1 DEF CheckFresh
  <2>3. Record(main', Fields) /\ main'.pc = "decide" /\ main'.now = main.now
    BY <1>1, <2>2 DEF Record
  <2>4. QED BY <1>1, <1>2, <2>1, <2>3
<1>5. CASE FinishDemoTick
  <2>1. main' = MainIdle BY <1>5 DEF FinishDemoTick, FinishTick
  <2>2. QED BY <1>1, <1>2, <2>1 DEF Record, MainIdle
<1>6. CASE UNCHANGED main BY <1>1, <1>2, <1>6
<1>7. QED BY <1>3, <1>4, <1>5, <1>6, Writers

-----------------------------------------------------------------------------
(* The invariant of the demonstration *)

\* Every step keeps the types.
LEMMA DemoTypesNext == DemoInv /\ DemoNext => DemoTypes'
<1> SUFFICES ASSUME DemoInv, DemoNext PROVE DemoTypes'
  OBVIOUS
<1>1. DemoTypes /\ WordInv BY DEF DemoInv
<1>2. device'.mqttIssuedAt \in Int BY <1>1, DeviceMoves DEF DemoTypes
<1>3. clock' \in Nat /\ service'.since \in Nat BY <1>1, ServiceMoves DEF DemoTypes
<1>4. machine'.epoch \in Nat BY <1>1, Writers DEF DemoTypes
<1>5. QED
  BY <1>1, <1>2, <1>3, <1>4, DeviceMoves, MainMoves, NetMoves, MessagesMove, ScriptMoves,
     ServiceMoves DEF DemoTypes

\* A step that needs the script at one operation is made at no other.
LEMMA AtOnce ==
  ASSUME NEW op, At(op)
  PROVE  InDemo /\ Current.op = op /\ main.pc = "idle" /\ clock >= demo.wake
  BY DEF At, Current

\* The script stays where it is while a tick lasts.
LEMMA TickNext == DemoInv /\ DemoNext => TickInv'
<1> SUFFICES ASSUME DemoInv, DemoNext, main'.pc # "idle"
             PROVE  InDemo' /\ Current'.op \in {"send", "check", "await"}
  BY DEF TickInv
<1>1. DemoTypes /\ TickInv /\ WordInv BY DEF DemoInv
<1>2. CASE SendReading \/ LookAtDevice
  <2>1. InDemo /\ Current.op \in {"send", "check", "await"}
    BY <1>2, AtOnce DEF SendReading, LookAtDevice
  <2>2. demo'.step = demo.step
    BY <1>1, <1>2 DEF SendReading, LookAtDevice, DemoTypes, Record
  <2>3. QED BY <2>1, <2>2 DEF InDemo, Current
<1>3. CASE CheckDemoFresh
  BY <1>1, <1>3 DEF CheckDemoFresh, CheckFresh, TickInv, InDemo, Current
<1>4. CASE FinishDemoTick
  BY <1>4 DEF FinishDemoTick, FinishTick, MainIdle
<1>5. CASE UNCHANGED main
  <2>1. main.pc # "idle" /\ InDemo /\ Current.op \in {"send", "check", "await"}
    BY <1>1, <1>5 DEF TickInv
  <2>2. \A op : ~At(op) BY <2>1 DEF At
  <2>3. UNCHANGED demo
    <3>1. demo.step # 0 BY <1>1, <2>1, StepTypes, ProgramShape
    <3>2. QED
      BY <1>5, <2>1, <2>2, <3>1 DEF DemoNext, ScriptStep, WorldStep, LaunchDemo,
         GoToSleep, AssertFound, TimeOut, Succeed, SendReading, LookAtDevice,
         CheckDemoFresh, FinishDemoTick, ConnectDevice, StopDevice, StartObserver,
         StopObserver, StartBroker, LookForBroker, StopBroker, StartService, Terminate,
         ServiceStopped, Network, BrokerReady, ServiceReady, ServiceRefused,
         ServiceHandles, ObserverSubscribed, DemoTimePasses, CrashService, ServiceExits,
         ReportReturned, FinishTick, MainIdle
  <2>4. QED BY <2>1, <2>3 DEF InDemo, Current
<1>6. QED BY <1>2, <1>3, <1>4, <1>5, Writers

\* No message turns out younger than the service's last word.
LEMMA WordNext == DemoInv /\ DemoNext => WordInv'
<1> SUFFICES ASSUME DemoInv, DemoNext PROVE WordInv'
  OBVIOUS
<1>1. DemoTypes /\ WordInv BY DEF DemoInv
<1>2. DemoTypes' BY DemoTypesNext
<1>3. LastWord \in Nat /\ LastWord' \in Nat /\ LastWord <= LastWord'
  BY <1>1, LastWordMoves
<1>4. net'.issuedAt <= LastWord' BY <1>1, <1>2, <1>3, NetMoves DEF DemoTypes
<1>5. device'.mqttIssuedAt <= LastWord'
  <2>1. /\ device.mqttIssuedAt \in Int /\ device.mqttIssuedAt <= LastWord
        /\ net.issuedAt \in Int /\ net.issuedAt <= LastWord
    BY <1>1 DEF DemoTypes, WordInv
  <2>2. QED BY <1>1, <1>3, <2>1, DeviceMoves
<1>6. ASSUME main'.pc = "decide", main'.fresh, service'.state = "dead"
      PROVE  main'.now - service'.since <= StaleTimeout
  <2>1. /\ StaleTimeout \in Nat /\ main.now \in Nat /\ main'.now \in Nat
        /\ service.since \in Nat /\ service'.since \in Nat
        /\ clock \in Nat /\ clock' \in Nat /\ main.now <= clock /\ main'.now <= clock'
    BY <1>1, <1>2, DeviceAssumption, MainMoves DEF DemoTypes, WordInv
  <2>2. CASE service'.since = clock /\ clock' = clock
    BY <2>1, <2>2
  <2>3. CASE service'.state = service.state /\ service'.since = service.since
    <3>1. CASE CheckFresh
      <4>1. main' = [main EXCEPT !.pc = "decide", !.fresh = MqttFresh(device, main.now)]
        BY <3>1 DEF CheckFresh
      <4>2. main'.fresh = MqttFresh(device, main.now) /\ main'.now = main.now
        BY <1>1, <4>1 DEF DemoTypes, Record
      <4>3. main.now - device.mqttIssuedAt <= StaleTimeout
        BY <1>6, <4>2 DEF MqttFresh
      <4>4. device.mqttIssuedAt \in Int /\ device.mqttIssuedAt <= service.since
        BY <1>1, <1>6, <2>3 DEF DemoTypes, WordInv, LastWord
      <4>5. QED BY <2>1, <2>3, <4>2, <4>3, <4>4
    <3>2. CASE main' = main
      BY <1>1, <1>6, <2>3, <3>2 DEF WordInv
    <3>3. QED BY <1>1, <1>6, <3>1, <3>2, MainMoves
  <2>4. QED BY <1>1, <2>2, <2>3, ServiceMoves
<1>7. QED BY <1>1, <1>4, <1>5, <1>6, LastWordMoves, MainMoves, MessagesMove DEF WordInv

\* The clean-up is the last part of the program.
Stops == {"stop_device", "stop_observer", "stop_service", "stop_broker"}

\* Its operations are the last four steps, in this order, and no others.
LEMMA CleanUpIsLast ==
  ASSUME DemoTypes, InDemo
  PROVE  /\ Current.op \notin Stops => demo.step <= Len(Script)
         /\ demo.step = Len(Script) + 1 => Current.op = "stop_device"
         /\ demo.step = Len(Script) + 2 => Current.op = "stop_observer"
         /\ demo.step = Len(Script) + 3 => Current.op = "stop_service"
         /\ demo.step = Len(Script) + 4 => Current.op = "stop_broker"
  BY StepTypes, ProgramShape DEF Current, Stops

\* Only the step that stops a part takes the script on from there.
LEMMA CleanUpMoves ==
  ASSUME DemoInv, DemoNext, InDemo, Current.op \in Stops, demo'.step # demo.step
  PROVE  \/ Current.op = "stop_device" /\ StopDevice
         \/ Current.op = "stop_observer" /\ StopObserver
         \/ Current.op = "stop_service" /\ ServiceStopped
         \/ Current.op = "stop_broker" /\ StopBroker
<1>1. DemoTypes /\ TickInv BY DEF DemoInv
<1>2. main.pc = "idle" BY <1>1 DEF TickInv, Stops
<1>3. \A op : At(op) => op \in Stops BY AtOnce
<1>4. \A op \in {"sleep", "assert", "await", "wait_for_broker", "send", "check",
                 "connect_device", "start_broker", "start_service", "start_observer",
                 "report", "succeed"} : ~At(op)
  BY <1>3 DEF Stops
<1>5. demo.step # 0 BY <1>1, StepTypes
<1>6. demo' # demo OBVIOUS
<1>7. Terminate => demo'.step = demo.step BY <1>1 DEF Terminate, DemoTypes, Record
<1>8. ~ScriptAlone /\ ~LaunchDemo
  BY <1>4, <1>5 DEF ScriptAlone, LaunchDemo, GoToSleep, AssertFound, TimeOut, Succeed,
     LookForBroker, ReportReturned
<1>9. ~(SendReading \/ LookAtDevice \/ FinishDemoTick \/ ConnectDevice
        \/ StartObserver \/ StartBroker \/ StartService)
  BY <1>2, <1>4 DEF SendReading, LookAtDevice, FinishDemoTick, FinishTick, ConnectDevice,
     StartObserver, StartBroker, StartService
<1>10. ~(CheckDemoFresh \/ Network \/ BrokerReady \/ ServiceReady \/ ServiceRefused
         \/ ServiceHandles \/ ObserverSubscribed \/ DemoTimePasses \/ CrashService
         \/ ServiceExits)
  BY <1>6 DEF CheckDemoFresh, Network, BrokerReady, ServiceReady, ServiceRefused,
     ServiceHandles, ObserverSubscribed, DemoTimePasses, CrashService, ServiceExits
<1>11. StopDevice \/ StopObserver \/ ServiceStopped \/ StopBroker
  BY <1>7, <1>8, <1>9, <1>10 DEF DemoNext, ScriptStep, WorldStep, ScriptAlone
<1>12. QED BY <1>11, AtOnce DEF StopDevice, StopObserver, ServiceStopped, StopBroker

\* A part of the clean-up comes to lie behind the script only where the script goes on
\* from it.
LEMMA PastMoves ==
  ASSUME DemoInv, DemoNext, NEW k \in 1 .. 4, Past(k)'
  PROVE  \/ Past(k)
         \/ InDemo /\ demo.step = Len(Script) + k /\ demo'.step # demo.step
<1>1. DemoTypes BY DEF DemoInv
<1>2. /\ demo.step \in Int /\ Len(Script) \in Nat /\ k \in Int
      /\ InDemo <=> demo.step \in 1 .. Len(Script) + 4
      /\ demo'.step \in {demo.step, demo.step + 1, Len(Script) + 1}
  BY <1>1, StepTypes, ScriptMoves
<1>3. demo.step >= 0 BY <1>1, StepTypes, ProgramShape
<1>4. demo'.step = 0 \/ demo'.step > Len(Script) + k BY DEF Past
<1>5. QED BY <1>2, <1>3, <1>4 DEF Past

\* What needs an operation of the script proper leaves the clean-up ahead.
LEMMA AheadOf ==
  ASSUME DemoTypes, InDemo, Current.op \notin Stops, demo' = Continued, NEW k \in 1 .. 4
  PROVE  ~Past(k)'
<1>1. /\ demo.step \in 1 .. Len(Script) + 4 /\ demo.step <= Len(Script)
      /\ Len(Script) \in Nat
  BY StepTypes, CleanUpIsLast
<1>2. demo'.step = demo.step + 1 BY Moves
<1>3. QED BY <1>1, <1>2 DEF Past

\* What the clean-up has stopped stays stopped.
LEMMA LeftNext == DemoInv /\ DemoNext => LeftInv'
<1> SUFFICES ASSUME DemoInv, DemoNext PROVE LeftInv'
  OBVIOUS
<1>1. DemoTypes /\ LeftInv BY DEF DemoInv
<1>2. \A op : At(op) /\ op \notin Stops /\ demo' = Continued =>
        ~Past(1)' /\ ~Past(2)' /\ ~Past(3)' /\ ~Past(4)'
  <2> TAKE op
  <2> HAVE At(op) /\ op \notin Stops /\ demo' = Continued
  <2>1. InDemo /\ Current.op \notin Stops BY AtOnce
  <2>2. \A k \in 1 .. 4 : ~Past(k)' BY <1>1, <2>1, AheadOf
  <2>3. QED BY <2>2
<1>3. ASSUME Past(1)' PROVE ~connected'
  <2>1. CASE ConnectDevice
    <3>1. At("connect_device") /\ demo' = Continued BY <2>1 DEF ConnectDevice
    <3>2. QED BY <1>2, <1>3, <3>1 DEF Stops
  <2>2. CASE StopDevice BY <2>2 DEF StopDevice
  <2>3. CASE UNCHANGED connected /\ ~StopDevice
    <3>1. CASE Past(1) BY <1>1, <2>3, <3>1 DEF LeftInv
    <3>2. CASE ~Past(1)
      <4>1. InDemo /\ demo.step = Len(Script) + 1 /\ demo'.step # demo.step
        BY <1>3, <3>2, PastMoves
      <4>2. Current.op = "stop_device" BY <1>1, <4>1, CleanUpIsLast
      <4>3. QED BY <2>3, <4>1, <4>2, CleanUpMoves DEF Stops
    <3>3. QED BY <3>1, <3>2
  <2>4. QED BY <2>1, <2>2, <2>3, Writers
<1>4. ASSUME Past(2)' PROVE observer' = "none"
  <2>1. CASE StartObserver
    <3>1. At("start_observer") /\ demo' = Continued BY <2>1 DEF StartObserver
    <3>2. QED BY <1>2, <1>4, <3>1 DEF Stops
  <2>2. CASE StopObserver BY <2>2 DEF StopObserver
  <2>3. CASE ObserverSubscribed
    <3>1. observer # "none" /\ UNCHANGED demo BY <2>3 DEF ObserverSubscribed
    <3>2. Past(2) BY <1>4, <3>1 DEF Past
    <3>3. QED BY <1>1, <3>1, <3>2 DEF LeftInv
  <2>4. CASE UNCHANGED observer /\ ~StopObserver
    <3>1. CASE Past(2) BY <1>1, <2>4, <3>1 DEF LeftInv
    <3>2. CASE ~Past(2)
      <4>1. InDemo /\ demo.step = Len(Script) + 2 /\ demo'.step # demo.step
        BY <1>4, <3>2, PastMoves
      <4>2. Current.op = "stop_observer" BY <1>1, <4>1, CleanUpIsLast
      <4>3. QED BY <2>4, <4>1, <4>2, CleanUpMoves DEF Stops
    <3>3. QED BY <3>1, <3>2
  <2>5. QED BY <2>1, <2>2, <2>3, <2>4, Writers
<1>5. ASSUME Past(3)' PROVE ~Alive'
  <2>1. CASE StartService
    <3>1. At("start_service") /\ demo' = Continued BY <2>1 DEF StartService
    <3>2. QED BY <1>2, <1>5, <3>1 DEF Stops
  <2>2. CASE ServiceStopped
    <3>1. \/ ~Alive /\ UNCHANGED service
          \/ service' = Died
      BY <2>2 DEF ServiceStopped
    <3>2. Died.state = "dead" BY <1>1 DEF Died, DemoTypes, Record
    <3>3. QED BY <3>1, <3>2 DEF Alive
  <2>3. CASE ServiceReady \/ ServiceRefused \/ ServiceHandles \/ CrashService
             \/ ServiceExits
    <3>1. Alive /\ UNCHANGED demo
      BY <2>3 DEF ServiceReady, ServiceRefused, ServiceHandles, CrashService,
         ServiceExits, Alive
    <3>2. Past(3) BY <1>5, <3>1 DEF Past
    <3>3. QED BY <1>1, <3>1, <3>2 DEF LeftInv
  <2>4. CASE Terminate
    <3>1. Alive BY <2>4 DEF Terminate, Alive
    <3>2. demo'.step = demo.step BY <1>1, <2>4 DEF Terminate, DemoTypes, Record
    <3>3. Past(3) BY <1>5, <3>2 DEF Past
    <3>4. QED BY <1>1, <3>1, <3>3 DEF LeftInv
  <2>5. CASE UNCHANGED service /\ ~ServiceStopped
    <3>1. CASE Past(3) BY <1>1, <2>5, <3>1 DEF LeftInv, Alive
    <3>2. CASE ~Past(3)
      <4>1. InDemo /\ demo.step = Len(Script) + 3 /\ demo'.step # demo.step
        BY <1>5, <3>2, PastMoves
      <4>2. Current.op = "stop_service" BY <1>1, <4>1, CleanUpIsLast
      <4>3. QED BY <2>5, <4>1, <4>2, CleanUpMoves DEF Stops
    <3>3. QED BY <3>1, <3>2
  <2>6. QED BY <2>1, <2>2, <2>3, <2>4, <2>5, Writers
<1>6. ASSUME Past(4)' PROVE broker' = "none"
  <2>1. CASE StartBroker
    <3>1. At("start_broker") /\ (demo' = Continued \/ broker' = "none")
      BY <2>1 DEF StartBroker
    <3>2. QED BY <1>2, <1>6, <3>1 DEF Stops
  <2>2. CASE StopBroker BY <2>2 DEF StopBroker
  <2>3. CASE BrokerReady
    <3>1. broker # "none" /\ UNCHANGED demo BY <2>3 DEF BrokerReady
    <3>2. Past(4) BY <1>6, <3>1 DEF Past
    <3>3. QED BY <1>1, <3>1, <3>2 DEF LeftInv
  <2>4. CASE UNCHANGED broker /\ ~StopBroker
    <3>1. CASE Past(4) BY <1>1, <2>4, <3>1 DEF LeftInv
    <3>2. CASE ~Past(4)
      <4>1. InDemo /\ demo.step = Len(Script) + 4 /\ demo'.step # demo.step
        BY <1>6, <3>2, PastMoves
      <4>2. Current.op = "stop_broker" BY <1>1, <4>1, CleanUpIsLast
      <4>3. QED BY <2>4, <4>1, <4>2, CleanUpMoves DEF Stops
    <3>3. QED BY <3>1, <3>2
  <2>5. QED BY <2>1, <2>2, <2>3, <2>4, Writers
<1>7. QED BY <1>3, <1>4, <1>5, <1>6 DEF LeftInv

\* Before the script begins, all of this holds.
LEMMA DemoInvInit == FullInit => DemoInv
<1> SUFFICES ASSUME FullInit PROVE DemoInv
  OBVIOUS
<1>1. DemoInit /\ SimInit BY DEF FullInit, DemoInit
<1>2. DemoTypes
  <2>1. /\ Record(device, DOMAIN NewController) /\ device.mqttIssuedAt \in Int
    BY <1>1 DEF SimInit, NewController, Record, Never
  <2>2. /\ Record(main, {"pc", "now", "fresh"}) /\ main.pc = "idle" /\ main.now \in Nat
        /\ Record(net, {"pc", "message", "age", "issuedAt"}) /\ net.issuedAt \in Int
    BY <1>1 DEF SimInit, MainIdle, NetIdle, Record, Never
  <2>3. inbox \in Seq(Items(inbox)) /\ clock \in Nat
    BY <1>1, QueueShort DEF SimInit
  <2>4. /\ Record(demo, {"step", "wake", "deadline", "code"}) /\ demo.step = 0
        /\ Record(service, {"state", "since", "rule"})
        /\ service.state \in ServiceStates /\ service.since \in Nat
    BY <1>1 DEF DemoInit, NoDemo, NoService, Record, ServiceStates
  <2>5. machine.epoch \in Nat BY <1>1, DemoAssumption DEF DemoInit
  <2>6. 0 \in 0 .. Len(Program) + 1 BY ProgramShape
  <2>7. QED BY <2>1, <2>2, <2>3, <2>4, <2>5, <2>6 DEF DemoTypes
<1>3. TickInv BY <1>1 DEF TickInv, SimInit, MainIdle
<1>4. LeftInv BY <1>1 DEF LeftInv, SimInit, DemoInit, NoService, Alive
<1>5. WordInv
  <2>1. /\ clock = 0 /\ LastWord = 0 /\ service.since = 0 /\ main.now = 0
        /\ net.issuedAt = -1 /\ device.mqttIssuedAt = -1 /\ main.pc = "idle"
    BY <1>1 DEF SimInit, DemoInit, NoService, LastWord, MainIdle, NetIdle, NewController,
       Never
  <2>2. Items(inbox) = {} BY <1>1, QueueShort DEF SimInit
  <2>3. brokerDesired.sentAt \in Int /\ brokerDesired.sentAt <= 0
    BY <1>1, SimAssumption DEF SimInit
  <2>4. QED BY <2>1, <2>2, <2>3 DEF WordInv
<1>6. QED BY <1>2, <1>3, <1>4, <1>5 DEF DemoInv

\* All of this always holds.
LEMMA DemoInvHolds == FullSpec => []DemoInv
<1>1. DemoInv /\ [FullNext]_fullVars => DemoInv'
  <2> SUFFICES ASSUME DemoInv, [FullNext]_fullVars PROVE DemoInv'
    OBVIOUS
  <2>1. CASE DemoNext
    BY <2>1, DemoTypesNext, TickNext, LeftNext, WordNext DEF DemoInv
  <2>2. CASE UNCHANGED demoVars
    BY <2>2 DEF DemoInv, DemoTypes, TickInv, LeftInv, WordInv, LastWord, InDemo, Current,
       Past, Alive, demoVars, simVars, worldVars, brokerVars
  <2>3. QED BY <2>1, <2>2, Steps
<1>2. QED BY <1>1, DemoInvInit, PTL DEF FullSpec

-----------------------------------------------------------------------------
(* What the demonstration leaves behind *)

\* Whatever fails, and at whatever step, nothing is left running: the `finally` of
\* run_e2e_demo.py stops all that any step of its `try` may have started.
THEOREM NothingLeftRunning == FullSpec => []CleanedUp
<1>1. DemoInv => CleanedUp
  <2> SUFFICES ASSUME DemoInv, ~InDemo
               PROVE  broker = "none" /\ ~Alive /\ ~connected /\ observer = "none"
    BY DEF CleanedUp
  <2>1. DemoTypes /\ LeftInv BY DEF DemoInv
  <2>2. /\ demo.step \in Int /\ demo.step >= 0 /\ Len(Script) \in Nat
        /\ demo.step \notin 1 .. Len(Script) + 4
    BY <2>1, StepTypes, ProgramShape
  <2>3. Past(1) /\ Past(2) /\ Past(3) /\ Past(4) BY <2>2 DEF Past
  <2>4. QED BY <2>1, <2>3 DEF LeftInv
<1>2. QED BY <1>1, DemoInvHolds, PTL

\* The device obeys a service that died for the stale timeout at most, wherever its
\* last messages were and whenever another one is started (_mqtt_fresh, issued_at).
THEOREM DeadServiceIsNotObeyed == FullSpec => DeadServiceNotObeyed
<1>1. DemoInv /\ [FullNext]_fullVars =>
        [FinishDemoTick /\ main.fresh /\ service.state = "dead" =>
           main.now - service.since <= StaleTimeout]_demoVars
  BY DEF DemoInv, WordInv, FinishDemoTick, FinishTick
<1>2. QED BY <1>1, DemoInvHolds, PTL DEF FullSpec, DeadServiceNotObeyed

\* The settings with which the script starts the service, whatever is set around it.
LEMMA ServiceSettings ==
  /\ ServiceConfig.host = "localhost"
  /\ ServiceConfig.port = "18830"
  /\ ServiceConfig.rule = "demo"
<1> DEFINE env == Environment(ServiceEnvironment, machine.dotenv)
<1>1. /\ {"BATHROOM_VENT_CONFIG_PATH", "MQTT_HOST", "MQTT_PORT"} \subseteq DOMAIN env
      /\ env["BATHROOM_VENT_CONFIG_PATH"] = "config/demo.yaml"
      /\ env["MQTT_HOST"] = "localhost"
      /\ env["MQTT_PORT"] = "18830"
  BY DEF Environment, ServiceEnvironment, Over
<1> HIDE DEF env
<1>2. DefaultConfigPath(env) = "config/demo.yaml"
  BY <1>1 DEF DefaultConfigPath, Setting
<1>3. /\ Setting(env, "MQTT_HOST", ConfigFiles["config/demo.yaml"].host) = "localhost"
      /\ Setting(env, "MQTT_PORT", ConfigFiles["config/demo.yaml"].port) = "18830"
  BY <1>1 DEF Setting
<1>4. ConfigFiles["config/demo.yaml"].rule = "demo" BY DEF ConfigFiles
<1>5. QED BY <1>2, <1>3, <1>4 DEF ServiceConfig, LoadConfig, env

\* Whatever the developer's shell and .env file set, the service the script starts talks
\* to the script's own broker and decides with the values of demo.yaml (load_config).
THEOREM InstallationIsLeftAlone == FullSpec => []InstallationLeftAlone
<1>1. InstallationLeftAlone BY ServiceSettings DEF InstallationLeftAlone
<1>2. QED BY <1>1, PTL

-----------------------------------------------------------------------------
(* The program, operation by operation *)

\* Which operation the program has at which step, from its parts.
LEMMA Table ==
  /\ Last \in Nat /\ Last >= 27
  /\ Len(Script) = Last + 9
  /\ \A i \in 1 .. 27 : Program[i] = UntilFallback[i]
  /\ \A i \in 28 .. Last :
       Program[i] = IF i % 2 = 0 THEN Send(999) ELSE Sleep(SampleInterval)
  /\ \A i \in 1 .. 9 : Program[Last + i] = Recovery[i]
<1> DEFINE n == 2 * FailureLimit
           Ops == {UntilFallback[i] : i \in 1 .. 27}
                    \cup {InvalidReadings[i] : i \in 1 .. n}
                    \cup {Recovery[i] : i \in 1 .. 9} \cup {CleanUp[i] : i \in 1 .. 4}
<1>0. FailureLimit \in Nat /\ n \in Nat /\ Last = 27 + n BY DeviceAssumption DEF Last
<1>1. UntilFallback \in [1 .. 27 -> Ops]
  <2>1. UntilFallback = [i \in 1 .. 27 |-> UntilFallback[i]] BY DEF UntilFallback
  <2>2. QED BY <2>1
<1>2. InvalidReadings \in [1 .. n -> Ops] BY DEF InvalidReadings
<1>3. Recovery \in [1 .. 9 -> Ops]
  <2>1. Recovery = [i \in 1 .. 9 |-> Recovery[i]] BY DEF Recovery
  <2>2. QED BY <2>1
<1>4. CleanUp \in [1 .. 4 -> Ops]
  <2>1. CleanUp = [i \in 1 .. 4 |-> CleanUp[i]] BY DEF CleanUp
  <2>2. QED BY <2>1
<1>5. \A i \in 28 .. Last : InvalidReadings[i - 27] =
          IF i % 2 = 0 THEN Send(999) ELSE Sleep(SampleInterval)
  <2> TAKE i \in 28 .. Last
  <2>1. i - 27 \in 1 .. 2 * FailureLimit /\ i \in Int BY <1>0
  <2>2. (i - 27) % 2 = 1 <=> i % 2 = 0 BY <2>1
  <2>3. QED BY <2>1, <2>2 DEF InvalidReadings
<1> HIDE DEF Ops, n
<1>6. UntilFallback \in Seq(Ops) /\ Len(UntilFallback) = 27 BY <1>1, Listed
<1>7. InvalidReadings \in Seq(Ops) /\ Len(InvalidReadings) = n BY <1>0, <1>2, Listed
<1>8. Recovery \in Seq(Ops) /\ Len(Recovery) = 9 BY <1>3, Listed
<1>9. CleanUp \in Seq(Ops) /\ Len(CleanUp) = 4 BY <1>4, Listed
<1> DEFINE first == UntilFallback \o InvalidReadings
           script == first \o Recovery
           whole == script \o CleanUp
<1>11. /\ first \in Seq(Ops) /\ Len(first) = 27 + n
       /\ \A i \in 1 .. 27 + n :
            first[i] = IF i <= 27 THEN UntilFallback[i] ELSE InvalidReadings[i - (27)]
  <2>1. /\ first \in Seq(Ops)
        /\ Len(first) = Len(UntilFallback) + Len(InvalidReadings)
        /\ \A i \in 1 .. Len(UntilFallback) + Len(InvalidReadings) :
             first[i] = IF i <= Len(UntilFallback) THEN UntilFallback[i]
                        ELSE InvalidReadings[i - Len(UntilFallback)]
    BY <1>6, <1>7, ConcatProperties
  <2>2. Len(UntilFallback) + Len(InvalidReadings) = 27 + n BY <1>0, <1>6, <1>7
  <2>3. QED BY <2>1, <2>2, <1>6, <1>7
<1> HIDE DEF first
<1>12. 27 + n \in Nat /\ 36 + n \in Nat BY <1>0
<1>13. /\ script \in Seq(Ops) /\ Len(script) = 36 + n
       /\ \A i \in 1 .. 36 + n :
            script[i] = IF i <= 27 + n THEN first[i] ELSE Recovery[i - (27 + n)]
  <2>1. /\ script \in Seq(Ops)
        /\ Len(script) = Len(first) + Len(Recovery)
        /\ \A i \in 1 .. Len(first) + Len(Recovery) :
             script[i] = IF i <= Len(first) THEN first[i] ELSE Recovery[i - Len(first)]
    BY <1>8, <1>11, ConcatProperties
  <2>2. Len(first) + Len(Recovery) = 36 + n BY <1>0, <1>8, <1>11
  <2>3. QED BY <2>1, <2>2, <1>8, <1>11
<1> HIDE DEF script
<1>14. /\ whole \in Seq(Ops) /\ Len(whole) = 40 + n
       /\ \A i \in 1 .. 40 + n :
            whole[i] = IF i <= 36 + n THEN script[i] ELSE CleanUp[i - (36 + n)]
  <2>1. /\ whole \in Seq(Ops)
        /\ Len(whole) = Len(script) + Len(CleanUp)
        /\ \A i \in 1 .. Len(script) + Len(CleanUp) :
             whole[i] = IF i <= Len(script) THEN script[i] ELSE CleanUp[i - Len(script)]
    BY <1>9, <1>13, ConcatProperties
  <2>2. Len(script) + Len(CleanUp) = 40 + n BY <1>0, <1>9, <1>13
  <2>3. QED BY <2>1, <2>2, <1>9, <1>13
<1> HIDE DEF whole
<1>15. Script = script BY <1>6, <1>7, <1>8, ConcatAssociative DEF Script, script, first
<1>16. Program = whole BY <1>15 DEF Program, whole
<1>17. \A i \in 1 .. 27 : Program[i] = UntilFallback[i]
  <2> TAKE i \in 1 .. 27
  <2>1. i \in 1 .. 27 + n /\ i \in 1 .. 36 + n /\ i \in 1 .. 40 + n BY <1>0
  <2>2. QED BY <2>1, <1>11, <1>13, <1>14, <1>16
<1>18. \A i \in 28 .. Last :
         Program[i] = IF i % 2 = 0 THEN Send(999) ELSE Sleep(SampleInterval)
  <2> TAKE i \in 28 .. Last
  <2>1. i \in 1 .. 27 + n /\ i \in 1 .. 36 + n /\ i \in 1 .. 40 + n /\ ~(i <= 27)
    BY <1>0
  <2>2. QED BY <2>1, <1>5, <1>11, <1>13, <1>14, <1>16
<1>19. \A i \in 1 .. 9 : Program[Last + i] = Recovery[i]
  <2> TAKE i \in 1 .. 9
  <2>1. /\ (Last + i) - (27 + n) = i /\ Last + i \in 1 .. 36 + n
        /\ Last + i \in 1 .. 40 + n /\ ~(Last + i <= 27 + n)
    BY <1>0
  <2>2. QED BY <2>1, <1>13, <1>14, <1>16
<1>20. QED BY <1>0, <1>13, <1>15, <1>17, <1>18, <1>19

\* The first part of the script, operation by operation.
LEMMA FirstPart ==
  /\ Program[1] = Do("start_broker")
  /\ Program[2] = [op |-> "wait_for_broker", time |-> BrokerPatience]
  /\ Program[3] = Do("start_service") /\ Program[4] = Sleep(ServicePause)
  /\ Program[5] = Do("start_observer") /\ Program[6] = Do("connect_device")
  /\ Program[7] = Send(40) /\ Program[8] = Sleep(2 * SampleInterval)
  /\ Program[9] = Check("off")
  /\ Program[10] = Send(80) /\ Program[11] = Await("on", Patience)
  /\ Program[12] = Check("automatic")
  /\ Program[13] = Send(65) /\ Program[14] = Sleep(2 * SampleInterval)
  /\ Program[15] = Check("on")
  /\ Program[16] = Sleep(MinFanOn) /\ Program[17] = Send(50)
  /\ Program[18] = Await("off", Patience)
  /\ Program[19] = Sleep(MinFanOff) /\ Program[20] = Send(85)
  /\ Program[21] = Await("on", Patience)
  /\ Program[22] = Await("off", MaxRuntime + Patience)
  /\ Program[23] = Expect("cutoff") /\ Program[24] = Do("stop_service")
  /\ Program[25] = Sleep(StaleTimeout + 2 * SampleInterval)
  /\ Program[26] = Send(50) /\ Program[27] = Await("local_fallback", Patience)
<1>1. \A i \in 1 .. 27 : Program[i] = UntilFallback[i] BY Table
<1>2. QED BY <1>1 DEF UntilFallback

\* The last part.
LEMMA LastPart ==
  /\ Program[Last + 1] = Expect("safe_state")
  /\ Program[Last + 2] = Do("start_service")
  /\ Program[Last + 3] = Sleep(ServicePause) /\ Program[Last + 4] = Send(40)
  /\ Program[Last + 5] = Await("automatic", Patience)
  /\ Program[Last + 6] = Expect("quiet") /\ Program[Last + 7] = Expect("observed")
  /\ Program[Last + 8] = Do("report") /\ Program[Last + 9] = Do("succeed")
<1>1. \A i \in 1 .. 9 : Program[Last + i] = Recovery[i] BY Table
<1>2. QED BY <1>1 DEF Recovery

\* The steps at which the script sends an invalid reading, and sleeps after one.
InvalidSends  == {i \in 28 .. Last : i % 2 = 0}
InvalidSleeps == {i \in 28 .. Last : i % 2 # 0}

\* The operations of both.
LEMMA Operations ==
  /\ Program[1].op = "start_broker" /\ Program[2].op = "wait_for_broker"
  /\ Program[3].op = "start_service" /\ Program[4].op = "sleep"
  /\ Program[5].op = "start_observer" /\ Program[6].op = "connect_device"
  /\ Program[7].op = "send" /\ Program[8].op = "sleep"
  /\ Program[9].op = "check" /\ Program[10].op = "send"
  /\ Program[11].op = "await" /\ Program[12].op = "check"
  /\ Program[13].op = "send" /\ Program[14].op = "sleep"
  /\ Program[15].op = "check" /\ Program[16].op = "sleep"
  /\ Program[17].op = "send" /\ Program[18].op = "await"
  /\ Program[19].op = "sleep" /\ Program[20].op = "send"
  /\ Program[21].op = "await" /\ Program[22].op = "await"
  /\ Program[23].op = "assert" /\ Program[24].op = "stop_service"
  /\ Program[25].op = "sleep" /\ Program[26].op = "send"
  /\ Program[27].op = "await"
  /\ Program[Last + 1].op = "assert" /\ Program[Last + 2].op = "start_service"
  /\ Program[Last + 3].op = "sleep" /\ Program[Last + 4].op = "send"
  /\ Program[Last + 5].op = "await" /\ Program[Last + 6].op = "assert"
  /\ Program[Last + 7].op = "assert" /\ Program[Last + 8].op = "report"
  /\ Program[Last + 9].op = "succeed"
  BY FirstPart, LastPart DEF Do, Sleep, Send, Check, Await, Expect

\* Where the script has which operation.
Where(op) ==
  CASE op = "start_broker" -> {1}
    [] op = "wait_for_broker" -> {2}
    [] op = "start_service" -> {3, Last + 2}
    [] op = "sleep" -> {4, 8, 14, 16, 19, 25, Last + 3} \cup InvalidSleeps
    [] op = "start_observer" -> {5}
    [] op = "connect_device" -> {6}
    [] op = "send" -> {7, 10, 13, 17, 20, 26, Last + 4} \cup InvalidSends
    [] op = "check" -> {9, 12, 15}
    [] op = "await" -> {11, 18, 21, 22, 27, Last + 5}
    [] op = "assert" -> {23, Last + 1, Last + 6, Last + 7}
    [] op = "stop_service" -> {24}
    [] op = "report" -> {Last + 8}
    [] op = "succeed" -> {Last + 9}
    [] OTHER -> {}

\* The same, one by one.
LEMMA WhereIs ==
  /\ Where("start_broker") = {1}
  /\ Where("wait_for_broker") = {2}
  /\ Where("start_service") = {3, Last + 2}
  /\ Where("sleep") = {4, 8, 14, 16, 19, 25, Last + 3} \cup InvalidSleeps
  /\ Where("start_observer") = {5}
  /\ Where("connect_device") = {6}
  /\ Where("send") = {7, 10, 13, 17, 20, 26, Last + 4} \cup InvalidSends
  /\ Where("check") = {9, 12, 15}
  /\ Where("await") = {11, 18, 21, 22, 27, Last + 5}
  /\ Where("assert") = {23, Last + 1, Last + 6, Last + 7}
  /\ Where("stop_service") = {24}
  /\ Where("report") = {Last + 8}
  /\ Where("succeed") = {Last + 9}
  /\ Where("stop_device") = {} /\ Where("stop_observer") = {}
  /\ Where("stop_broker") = {}
<1>1. Where("start_broker") = {1} BY DEF Where
<1>2. Where("wait_for_broker") = {2} BY DEF Where
<1>3. Where("start_service") = {3, Last + 2} BY DEF Where
<1>4. Where("sleep") = {4, 8, 14, 16, 19, 25, Last + 3} \cup InvalidSleeps BY DEF Where
<1>5. Where("start_observer") = {5} BY DEF Where
<1>6. Where("connect_device") = {6} BY DEF Where
<1>7. Where("send") = {7, 10, 13, 17, 20, 26, Last + 4} \cup InvalidSends BY DEF Where
<1>8. Where("check") = {9, 12, 15} BY DEF Where
<1>9. Where("await") = {11, 18, 21, 22, 27, Last + 5} BY DEF Where
<1>10. Where("assert") = {23, Last + 1, Last + 6, Last + 7} BY DEF Where
<1>11. Where("stop_service") = {24} BY DEF Where
<1>12. Where("report") = {Last + 8} BY DEF Where
<1>13. Where("succeed") = {Last + 9} BY DEF Where
<1>14. /\ Where("stop_device") = {} /\ Where("stop_observer") = {}
       /\ Where("stop_broker") = {}
  BY DEF Where
<1> QED
  BY <1>1, <1>2, <1>3, <1>4, <1>5, <1>6, <1>7, <1>8, <1>9, <1>10, <1>11, <1>12, <1>13, <1>14

\* An operation of the script is where Where says.
LEMMA OpAt ==
  ASSUME NEW i \in 1 .. Len(Script)
  PROVE  i \in Where(Program[i].op)
<1> DEFINE P(j) == j \in Where(Program[j].op)
<1>1. Len(Script) = Last + 9 /\ Last \in Nat /\ Last >= 27 BY Table
<1>2. P(1) /\ P(2) /\ P(3) BY Operations, WhereIs, ZenonT(30)
<1>3. P(4) /\ P(5) /\ P(6) BY Operations, WhereIs, ZenonT(30)
<1>4. P(7) /\ P(8) /\ P(9) BY Operations, WhereIs, ZenonT(30)
<1>5. P(10) /\ P(11) /\ P(12) BY Operations, WhereIs, ZenonT(30)
<1>6. P(13) /\ P(14) /\ P(15) BY Operations, WhereIs, ZenonT(30)
<1>7. P(16) /\ P(17) /\ P(18) BY Operations, WhereIs, ZenonT(30)
<1>8. P(19) /\ P(20) /\ P(21) BY Operations, WhereIs, ZenonT(30)
<1>9. P(22) /\ P(23) /\ P(24) BY Operations, WhereIs, ZenonT(30)
<1>10. P(25) /\ P(26) /\ P(27) BY Operations, WhereIs, ZenonT(30)
<1>11. P(Last + 1) /\ P(Last + 2) /\ P(Last + 3) BY Operations, WhereIs, ZenonT(30)
<1>12. P(Last + 4) /\ P(Last + 5) /\ P(Last + 6) BY Operations, WhereIs, ZenonT(30)
<1>13. P(Last + 7) /\ P(Last + 8) /\ P(Last + 9) BY Operations, WhereIs, ZenonT(30)
<1>14. ASSUME i \in 28 .. Last PROVE P(i)
  <2>1. Program[i] = IF i % 2 = 0 THEN Send(999) ELSE Sleep(SampleInterval)
    BY <1>14, Table
  <2>2. QED BY <1>14, <2>1, WhereIs DEF Sleep, Send, InvalidSends, InvalidSleeps
<1>15. i \in 1 .. 27 => P(i)
  <2>1. i \in 1 .. 27 =>
          i \in {1, 2, 3, 4, 5, 6, 7, 8, 9, 10, 11, 12, 13, 14, 15, 16, 17, 18, 19, 20, 21,
                22, 23, 24, 25, 26, 27}
    OBVIOUS
  <2> HIDE DEF P
  <2>2. QED BY <2>1, <1>2, <1>3, <1>4, <1>5, <1>6, <1>7, <1>8, <1>9, <1>10
<1>16. i \in Last + 1 .. Last + 9 => P(i)
  <2>1. i \in Last + 1 .. Last + 9 =>
          \/ i = Last + 1 \/ i = Last + 2 \/ i = Last + 3 \/ i = Last + 4 \/ i = Last + 5
          \/ i = Last + 6 \/ i = Last + 7 \/ i = Last + 8 \/ i = Last + 9
    BY <1>1
  <2> HIDE DEF P
  <2>2. QED BY <2>1, <1>11, <1>12, <1>13
<1>17. QED BY <1>1, <1>14, <1>15, <1>16

-----------------------------------------------------------------------------
(* The steps without a fault *)

\* Where an operation of the script is made.
LEMMA AtStep ==
  ASSUME DemoTypes, InScript, NEW op, At(op)
  PROVE  /\ demo.step \in Where(op) /\ main.pc = "idle"
         /\ clock >= demo.wake /\ Program[demo.step].op = op
<1>1. demo.step \in 1 .. Len(Script) BY AtOnce, StepTypes DEF InScript
<1>2. Program[demo.step].op = op BY DEF At
<1>3. QED BY <1>1, <1>2, AtOnce, OpAt

\* The numbers of the script.
LEMMA Numbers ==
  /\ Len(Script) = Last + 9 /\ Last \in Nat /\ Last >= 27
  /\ SampleInterval \in Nat /\ ServicePause \in Nat /\ Patience \in Nat
  /\ BrokerPatience \in Nat /\ StopPatience \in Nat /\ MaxDelay \in Nat
  /\ StartupMax \in Nat /\ MinFanOn \in Nat /\ MinFanOff \in Nat
  /\ StaleTimeout \in Nat /\ FailureLimit \in Nat
  /\ Poll \in Nat /\ Poll > 0 /\ Second \in Nat /\ Second > 0
  /\ MaxRuntime \in Nat /\ MaxRuntime > 0
  /\ FanOnPercent \in Int /\ FanOffPercent \in Int
<1>1. /\ Len(Script) = Last + 9 /\ Last \in Nat /\ Last >= 27 BY Table
<1>2. /\ SampleInterval \in Nat /\ ServicePause \in Nat /\ Patience \in Nat
      /\ BrokerPatience \in Nat /\ StopPatience \in Nat /\ MaxDelay \in Nat
      /\ StartupMax \in Nat /\ Poll \in Nat /\ Poll > 0 /\ Second \in Nat /\ Second > 0
  BY DemoAssumption
<1>3. /\ MinFanOn \in Nat /\ MinFanOff \in Nat
      /\ StaleTimeout \in Nat /\ FailureLimit \in Nat
      /\ MaxRuntime \in Nat /\ MaxRuntime > 0
      /\ FanOnPercent \in Int /\ FanOffPercent \in Int
  BY DeviceAssumption
<1>4. QED BY <1>1, <1>2, <1>3

\* The report has ended well.
ReportEndedWell == ReportReturned(TRUE)

\* What moves the script proper on without a fault.
FineNext ==
  \/ LaunchDemo \/ GoToSleep \/ AssertFound
  \/ SendReading \/ LookAtDevice \/ CheckDemoFresh \/ FinishDemoTick
  \/ ConnectDevice \/ StartObserver \/ StartBroker \/ LookForBroker
  \/ StartService \/ Terminate \/ ServiceStopped \/ ReportEndedWell
  \/ Network \/ BrokerReady \/ ServiceReady \/ ServiceHandles
  \/ ObserverSubscribed \/ DemoTimePasses \/ ServiceExits

\* It was without a fault before, too, and did not fail.
LEMMA FineSteps ==
  ASSUME DemoInv, DemoNext, Fine'
  PROVE  /\ Fine /\ demo.step \in Nat
         /\ InScript' => InScript /\ FineNext /\ demo' # Failed
<1>0. DemoTypes BY DEF DemoInv
<1>1. UNCHANGED machine BY Writers
<1>2. ServiceConfig' = ServiceConfig BY <1>1 DEF ServiceConfig, ServiceEnvironment
<1>3. ~faulty
  BY DEF DemoNext, ScriptStep, WorldStep, LaunchDemo, GoToSleep, AssertFound, TimeOut,
     Succeed, SendReading, LookAtDevice, CheckDemoFresh, FinishDemoTick, ConnectDevice,
     StopDevice, StartObserver, StopObserver, StartBroker, LookForBroker, StopBroker,
     StartService, Terminate, ServiceStopped, Network, BrokerReady, ServiceReady,
     ServiceRefused, ServiceHandles, ObserverSubscribed, DemoTimePasses, CrashService,
     ServiceExits, ReportReturned, worldVars, Fine
<1>4. Fine BY <1>2, <1>3 DEF Fine
<1>5. demo.step \in Nat BY <1>0, StepTypes, ProgramShape
<1>6. ASSUME InScript' PROVE InScript /\ FineNext /\ demo' # Failed
  <2>1. Len(Script) \in Nat /\ Len(Script)' = Len(Script)
    BY ProgramShape, ZenonT(30) DEF Script, UntilFallback, InvalidReadings, Recovery
  <2>2. demo'.step <= Len(Script) /\ demo'.step \in {demo.step, demo.step + 1}
    BY <1>0, <1>6, <2>1, ScriptMoves DEF InScript
  <2>3. InScript BY <1>5, <2>1, <2>2 DEF InScript
  <2>4. demo' # Failed BY <1>0, <2>1, <2>2, Moves
  <2>5. ~(StopDevice \/ StopObserver \/ StopBroker)
    BY <1>0, <2>3, AtStep, WhereIs DEF StopDevice, StopObserver, StopBroker
  <2>6. ~Succeed
    <3>1. SUFFICES ASSUME Succeed PROVE FALSE OBVIOUS
    <3>2. demo.step = Len(Script) BY <1>0, <2>3, <3>1, AtStep, WhereIs, Numbers DEF Succeed
    <3>3. demo'.step = Continued.step BY <1>0, <3>1, Moves DEF Succeed, Record
    <3>4. QED BY <1>0, <2>1, <2>2, <3>2, <3>3, Moves
  <2>7. ~(TimeOut \/ ServiceRefused \/ CrashService \/ ReportReturned(FALSE))
    BY <1>4, <2>4 DEF TimeOut, ServiceRefused, CrashService, ReportReturned, Fine
  <2>9. QED
    BY <2>3, <2>4, <2>5, <2>6, <2>7 DEF DemoNext, ScriptStep, WorldStep, FineNext,
       ReportEndedWell
<1>7. QED BY <1>4, <1>5, <1>6

-----------------------------------------------------------------------------
(* The network thread of the device *)

\* The time of the last reading is a number, and changes with the script and the clock only.
LEMMA SentType ==
  ASSUME DemoTypes, ScriptTypes
  PROVE  Sent \in Int /\ (UNCHANGED <<demo, clock>> => Sent' = Sent)
<1>1. /\ clock \in Int /\ demo.wake \in Int /\ demo.deadline \in Int
  BY DEF DemoTypes, ScriptTypes
<1>2. Sent \in Int
  <2>1. PICK c \in Int, w \in Int, d \in Int :
          clock = c /\ demo.wake = w /\ demo.deadline = d
    BY <1>1
  <2>2. PICK i \in Int, n \in Int, t \in Int, p \in Int, m \in Int :
          /\ SampleInterval = i /\ MinFanOff = n /\ StaleTimeout = t /\ Patience = p
          /\ MaxRuntime = m
    BY Numbers
  <2>3. /\ w - 2 * i \in Int /\ w - n \in Int /\ w - (t + 2 * i) \in Int
        /\ d - p \in Int /\ d - (m + p) \in Int
    OBVIOUS
  <2>4. QED BY <2>1, <2>2, <2>3 DEF Sent
<1>3. UNCHANGED <<demo, clock>> => Sent' = Sent BY DEF Sent
<1>4. QED BY <1>2, <1>3

\* The numbers of a state.
LEMMA Ranges ==
  ASSUME DemoTypes, ScriptTypes
  PROVE  /\ clock \in Nat /\ Sent \in Int /\ MaxDelay \in Nat /\ SampleInterval \in Nat
         /\ Second \in Nat /\ StaleTimeout \in Nat /\ MinFanOff \in Nat
         /\ Last \in Nat /\ Last >= 27
         /\ machine.epoch \in Nat /\ service.rule.lastChangeTime \in Int
         /\ device.mqttIssuedAt \in Int /\ net.issuedAt \in Int
  BY SentType, Numbers DEF DemoTypes, ScriptTypes

\* What an assignment to a field of the device leaves alone.
LEMMA FineOnMessage ==
  ASSUME DemoTimings, DemoTypes, WordInv, ScriptInv, InScript, OnMessage,
         UNCHANGED <<demo, log, worldVars>>
  PROVE  ScriptInv'
<1>1. /\ net'.pc = "received" /\ net'.message = brokerDesired
      /\ net'.issuedAt = AtLeastZero(clock - AtLeastZero(clock - brokerDesired.sentAt))
      /\ inbox # <<>> /\ net.pc = "idle" /\ inbox' = <<>>
      /\ brokerDesired.sentAt \in Int /\ brokerDesired.sentAt <= clock
      /\ telemetry = <<>>
  <2>1. inbox # <<>> /\ inbox = <<brokerDesired>> BY DEF OnMessage, ScriptInv, ScriptTypes
  <2>2. Head(inbox) = brokerDesired /\ Tail(inbox) = <<>> BY <2>1
  <2>3. brokerDesired.sentAt \in Int /\ brokerDesired.sentAt <= clock
    BY LastWordMoves, Numbers DEF WordInv, DemoTypes, LastWord
  <2>4. telemetry = <<>> BY <2>1 DEF ScriptInv, QueueInv
  <2>5. QED BY <2>1, <2>2, <2>3, <2>4 DEF OnMessage, AgeOf, IssuedOnClock
<1>2. /\ net'.issuedAt \in Int /\ net'.issuedAt >= 0 /\ net'.issuedAt <= clock
      /\ net'.issuedAt >= brokerDesired.sentAt
      /\ net'.issuedAt \in {brokerDesired.sentAt, 0}
  BY <1>1 DEF AtLeastZero, DemoTypes
<1>3. UNCHANGED <<device, main, clock, demo, log, broker, service, telemetry, observer,
                  brokerDesired, brokerMode, lastFallback, connected, machine>>
  BY DEF OnMessage, worldVars, brokerVars
<1>4. ScriptInv BY DEF ScriptInv
<1>5. Sent' = Sent /\ Sent \in Int BY <1>3, <1>4, SentType DEF ScriptInv
<1>6. clock \in Int /\ MaxDelay \in Int /\ SampleInterval \in Int /\ Second \in Int
      /\ StaleTimeout \in Int /\ MinFanOff \in Int /\ Last \in Nat /\ Last >= 27
      /\ machine.epoch \in Int /\ device.mqttIssuedAt \in Int
      /\ service.rule.lastChangeTime \in Int
  BY <1>4, Numbers DEF DemoTypes, ScriptInv, ScriptTypes
<1>7. clock <= Sent + 2 * MaxDelay
  <2>1. brokerDesired.queuedAt \in Int BY <1>1, <1>4 DEF ScriptInv, ScriptTypes
  <2>2. /\ brokerDesired.queuedAt <= Sent + MaxDelay
        /\ clock <= brokerDesired.queuedAt + MaxDelay
    BY <1>1, <1>4 DEF ScriptInv, QueueInv
  <2>3. QED BY <2>1, <2>2, <1>5, <1>6
<1>11. ScriptTypes' BY <1>1, <1>2, <1>3, <1>4 DEF ScriptInv, ScriptTypes
<1>12. Times' BY <1>1, <1>2, <1>3, <1>4 DEF ScriptInv, Times, Sent, Busy
<1>13. BrokerInv' BY <1>1, <1>2, <1>3, <1>4 DEF ScriptInv, BrokerInv
<1>14. ServiceInv' BY <1>1, <1>2, <1>3, <1>4 DEF ScriptInv, ServiceInv, Busy
<1>15. QueueInv'
  BY <1>1, <1>2, <1>3, <1>4, <1>5, <1>6, <1>7 DEF ScriptInv, QueueInv, Busy, Clear
<1>16. FreshInv'
  BY <1>1, <1>2, <1>3, <1>4, <1>5, <1>6, <1>7 DEF ScriptInv, FreshInv, Underway, Known,
     Clear, Deciding
<1>17. OffInv' BY <1>1, <1>2, <1>3, <1>4 DEF ScriptInv, OffInv, Says, Reported
<1>18. RiseInv'
  BY <1>1, <1>2, <1>3, <1>4, <1>5, <1>6, <1>7 DEF ScriptInv, RiseInv, Says, Reported, Humid,
     Clear, Busy
<1>19. HoldInv'
  BY <1>1, <1>2, <1>3, <1>4, <1>5, <1>6, <1>7 DEF ScriptInv, HoldInv, Says, Reported
<1>20. FallInv'
  BY <1>1, <1>2, <1>3, <1>4, <1>5, <1>6, <1>7, SMTT(60) DEF ScriptInv, FallInv, FallAnswer,
     Says, Reported, Humid, Clear, Busy, Underway, Known
<1>21. CutoffInv'
  BY <1>1, <1>2, <1>3, <1>4, <1>5, <1>6, <1>7 DEF ScriptInv, CutoffInv, CutoffAnswer, Says,
     Reported, Humid, Clear, Busy, Underway, Known, Stale, Running, Ripe, Deciding
<1>22. StoppedInv'
  BY <1>1, <1>2, <1>3, <1>4 DEF ScriptInv, StoppedInv, Stale, Deciding, Busy
<1>23. RecoveryInv'
  BY <1>1, <1>2, <1>3, <1>4, <1>5, <1>6, <1>7 DEF ScriptInv, RecoveryInv, Reported, Says,
     Stale, Deciding, Underway, Known, Clear
<1>24. LogInv' BY <1>1, <1>2, <1>3, <1>4 DEF ScriptInv, LogInv
<1>25. SeenInv' BY <1>1, <1>2, <1>3, <1>4 DEF ScriptInv, SeenInv, Sent
<1>26. QED
  BY <1>11, <1>12, <1>13, <1>14, <1>15, <1>16, <1>17, <1>18, <1>19, <1>20, <1>21, <1>22,
     <1>23, <1>24, <1>25 DEF ScriptInv

\* The network thread notes that there is a message.
LEMMA FineSetReceived ==
  ASSUME DemoTimings, DemoTypes, ScriptInv, SetReceived, UNCHANGED <<demo, log, worldVars>>
  PROVE  ScriptInv'
<1>1. /\ net.pc = "received"
      /\ net'.pc = "desired" /\ net'.message = net.message
      /\ net'.issuedAt = net.issuedAt
  BY DEF SetReceived, DemoTypes, Record, NetIdle, NoMessage, Never
<1>2. /\ device'.mqttReceived = TRUE
      /\ device'.relayOn = device.relayOn
      /\ device'.lastChangeTime = device.lastChangeTime
      /\ device'.relayOnSince = device.relayOnSince
      /\ device'.hasValidReading = device.hasValidReading
      /\ device'.lastHumidity = device.lastHumidity
      /\ device'.failures = device.failures
      /\ device'.mqttDesiredOn = device.mqttDesiredOn
      /\ device'.mqttIssuedAt = device.mqttIssuedAt
  <2>1. device' = [device EXCEPT !.mqttReceived = TRUE] BY DEF SetReceived
  <2>2. Record(device, DOMAIN NewController) BY DEF DemoTypes
  <2>3. QED BY <2>1, <2>2 DEF Record, NewController
<1>3. UNCHANGED <<inbox, main, clock, demo, log, broker, service, telemetry, observer,
                brokerDesired, brokerMode, lastFallback, connected, machine>>
  BY DEF SetReceived, worldVars, brokerVars
<1>4. ScriptInv BY DEF ScriptInv
<1>5. Sent' = Sent BY <1>3, <1>4, SentType DEF ScriptInv
<1>6. /\ clock \in Int /\ Sent \in Int /\ MaxDelay \in Int /\ SampleInterval \in Int
      /\ Second \in Int /\ StaleTimeout \in Int /\ MinFanOff \in Int
      /\ Last \in Nat /\ Last >= 27
      /\ machine.epoch \in Int /\ service.rule.lastChangeTime \in Int
      /\ device.mqttIssuedAt \in Int /\ net.issuedAt \in Int
  BY <1>4, Ranges DEF ScriptInv
<1>11. ScriptTypes' BY <1>1, <1>2, <1>3, <1>4, <1>5, <1>6 DEF ScriptInv, ScriptTypes
<1>12. Times' BY <1>1, <1>2, <1>3, <1>4, <1>5, <1>6 DEF ScriptInv, Times, Busy
<1>13. BrokerInv' BY <1>1, <1>2, <1>3, <1>4, <1>5, <1>6 DEF ScriptInv, BrokerInv
<1>14. ServiceInv' BY <1>1, <1>2, <1>3, <1>4, <1>5, <1>6 DEF ScriptInv, ServiceInv, Busy
<1>15. QueueInv' BY <1>1, <1>2, <1>3, <1>4, <1>5, <1>6 DEF ScriptInv, QueueInv, Busy, Clear
<1>16. FreshInv'
  BY <1>1, <1>2, <1>3, <1>4, <1>5, <1>6 DEF ScriptInv, FreshInv, Underway, Known, Clear,
     Deciding
<1>17. OffInv' BY <1>1, <1>2, <1>3, <1>4, <1>5, <1>6 DEF ScriptInv, OffInv, Says, Reported
<1>18. RiseInv'
  BY <1>1, <1>2, <1>3, <1>4, <1>5, <1>6 DEF ScriptInv, RiseInv, Says, Reported, Humid,
     Clear, Busy
<1>19. HoldInv' BY <1>1, <1>2, <1>3, <1>4, <1>5, <1>6 DEF ScriptInv, HoldInv, Says, Reported
<1>20. FallInv'
  BY SMTT(60), <1>1, <1>2, <1>3, <1>4, <1>5, <1>6 DEF ScriptInv, FallInv, FallAnswer, Says,
     Reported, Humid, Clear, Busy, Underway, Known
<1>21. CutoffInv'
  BY SMTT(60), <1>1, <1>2, <1>3, <1>4, <1>5, <1>6 DEF ScriptInv, CutoffInv, CutoffAnswer,
     Says, Reported, Humid, Clear, Busy, Underway, Known, Stale, Running, Ripe,
     Deciding, QueueInv
<1>22. StoppedInv'
  BY <1>1, <1>2, <1>3, <1>4, <1>5, <1>6 DEF ScriptInv, StoppedInv, Stale, Deciding, Busy,
     QueueInv, Clear
<1>23. RecoveryInv'
  BY SMTT(60), <1>1, <1>2, <1>3, <1>4, <1>5, <1>6 DEF ScriptInv, RecoveryInv, Reported,
     Says, Stale, Deciding, Underway, Known, Clear
<1>24. LogInv' BY <1>1, <1>2, <1>3, <1>4, <1>5, <1>6 DEF ScriptInv, LogInv
<1>25. SeenInv' BY <1>1, <1>2, <1>3, <1>4, <1>5, <1>6 DEF ScriptInv, SeenInv
<1>26. QED BY <1>11, <1>12, <1>13, <1>14, <1>15, <1>16, <1>17, <1>18, <1>19, <1>20,
   <1>21, <1>22, <1>23, <1>24, <1>25 DEF ScriptInv

\* What it says.
LEMMA FineSetDesired ==
  ASSUME DemoTimings, DemoTypes, ScriptInv, SetDesired, UNCHANGED <<demo, log, worldVars>>
  PROVE  ScriptInv'
<1>1. /\ net.pc = "desired"
      /\ net'.pc = "issued" /\ net'.message = net.message
      /\ net'.issuedAt = net.issuedAt
  BY DEF SetDesired, DemoTypes, Record, NetIdle, NoMessage, Never
<1>2. /\ device'.mqttDesiredOn = net.message.on
      /\ device'.relayOn = device.relayOn
      /\ device'.lastChangeTime = device.lastChangeTime
      /\ device'.relayOnSince = device.relayOnSince
      /\ device'.hasValidReading = device.hasValidReading
      /\ device'.lastHumidity = device.lastHumidity
      /\ device'.failures = device.failures
      /\ device'.mqttReceived = device.mqttReceived
      /\ device'.mqttIssuedAt = device.mqttIssuedAt
  <2>1. device' = [device EXCEPT !.mqttDesiredOn = net.message.on] BY DEF SetDesired
  <2>2. Record(device, DOMAIN NewController) BY DEF DemoTypes
  <2>3. QED BY <2>1, <2>2 DEF Record, NewController
<1>3. UNCHANGED <<inbox, main, clock, demo, log, broker, service, telemetry, observer,
                brokerDesired, brokerMode, lastFallback, connected, machine>>
  BY DEF SetDesired, worldVars, brokerVars
<1>4. ScriptInv BY DEF ScriptInv
<1>5. Sent' = Sent BY <1>3, <1>4, SentType DEF ScriptInv
<1>6. /\ clock \in Int /\ Sent \in Int /\ MaxDelay \in Int /\ SampleInterval \in Int
      /\ Second \in Int /\ StaleTimeout \in Int /\ MinFanOff \in Int
      /\ Last \in Nat /\ Last >= 27
      /\ machine.epoch \in Int /\ service.rule.lastChangeTime \in Int
      /\ device.mqttIssuedAt \in Int /\ net.issuedAt \in Int
  BY <1>4, Ranges DEF ScriptInv
<1>11. ScriptTypes' BY <1>1, <1>2, <1>3, <1>4, <1>5, <1>6 DEF ScriptInv, ScriptTypes
<1>12. Times' BY <1>1, <1>2, <1>3, <1>4, <1>5, <1>6 DEF ScriptInv, Times, Busy
<1>13. BrokerInv' BY <1>1, <1>2, <1>3, <1>4, <1>5, <1>6 DEF ScriptInv, BrokerInv
<1>14. ServiceInv' BY <1>1, <1>2, <1>3, <1>4, <1>5, <1>6 DEF ScriptInv, ServiceInv, Busy
<1>15. QueueInv' BY <1>1, <1>2, <1>3, <1>4, <1>5, <1>6 DEF ScriptInv, QueueInv, Busy, Clear
<1>16. FreshInv'
  BY <1>1, <1>2, <1>3, <1>4, <1>5, <1>6 DEF ScriptInv, FreshInv, Underway, Known, Clear,
     Deciding
<1>17. OffInv' BY <1>1, <1>2, <1>3, <1>4, <1>5, <1>6 DEF ScriptInv, OffInv, Says, Reported
<1>18. RiseInv'
  BY <1>1, <1>2, <1>3, <1>4, <1>5, <1>6 DEF ScriptInv, RiseInv, Says, Reported, Humid,
     Clear, Busy
<1>19. HoldInv' BY <1>1, <1>2, <1>3, <1>4, <1>5, <1>6 DEF ScriptInv, HoldInv, Says, Reported
<1>20. FallInv'
  BY SMTT(60), <1>1, <1>2, <1>3, <1>4, <1>5, <1>6 DEF ScriptInv, FallInv, FallAnswer, Says,
     Reported, Humid, Clear, Busy, Underway, Known
<1>21. CutoffInv'
  BY SMTT(60), <1>1, <1>2, <1>3, <1>4, <1>5, <1>6 DEF ScriptInv, CutoffInv, CutoffAnswer,
     Says, Reported, Humid, Clear, Busy, Underway, Known, Stale, Running, Ripe,
     Deciding, QueueInv
<1>22. StoppedInv'
  BY <1>1, <1>2, <1>3, <1>4, <1>5, <1>6 DEF ScriptInv, StoppedInv, Stale, Deciding, Busy,
     QueueInv, Clear
<1>23. RecoveryInv'
  BY SMTT(60), <1>1, <1>2, <1>3, <1>4, <1>5, <1>6 DEF ScriptInv, RecoveryInv, Reported,
     Says, Stale, Deciding, Underway, Known, Clear
<1>24. LogInv' BY <1>1, <1>2, <1>3, <1>4, <1>5, <1>6 DEF ScriptInv, LogInv
<1>25. SeenInv' BY <1>1, <1>2, <1>3, <1>4, <1>5, <1>6 DEF ScriptInv, SeenInv
<1>26. QED BY <1>11, <1>12, <1>13, <1>14, <1>15, <1>16, <1>17, <1>18, <1>19, <1>20,
   <1>21, <1>22, <1>23, <1>24, <1>25 DEF ScriptInv

\* When it was issued.
LEMMA FineSetIssuedAt ==
  ASSUME DemoTimings, DemoTypes, ScriptInv, SetIssuedAt, UNCHANGED <<demo, log, worldVars>>
  PROVE  ScriptInv'
<1>1. /\ net.pc = "issued"
      /\ net'.pc = "idle" /\ net'.message.on = FALSE
      /\ net'.issuedAt = -1
  BY DEF SetIssuedAt, DemoTypes, Record, NetIdle, NoMessage, Never
<1>2. /\ device'.mqttIssuedAt = net.issuedAt
      /\ device'.relayOn = device.relayOn
      /\ device'.lastChangeTime = device.lastChangeTime
      /\ device'.relayOnSince = device.relayOnSince
      /\ device'.hasValidReading = device.hasValidReading
      /\ device'.lastHumidity = device.lastHumidity
      /\ device'.failures = device.failures
      /\ device'.mqttReceived = device.mqttReceived
      /\ device'.mqttDesiredOn = device.mqttDesiredOn
  <2>1. device' = [device EXCEPT !.mqttIssuedAt = net.issuedAt] BY DEF SetIssuedAt
  <2>2. Record(device, DOMAIN NewController) BY DEF DemoTypes
  <2>3. QED BY <2>1, <2>2 DEF Record, NewController
<1>3. UNCHANGED <<inbox, main, clock, demo, log, broker, service, telemetry, observer,
                brokerDesired, brokerMode, lastFallback, connected, machine>>
  BY DEF SetIssuedAt, worldVars, brokerVars
<1>4. ScriptInv BY DEF ScriptInv
<1>5. Sent' = Sent BY <1>3, <1>4, SentType DEF ScriptInv
<1>6. /\ clock \in Int /\ Sent \in Int /\ MaxDelay \in Int /\ SampleInterval \in Int
      /\ Second \in Int /\ StaleTimeout \in Int /\ MinFanOff \in Int
      /\ Last \in Nat /\ Last >= 27
      /\ machine.epoch \in Int /\ service.rule.lastChangeTime \in Int
      /\ device.mqttIssuedAt \in Int /\ net.issuedAt \in Int
  BY <1>4, Ranges DEF ScriptInv
<1>11. ScriptTypes' BY <1>1, <1>2, <1>3, <1>4, <1>5, <1>6 DEF ScriptInv, ScriptTypes
<1>12. Times' BY <1>1, <1>2, <1>3, <1>4, <1>5, <1>6 DEF ScriptInv, Times, Busy
<1>13. BrokerInv' BY <1>1, <1>2, <1>3, <1>4, <1>5, <1>6 DEF ScriptInv, BrokerInv
<1>14. ServiceInv' BY <1>1, <1>2, <1>3, <1>4, <1>5, <1>6 DEF ScriptInv, ServiceInv, Busy
<1>15. QueueInv' BY <1>1, <1>2, <1>3, <1>4, <1>5, <1>6 DEF ScriptInv, QueueInv, Busy, Clear
<1>16. FreshInv'
  BY <1>1, <1>2, <1>3, <1>4, <1>5, <1>6 DEF ScriptInv, FreshInv, Underway, Known, Clear,
     Deciding
<1>17. OffInv' BY <1>1, <1>2, <1>3, <1>4, <1>5, <1>6 DEF ScriptInv, OffInv, Says, Reported
<1>18. RiseInv'
  BY <1>1, <1>2, <1>3, <1>4, <1>5, <1>6 DEF ScriptInv, RiseInv, Says, Reported, Humid,
     Clear, Busy
<1>19. HoldInv' BY <1>1, <1>2, <1>3, <1>4, <1>5, <1>6 DEF ScriptInv, HoldInv, Says, Reported
<1>20. FallInv'
  BY SMTT(60), <1>1, <1>2, <1>3, <1>4, <1>5, <1>6 DEF ScriptInv, FallInv, FallAnswer, Says,
     Reported, Humid, Clear, Busy, Underway, Known
<1>21. CutoffInv'
  <2>1. /\ Ripe' = Ripe /\ Deciding' = Deciding /\ Running' = Running /\ Busy' = Busy
        /\ \A h : Humid(h)' = Humid(h) /\ Reported(h)' = Reported(h)
    BY <1>2, <1>3 DEF Ripe, Deciding, Running, Busy, Humid, Reported
  <2>2. ASSUME CutoffAnswer PROVE CutoffAnswer'
    <3>1. /\ telemetry = <<>> /\ inbox = <<>> /\ ~Clear /\ net.issuedAt >= 0
          /\ device.mqttDesiredOn = service.rule.relayOn
          /\ ~service.rule.relayOn => ~device.mqttDesiredOn /\ ~Running
      BY <1>1, <2>2 DEF CutoffAnswer, Clear
    <3>2. Known(0)' BY <1>2, <1>6, <2>2, <3>1 DEF CutoffAnswer, Known
    <3>3. /\ device.relayOn /\ Deciding /\ main.fresh => device.mqttDesiredOn
          /\ Humid(85) /\ Reported(85)
      BY <2>2 DEF CutoffAnswer
    <3>4. Clear' /\ \A on : Says(on)' BY <1>1, <1>3, <3>1 DEF Clear, Says
    <3>5. device.mqttDesiredOn \in BOOLEAN /\ service.rule.relayOn \in BOOLEAN
      BY <1>4 DEF ScriptInv, ScriptTypes
    <3>6. QED
      BY <1>1, <1>2, <1>3, <2>1, <3>1, <3>2, <3>3, <3>4, <3>5 DEF CutoffAnswer
  <2>3. demo.step = 20 => ~Busy /\ ~Deciding
    BY <1>1, <1>4 DEF ScriptInv, QueueInv, Clear, Busy, Deciding
  <2>4. demo.step = 21 =>
          /\ net.issuedAt <= Sent + MaxDelay /\ net'.issuedAt <= Sent + MaxDelay
    BY <1>1, <1>4, <1>6 DEF ScriptInv, CutoffInv, Times, CutoffAnswer
  <2>5. QED
    BY <1>2, <1>3, <1>4, <1>5, <2>1, <2>2, <2>3, <2>4, SMTT(30) DEF ScriptInv, CutoffInv
<1>22. StoppedInv'
  BY <1>1, <1>2, <1>3, <1>4, <1>5, <1>6 DEF ScriptInv, StoppedInv, Stale, Deciding, Busy,
     QueueInv, Clear
<1>23. RecoveryInv'
  BY SMTT(60), <1>1, <1>2, <1>3, <1>4, <1>5, <1>6 DEF ScriptInv, RecoveryInv, Reported,
     Says, Stale, Deciding, Underway, Known, Clear
<1>24. LogInv' BY <1>1, <1>2, <1>3, <1>4, <1>5, <1>6 DEF ScriptInv, LogInv
<1>25. SeenInv' BY <1>1, <1>2, <1>3, <1>4, <1>5, <1>6 DEF ScriptInv, SeenInv
<1>26. QED BY <1>11, <1>12, <1>13, <1>14, <1>15, <1>16, <1>17, <1>18, <1>19, <1>20,
   <1>21, <1>22, <1>23, <1>24, <1>25 DEF ScriptInv

-----------------------------------------------------------------------------
(* The processes around the script *)

\* What only a step of the script, of the device or of time changes.
LEMMA Kept ==
  ASSUME ScriptInv,
         UNCHANGED <<device, main, net, inbox, brokerDesired, clock, demo, telemetry,
                     machine>>,
         service'.rule = service.rule
  PROVE  /\ Times' /\ QueueInv' /\ FreshInv' /\ OffInv' /\ RiseInv' /\ HoldInv'
         /\ FallInv' /\ CutoffInv' /\ RecoveryInv'
<1>1. /\ Sent' = Sent /\ Busy' = Busy /\ Deciding' = Deciding /\ Clear' = Clear
      /\ Stale' = Stale
  BY DEF Sent, Busy, Deciding, Clear, Stale
<1>2. /\ \A t : Underway(t)' = Underway(t) /\ Known(t)' = Known(t)
      /\ \A on : Says(on)' = Says(on)
      /\ \A h : Reported(h)' = Reported(h) /\ Humid(h)' = Humid(h)
  BY DEF Underway, Known, Says, Reported, Humid
<1>3. Times' /\ QueueInv' BY <1>1 DEF ScriptInv, Times, QueueInv
<1>9. FreshInv' /\ OffInv' BY <1>1, <1>2 DEF ScriptInv, FreshInv, OffInv
<1>4. RiseInv' /\ HoldInv' BY <1>1, <1>2 DEF ScriptInv, RiseInv, HoldInv
<1>5. FallInv' BY <1>1, <1>2 DEF ScriptInv, FallInv, FallAnswer
<1>6. CutoffInv' BY <1>1, <1>2 DEF ScriptInv, CutoffInv, CutoffAnswer, Running, Ripe
<1>7. RecoveryInv' BY <1>1, <1>2 DEF ScriptInv, RecoveryInv
<1>8. QED BY <1>3, <1>4, <1>5, <1>6, <1>7, <1>9

\* The world around the script: processes that start or end, in no time.
LEMMA FineWorld ==
  ASSUME DemoTypes, ScriptInv, InScript,
         BrokerReady \/ ServiceReady \/ ServiceExits \/ ObserverSubscribed
  PROVE  ScriptInv'
<1>1. UNCHANGED <<device, main, net, inbox, brokerDesired, clock, demo, telemetry, machine,
                  connected, lastFallback, brokerActual, brokerMode>>
  BY DEF BrokerReady, ServiceReady, ServiceExits, ObserverSubscribed, simVars, brokerVars
<1>2. Record(service, {"state", "since", "rule"}) BY DEF DemoTypes
<1>3. /\ service'.rule = service.rule
      /\ \/ UNCHANGED service
         \/ /\ service.state = "starting" /\ service'.state = "up"
         \/ /\ service.state = "stopping" /\ service'.state = "dead"
  BY <1>2 DEF BrokerReady, ServiceReady, ServiceExits, ObserverSubscribed, Died, Record
<1>4. /\ Times' /\ QueueInv' /\ FreshInv' /\ OffInv' /\ RiseInv' /\ HoldInv'
      /\ FallInv' /\ CutoffInv' /\ RecoveryInv'
  BY <1>1, <1>3, Kept
<1>5. Last \in Nat /\ Last >= 27 /\ demo.step \in Nat /\ demo.step <= Last + 9
  BY Numbers, StepTypes, ProgramShape DEF InScript
<1>6. ScriptInv BY DEF ScriptInv
<1>7. BrokerInv'
  <2>1. UNCHANGED broker \/ broker' = "ready"
    BY DEF BrokerReady, ServiceReady, ServiceExits, ObserverSubscribed
  <2>2. QED BY <1>1, <1>6, <2>1 DEF ScriptInv, BrokerInv
<1>8. ServiceInv'
  <2>1. ServiceInv /\ Busy' = Busy BY <1>1, <1>6 DEF ScriptInv, Busy
  <2>2. CASE UNCHANGED service BY <1>1, <2>1, <2>2 DEF ServiceInv
  <2>3. CASE service.state = "starting" /\ service'.state = "up"
    <3>1. /\ ~(demo.step \in 0 .. 3) /\ demo.step # 24 /\ ~(demo.step \in 25 .. Last + 2)
      BY <2>1, <2>3 DEF ServiceInv, NoService
    <3>2. QED BY <1>1, <1>3, <2>1, <2>3, <3>1 DEF ServiceInv
  <2>4. CASE service.state = "stopping" /\ service'.state = "dead"
    <3>1. demo.step \notin 0 .. 3 BY <2>1, <2>4 DEF ServiceInv, NoService
    <3>6. demo.step # 4 BY <2>1, <2>4 DEF ServiceInv
    <3>7. ~(demo.step = 5 /\ ~Busy) BY <2>1, <2>4 DEF ServiceInv
    <3>2. demo.step # Last + 3 BY <1>5, <2>1, <2>4 DEF ServiceInv
    <3>5. demo.step # Last + 4 BY <1>5, <2>1, <2>4 DEF ServiceInv
    <3>3. ~(demo.step \in 6 .. 23 \cup Last + 5 .. Last + 9) BY <2>1, <2>4 DEF ServiceInv
    <3>4. QED
      BY <1>1, <1>3, <1>5, <2>1, <2>4, <3>1, <3>2, <3>3, <3>5, <3>6, <3>7 DEF ServiceInv
  <2>5. QED BY <1>3, <2>2, <2>3, <2>4
<1>9. StoppedInv'
  <2>1. demo.step = 26 => UNCHANGED service BY <1>3, <1>5, <1>6 DEF ScriptInv, ServiceInv
  <2>2. QED BY <1>1, <1>6, <2>1 DEF ScriptInv, StoppedInv, Busy, Deciding, Stale
<1>10. /\ UNCHANGED log \/ \E x : log' = [log EXCEPT !.seen = @ \cup x]
       /\ UNCHANGED observer \/ (observer = "connecting" /\ observer' = "on")
  BY DEF BrokerReady, ServiceReady, ServiceExits, ObserverSubscribed
<1>11. /\ Record(log', DOMAIN EmptyLog)
       /\ log'.on = log.on /\ log'.reason = log.reason /\ log'.lastReason = log.lastReason
       /\ log'.lastOnAt = log.lastOnAt /\ log.seen \subseteq log'.seen
  <2>1. Record(log, DOMAIN EmptyLog) BY DEF ScriptInv, ScriptTypes
  <2>2. QED BY <1>10, <2>1 DEF Record, EmptyLog
<1>12. ScriptTypes' BY <1>1, <1>3, <1>6, <1>11 DEF ScriptInv, ScriptTypes
<1>13. LogInv' BY <1>1, <1>6, <1>11 DEF ScriptInv, LogInv
<1>14. SeenInv' BY <1>1, <1>6, <1>10, <1>11 DEF ScriptInv, SeenInv, Sent
<1>15. QED BY <1>4, <1>7, <1>8, <1>9, <1>12, <1>13, <1>14 DEF ScriptInv

-----------------------------------------------------------------------------
(* The sleeps and the other operations of the script *)

\* What a step of the script alone leaves alone.
LEMMA Alone ==
  ASSUME UNCHANGED <<simVars, log, worldVars>>
  PROVE  UNCHANGED <<device, main, net, inbox, brokerDesired, clock, telemetry, machine,
                     connected, lastFallback, brokerActual, brokerMode, log, broker,
                     service, observer, faulty>>
  BY DEF simVars, worldVars, brokerVars

\* An odd number is no double.
LEMMA Parity ==
  ASSUME NEW i \in Int, i % 2 # 0
  PROVE  /\ \A f \in Int : i <= 2 * f + 28 => i + 1 <= 2 * f + 28
         /\ \A f \in Int : i + 1 # 27 + 2 * f
<1>1. PICK k \in Int : i = 2 * k + 1
  <2>1. i = 2 * (i \div 2) + (i % 2) /\ i % 2 \in 0 .. 1 /\ i \div 2 \in Int OBVIOUS
  <2>2. QED BY <2>1
<1>2. QED BY <1>1

\* A sleep begins.
LEMMA FineSleep ==
  ASSUME DemoTimings, DemoTypes, WordInv, ScriptInv, InScript, GoToSleep
  PROVE  ScriptInv'
<1>1. At("sleep") /\ demo' = [Continued EXCEPT !.wake = clock + Current.time]
  BY DEF GoToSleep
<1>2. /\ demo.step \in {4, 8, 14, 16, 19, 25, Last + 3} \cup InvalidSleeps
      /\ main.pc = "idle" /\ clock >= demo.wake
  BY <1>1, AtStep, WhereIs
<1>3. /\ demo'.step = demo.step + 1 /\ demo'.deadline = Never
      /\ demo'.wake = clock + Current.time
  BY <1>1 DEF Continued, DemoTypes, Record
<1>4. /\ demo.step \in {4, Last + 3} => Current.time = ServicePause
      /\ demo.step \in {8, 14} => Current.time = 2 * SampleInterval
      /\ demo.step = 16 => Current.time = MinFanOn
      /\ demo.step = 19 => Current.time = MinFanOff
      /\ demo.step = 25 => Current.time = StaleTimeout + 2 * SampleInterval
  BY FirstPart, LastPart DEF Current, Sleep
<1>5. demo.step \in InvalidSleeps => Current.time = SampleInterval
  <2>1. ASSUME demo.step \in InvalidSleeps PROVE Program[demo.step] = Sleep(SampleInterval)
    BY <2>1, Table DEF InvalidSleeps
  <2>2. QED BY <2>1 DEF Current, Sleep
<1>6. UNCHANGED <<device, main, net, inbox, brokerDesired, clock, telemetry, machine,
                  connected, lastFallback, brokerMode, log, broker, service, observer>>
  BY Alone DEF GoToSleep
<1>7. demo.step \in Nat /\ (demo.step \in InvalidSleeps => demo.step \in 28 .. Last)
  BY StepTypes, ProgramShape DEF InvalidSleeps
<1>8. ScriptInv BY DEF ScriptInv
<1>9. /\ clock \in Nat
      /\ MinFanOn \in Nat /\ MinFanOff \in Nat /\ ServicePause \in Nat
      /\ SampleInterval \in Nat /\ StaleTimeout \in Nat /\ Second \in Nat
      /\ Last \in Nat /\ Last >= 27 /\ MaxDelay \in Nat
  BY Numbers DEF DemoTypes
<1>a. PICK k \in Nat : demo.step = k BY <1>7
<1>b. /\ \/ k = 4 \/ k = 8 \/ k = 14 \/ k = 16 \/ k = 19 \/ k = 25 \/ k = Last + 3
         \/ (k >= 28 /\ k <= Last)
      /\ demo'.step = k + 1
  BY <1>2, <1>3, <1>7, <1>9, <1>a
<1>c. PICK w \in Nat : demo'.wake = w /\ Current.time \in Nat
  <2>1. Current.time \in Nat BY <1>2, <1>4, <1>5, <1>9
  <2>2. clock + Current.time \in Nat BY <2>1, <1>9
  <2>3. QED BY <2>1, <2>2, <1>3
<1>10. Sent = clock
  BY <1>a, <1>b, <1>9 DEF Sent
<1>11. Sent' = clock
  BY <1>3, <1>4, <1>6, <1>9, <1>a, <1>b, <1>c DEF Sent, Never
<1>12. w >= clock /\ demo'.wake = w BY <1>c, <1>3, <1>9
<1>13. /\ k = 4 \/ k = Last + 3 => w = clock + ServicePause
       /\ k = 8 \/ k = 14 => w = clock + 2 * SampleInterval
       /\ k = 16 => w = clock + MinFanOn
       /\ k = 19 => w = clock + MinFanOff
       /\ k = 25 => w = clock + StaleTimeout + 2 * SampleInterval
  BY <1>3, <1>4, <1>9, <1>a, <1>c
<1>14. /\ service.since \in Nat /\ service.since <= clock /\ StartupMax \in Nat
       /\ machine.epoch \in Nat
       /\ device.lastChangeTime \in Int /\ device.relayOnSince \in Int
       /\ service.rule.lastChangeTime \in Int /\ service.rule.relayOnSince \in Int
       /\ device.failures \in Nat /\ log.lastOnAt \in Int
  BY <1>8, Numbers DEF WordInv, DemoTypes, ScriptInv, ScriptTypes
<1>15. ASSUME k >= 28, k <= Last
       PROVE  /\ k + 1 # Last
              /\ k <= 2 * device.failures + 28 => k + 1 <= 2 * device.failures + 28
  <2>1. k \in InvalidSleeps BY <1>2, <1>9, <1>15, <1>a
  <2>2. k % 2 # 0 BY <2>1 DEF InvalidSleeps
  <2>3. k \in Int /\ device.failures \in Int /\ FailureLimit \in Int BY <1>14, Numbers
  <2>4. k + 1 # 27 + 2 * FailureLimit BY <2>2, <2>3, Parity
  <2>5. k <= 2 * device.failures + 28 => k + 1 <= 2 * device.failures + 28
    BY <2>2, <2>3, Parity
  <2>6. QED BY <2>4, <2>5 DEF Last
<1>21. ScriptTypes'
  BY <1>2, <1>3, <1>6, <1>8, <1>9, <1>10, <1>11, <1>12, <1>13, <1>a, <1>b DEF ScriptInv,
     ScriptTypes, Never
<1>22. Times'
  BY <1>2, <1>3, <1>6, <1>8, <1>9, <1>10, <1>11, <1>12, <1>13, <1>a, <1>b DEF ScriptInv,
     Times, Busy
<1>23. BrokerInv'
  BY <1>2, <1>3, <1>6, <1>8, <1>9, <1>10, <1>11, <1>12, <1>13, <1>a, <1>b DEF ScriptInv,
     BrokerInv
<1>24. ServiceInv'
  <2>1. /\ k \in {8, 14, 16, 19} => service.state = "up"
        /\ k = 25 \/ (k >= 28 /\ k <= Last) => service.state = "dead"
    BY <1>8, <1>9, <1>a DEF ScriptInv, ServiceInv
  <2>2. ASSUME k = 4 \/ k = Last + 3
        PROVE  /\ service.state \in {"starting", "up"}
               /\ service.state = "starting" => service.since = clock
               /\ service.rule = R!NewRule
    BY <2>2, <1>8, <1>9, <1>a DEF ScriptInv, ServiceInv
  <2>3. QED
    <3>1. ~Busy' /\ service' = service /\ clock' = clock BY <1>2, <1>6 DEF Busy
    <3>2. QED
      BY <1>9, <1>12, <1>13, <1>14, <1>b, <2>1, <2>2, <3>1, SMTT(40) DEF ServiceInv
<1>25. QueueInv'
  BY <1>2, <1>3, <1>6, <1>8, <1>9, <1>10, <1>11, <1>12, <1>13, <1>a, <1>b DEF ScriptInv,
     QueueInv, Busy, Clear
<1>26. FreshInv'
  BY <1>2, <1>3, <1>6, <1>8, <1>9, <1>10, <1>11, <1>12, <1>13, <1>a, <1>b DEF ScriptInv,
     FreshInv, Underway, Known, Clear, Deciding
<1>27. OffInv'
  BY <1>2, <1>3, <1>6, <1>8, <1>9, <1>10, <1>11, <1>12, <1>13, <1>a, <1>b DEF ScriptInv,
     OffInv, Says, Reported
<1>28. RiseInv'
  BY <1>2, <1>3, <1>6, <1>8, <1>9, <1>10, <1>11, <1>12, <1>13, <1>a, <1>b DEF ScriptInv,
     RiseInv, Says, Reported, Humid, Clear, Busy
<1>29. HoldInv'
  BY <1>2, <1>3, <1>6, <1>8, <1>9, <1>10, <1>11, <1>12, <1>13, <1>a, <1>b DEF ScriptInv,
     HoldInv, Says, Reported
<1>30. FallInv'
  <2>1. k + 1 # 18 /\ k + 1 # 19 /\ (k + 1 = 17 => k = 16) /\ (k + 1 = 20 => k = 19)
    BY <1>9, <1>b
  <2>2. FallAnswer' = FallAnswer
    BY <1>6 DEF FallAnswer, Reported, Says, Underway, Known, Clear
  <2>3. k = 16 =>
          /\ device.lastChangeTime + MinFanOn <= w
          /\ service.rule.lastChangeTime + MinFanOn <= machine.epoch + w
    BY <1>8, <1>9, <1>13, <1>14, <1>a DEF ScriptInv, HoldInv
  <2>4. k = 19 =>
          FallAnswer /\ ~device.relayOn /\ device.lastChangeTime + MinFanOff <= w
    BY <1>8, <1>9, <1>13, <1>14, <1>a DEF ScriptInv, FallInv
  <2>5. ~Busy' BY <1>2, <1>6 DEF Busy
  <2>6. k + 1 \in 18 .. 20 => k + 1 = 20 BY <1>9, <2>1
  <2>7. QED BY <1>6, <1>12, <1>b, <2>1, <2>2, <2>3, <2>4, <2>5, <2>6 DEF FallInv
<1>31. CutoffInv'
  BY <1>2, <1>3, <1>6, <1>8, <1>9, <1>10, <1>11, <1>12, <1>13, <1>a, <1>b DEF ScriptInv,
     CutoffInv, CutoffAnswer, Says, Reported, Humid, Clear, Busy, Underway, Known,
     Stale, Running, Ripe, Deciding
<1>32. StoppedInv'
  BY <1>2, <1>3, <1>6, <1>8, <1>9, <1>10, <1>11, <1>12, <1>13, <1>a, <1>b, <1>14, <1>15
     DEF ScriptInv, StoppedInv, Stale, Deciding, Busy
<1>33. RecoveryInv'
  BY <1>2, <1>3, <1>6, <1>8, <1>9, <1>10, <1>11, <1>12, <1>13, <1>a, <1>b DEF ScriptInv,
     RecoveryInv, Reported, Says, Stale, Deciding, Underway, Known, Clear
<1>34. LogInv'
  BY <1>2, <1>3, <1>6, <1>8, <1>9, <1>10, <1>11, <1>12, <1>13, <1>a, <1>b, <1>14, <1>15
     DEF ScriptInv, LogInv
<1>35. SeenInv'
  BY <1>2, <1>3, <1>6, <1>8, <1>9, <1>10, <1>11, <1>12, <1>13, <1>a, <1>b DEF ScriptInv,
     SeenInv
<1>36. QED BY <1>21, <1>22, <1>23, <1>24, <1>25, <1>26, <1>27, <1>28, <1>29, <1>30,
   <1>31, <1>32, <1>33, <1>34, <1>35 DEF ScriptInv

\* The script goes on from an operation that is not a tick, and that no time has passed in.
LEMMA FineMove ==
  ASSUME DemoTimings, DemoTypes, ScriptInv, NEW k \in Nat, demo.step = k, main.pc = "idle",
         clock >= demo.wake,
         \/ k \in {0, 1, 2, 3, 5, 6, 23, 24}
         \/ k \in {Last + 1, Last + 2, Last + 6, Last + 7, Last + 8},
         demo'.step = k + 1, demo'.wake = demo.wake,
         demo'.deadline = Never \/ (k = 0 /\ demo'.deadline = demo.deadline),
         k = 24 => telemetry = <<>>,
         UNCHANGED <<device, main, net, inbox, brokerDesired, clock, telemetry, machine,
                     lastFallback, brokerMode, log>>,
         \/ service'.rule = service.rule
         \/ service'.rule = R!NewRule
  PROVE  /\ ScriptTypes' /\ Times' /\ QueueInv' /\ FreshInv' /\ OffInv' /\ RiseInv'
         /\ HoldInv' /\ FallInv' /\ CutoffInv' /\ StoppedInv' /\ RecoveryInv' /\ LogInv'
<1>1. ScriptInv BY DEF ScriptInv
<1>2. /\ clock \in Nat /\ demo.wake \in Nat
      /\ MinFanOn \in Nat /\ MinFanOff \in Nat /\ ServicePause \in Nat
      /\ SampleInterval \in Nat /\ StaleTimeout \in Nat /\ Second \in Nat
      /\ Last \in Nat /\ Last >= 27 /\ MaxDelay \in Nat /\ log.lastOnAt \in Int
      /\ device.failures \in Nat
  BY <1>1, Numbers DEF DemoTypes, ScriptInv, ScriptTypes
<1>7. \/ k <= 3 \/ k = 5 \/ k = 6 \/ k = 23 \/ k = 24
      \/ k = Last + 1 \/ k = Last + 2 \/ k = Last + 6 \/ k = Last + 7 \/ k = Last + 8
  OBVIOUS
<1>3. Sent = clock BY <1>2, <1>7 DEF Sent
<1>4. Sent' = clock BY <1>2, <1>7 DEF Sent, Never
<1>5. /\ Record(R!NewRule, DOMAIN R!NewRule) /\ ~R!NewRule.relayOn
      /\ R!NewRule.relayOn \in BOOLEAN
      /\ R!NewRule.lastChangeTime = 0 /\ R!NewRule.relayOnSince = -1
  BY DEF R!NewRule, Record, R!Never
<1>6. demo'.deadline \in Int BY <1>1 DEF ScriptInv, ScriptTypes, Never
<1>11. ScriptTypes'
  BY <1>1, <1>2, <1>3, <1>4, <1>5, <1>6, <1>7, SMTT(40) DEF ScriptInv, ScriptTypes
<1>12. Times' BY <1>1, <1>2, <1>4, <1>7, SMTT(40) DEF ScriptInv, Times, Busy
<1>13. QueueInv'
  BY <1>1, <1>2, <1>3, <1>4, <1>5, <1>6, <1>7, SMTT(40) DEF ScriptInv, QueueInv, Busy, Clear
<1>14. FreshInv'
  BY <1>1, <1>2, <1>3, <1>4, <1>5, <1>6, <1>7, SMTT(40) DEF ScriptInv, FreshInv, Underway,
     Known, Clear, Deciding
<1>15. OffInv'
  BY <1>1, <1>2, <1>3, <1>4, <1>5, <1>6, <1>7, SMTT(40) DEF ScriptInv, OffInv, Says,
     Reported
<1>16. RiseInv'
  BY <1>1, <1>2, <1>3, <1>4, <1>5, <1>6, <1>7, SMTT(40) DEF ScriptInv, RiseInv, Says,
     Reported, Humid, Clear, Busy
<1>17. HoldInv'
  BY <1>1, <1>2, <1>3, <1>4, <1>5, <1>6, <1>7, SMTT(40) DEF ScriptInv, HoldInv, Says,
     Reported
<1>18. FallInv'
  BY <1>1, <1>2, <1>3, <1>4, <1>5, <1>6, <1>7, SMTT(40) DEF ScriptInv, FallInv, FallAnswer,
     Says, Reported, Humid, Clear, Busy, Underway, Known
<1>19. CutoffInv'
  BY <1>1, <1>2, <1>3, <1>4, <1>5, <1>6, <1>7, SMTT(40) DEF ScriptInv, CutoffInv,
     CutoffAnswer, Says, Reported, Humid, Clear, Busy, Underway, Known, Stale, Running,
     Ripe, Deciding
<1>20. StoppedInv'
  BY <1>1, <1>2, <1>3, <1>4, <1>5, <1>6, <1>7, SMTT(40) DEF ScriptInv, StoppedInv, Stale,
     Deciding, Busy
<1>21. RecoveryInv'
  BY <1>1, <1>2, <1>3, <1>4, <1>5, <1>6, <1>7, SMTT(40) DEF ScriptInv, RecoveryInv,
     Reported, Says, Stale, Deciding, Underway, Known, Clear
<1>22. LogInv'
  <2>1. /\ k + 1 # 23 /\ k + 1 # 26 /\ k + 1 # Last /\ k + 1 # Last + 1
        /\ k + 1 \in 27 .. Last + 9 => k \in 27 .. Last + 9
    BY <1>2, <1>7
  <2>2. QED BY <1>1, <2>1 DEF ScriptInv, LogInv
<1>40. QED
  BY <1>11, <1>12, <1>13, <1>14, <1>15, <1>16, <1>17, <1>18, <1>19, <1>20, <1>21, <1>22

\* The operations that are not sleeps, waits or ticks.
LEMMA FineScript ==
  ASSUME DemoTimings, DemoTypes, TickInv, ScriptInv, InScript, Fine', demo' # Failed,
         \/ LaunchDemo \/ AssertFound \/ ReportEndedWell \/ StartBroker
         \/ LookForBroker /\ broker = "ready"
         \/ StartService \/ ServiceStopped \/ StartObserver \/ ConnectDevice
  PROVE  ScriptInv'
<1> DEFINE Others == UNCHANGED <<broker, connected, observer, service>>
<1>1. ScriptInv BY DEF ScriptInv
<1>2. Record(demo, {"step", "wake", "deadline", "code"}) /\ clock \in Nat
      /\ Record(service, {"state", "since", "rule"})
  BY DEF DemoTypes
<1>3. /\ Last \in Nat /\ Last >= 27 /\ StartupMax \in Nat BY Numbers
<1>4. UNCHANGED <<device, main, net, brokerDesired, clock, telemetry, machine, lastFallback,
                  brokerMode, log>>
  BY DEF LaunchDemo, AssertFound, ReportEndedWell, ReportReturned, StartBroker,
     LookForBroker, StartService, ServiceStopped, StartObserver, ConnectDevice, Reconnect,
     simVars, worldVars, brokerVars
<1>5. PICK k \in Nat : demo.step = k BY StepTypes, ProgramShape
<1>6. demo'.step = k + 1 /\ demo'.wake = demo.wake
      /\ (demo'.deadline = Never \/ (LaunchDemo /\ demo'.deadline = demo.deadline))
  <2>1. CASE LaunchDemo BY <1>2, <1>5, <2>1 DEF LaunchDemo, Record
  <2>2. CASE demo' = Continued BY <1>2, <1>5, <2>2 DEF Continued, Record
  <2>3. QED
    BY <2>1, <2>2 DEF AssertFound, ReportEndedWell, ReportReturned, StartBroker,
       LookForBroker, StartService, ServiceStopped, StartObserver, ConnectDevice, Fine
<1>7. /\ LaunchDemo => k = 0
      /\ AssertFound => k \in {23, Last + 1, Last + 6, Last + 7}
      /\ ReportEndedWell => k = Last + 8
      /\ StartBroker => k = 1
      /\ LookForBroker => k = 2
      /\ StartService => k \in {3, Last + 2}
      /\ ServiceStopped => k = 24
      /\ StartObserver => k = 5
      /\ ConnectDevice => k = 6
  <2>1. \A op : At(op) => k \in Where(op) BY <1>5, AtStep
  <2>2. /\ LaunchDemo => k = 0
        /\ AssertFound => k \in {23, Last + 1, Last + 6, Last + 7}
        /\ ReportEndedWell => k = Last + 8
    BY <1>5, <2>1, WhereIs DEF LaunchDemo, AssertFound, ReportEndedWell, ReportReturned
  <2>3. /\ StartBroker => k = 1
        /\ LookForBroker => k = 2
        /\ StartService => k \in {3, Last + 2}
    BY <2>1, WhereIs DEF StartBroker, LookForBroker, StartService
  <2>4. /\ ServiceStopped => k = 24
        /\ StartObserver => k = 5
        /\ ConnectDevice => k = 6
    BY <2>1, WhereIs DEF ServiceStopped, StartObserver, ConnectDevice
  <2>5. QED BY <2>2, <2>3, <2>4
<1>8. main.pc = "idle" /\ clock >= demo.wake
  <2>1. \A op : At(op) => main.pc = "idle" /\ clock >= demo.wake BY AtOnce
  <2>2. CASE LaunchDemo
    <3>1. k = 0 /\ ~InDemo BY <1>5, <2>2, StepTypes DEF LaunchDemo
    <3>2. main.pc = "idle" BY <3>1 DEF TickInv
    <3>3. QED BY <1>1, <1>5, <3>1, <3>2 DEF ScriptInv, Times
  <2>3. QED
    BY <2>1, <2>2 DEF AssertFound, ReportEndedWell, ReportReturned, StartBroker,
       LookForBroker, StartService, ServiceStopped, StartObserver, ConnectDevice
<1>9. UNCHANGED inbox
  <2>1. CASE ConnectDevice
    <3>1. inbox = <<>> /\ brokerDesired = NoMessage
      BY <1>1, <1>5, <1>7, <2>1 DEF ScriptInv, QueueInv, Clear
    <3>2. QED BY <2>1, <3>1 DEF ConnectDevice, Reconnect
  <2>2. QED
    BY <2>1 DEF LaunchDemo, AssertFound, ReportEndedWell, ReportReturned, StartBroker,
       LookForBroker, StartService, ServiceStopped, StartObserver, simVars
<1>10. /\ LaunchDemo \/ AssertFound \/ ReportEndedWell => Others
       /\ StartBroker =>
            broker' = "starting" /\ UNCHANGED <<connected, observer, service>>
       /\ LookForBroker => Others
  BY DEF LaunchDemo, AssertFound, ReportEndedWell, ReportReturned, StartBroker,
     LookForBroker, Fine, simVars, worldVars
<1>11. /\ StartService =>
            /\ service'.state = "starting" /\ service'.since = clock
            /\ service'.rule = R!NewRule
            /\ UNCHANGED <<broker, connected, observer>>
       /\ ServiceStopped =>
            /\ service'.state \in {service.state, "dead"} /\ service'.state # "stopping"
            /\ service.state # "up" /\ service'.rule = service.rule
            /\ UNCHANGED <<broker, connected, observer>>
  BY <1>2 DEF StartService, ServiceStopped, NoService, Died, Alive, Record, simVars
<1>12. /\ StartObserver =>
            observer' = "connecting" /\ UNCHANGED <<broker, connected, service>>
       /\ ConnectDevice =>
            connected' = TRUE /\ UNCHANGED <<broker, observer, service>>
  BY DEF StartObserver, ConnectDevice, Reconnect, simVars, worldVars
<1> HIDE DEF Others
<1>13. service'.rule = service.rule \/ service'.rule = R!NewRule
  BY <1>10, <1>11, <1>12 DEF Others
<1>22. /\ k = 1 => StartBroker
       /\ k \in {3, Last + 2} => StartService
       /\ k = 5 => StartObserver
       /\ k = 6 => ConnectDevice
       /\ k = 24 => ServiceStopped
  <2>1. k = 1 => StartBroker BY <1>3, <1>7
  <2>2. k \in {3, Last + 2} => StartService BY <1>3, <1>7
  <2>3. k = 5 => StartObserver BY <1>3, <1>7
  <2>4. k = 6 => ConnectDevice BY <1>3, <1>7
  <2>5. k = 24 => ServiceStopped BY <1>3, <1>7
  <2>6. QED BY <2>1, <2>2, <2>3, <2>4, <2>5
<1>23. k = 24 => service.state \in {"stopping", "dead"} /\ telemetry = <<>>
  <2>1. SUFFICES ASSUME k = 24
                 PROVE  service.state \in {"stopping", "dead"} /\ telemetry = <<>>
    OBVIOUS
  <2>2. service.state # "up" BY <2>1, <1>11, <1>22
  <2>3. QED BY <2>1, <2>2, <1>1, <1>5 DEF ScriptInv, ServiceInv
<1>14. k = 24 => telemetry = <<>> BY <1>23
<1>15. \/ k \in {0, 1, 2, 3, 5, 6, 23, 24}
       \/ k \in {Last + 1, Last + 2, Last + 6, Last + 7, Last + 8}
  BY <1>7
<1>16. demo'.deadline = Never \/ (k = 0 /\ demo'.deadline = demo.deadline) BY <1>6, <1>7
<1>17. /\ ScriptTypes' /\ Times' /\ QueueInv' /\ FreshInv' /\ OffInv' /\ RiseInv'
       /\ HoldInv' /\ FallInv' /\ CutoffInv' /\ StoppedInv' /\ RecoveryInv' /\ LogInv'
  BY <1>1, <1>4, <1>5, <1>6, <1>8, <1>9, <1>13, <1>14, <1>15, <1>16, FineMove DEF ScriptInv
<1>18. BrokerInv'
  <2>1. demo'.step = 2 => k = 1 /\ StartBroker /\ demo'.deadline = Never
    <3>1. demo'.step = 2 => k = 1 BY <1>6
    <3>2. QED BY <3>1, <1>16, <1>22
  <2>2. QED BY <1>10, <2>1 DEF BrokerInv
<1>19. ServiceInv'
  <2>1. main'.pc = "idle" /\ clock' = clock BY <1>4, <1>8
  <2>2. CASE StartService
    BY <1>3, <1>6, <1>7, <1>11, <2>1, <2>2 DEF ServiceInv, Busy
  <2>3. CASE ServiceStopped
    <3>1. k = 24 /\ service'.state = "dead" BY <1>7, <1>11, <1>23, <2>3
    <3>2. QED BY <1>3, <1>6, <3>1 DEF ServiceInv
  <2>4. CASE UNCHANGED service /\ k # 24 /\ k # 3 /\ k # Last + 2
    <3>1. /\ k \in {0, 1, 2} => service = NoService
          /\ k \in {6, 23, Last + 6, Last + 7, Last + 8} => service.state = "up"
          /\ k = Last + 1 => service.state = "dead"
          /\ k \in {5, 6} => service.rule = R!NewRule
      BY <1>1, <1>3, <1>5, <1>8, SMTT(40) DEF ScriptInv, ServiceInv, Busy
    <3>2. k = 5 => service.state = "up"
      <4>1. SUFFICES ASSUME k = 5, service.state # "up" PROVE FALSE OBVIOUS
      <4>2. /\ service.since + ServicePause = demo.wake
            /\ clock <= service.since + StartupMax
        BY <1>1, <1>3, <1>5, <1>8, <4>1 DEF ScriptInv, ServiceInv, Busy
      <4>3. service.since \in Nat /\ ServicePause \in Nat /\ StartupMax < ServicePause
        BY Numbers DEF DemoTypes, DemoTimings
      <4>4. QED BY <1>2, <1>3, <1>8, <4>2, <4>3
    <3>3. QED
      BY <1>3, <1>4, <1>6, <1>15, <2>1, <2>4, <3>1, <3>2, SMTT(40)
      DEF ServiceInv, Busy, NoService
  <2>5. UNCHANGED service \/ StartService \/ ServiceStopped BY <1>10, <1>12 DEF Others
  <2>6. QED BY <1>22, <2>2, <2>3, <2>4, <2>5
<1>20. SeenInv'
  <2>1. connected \/ k = 6 => connected'
    BY <1>10, <1>11, <1>12, <1>22 DEF Others
  <2>2. /\ k # 5 => UNCHANGED observer
        /\ k = 5 => observer' = "connecting"
    BY <1>7, <1>10, <1>11, <1>12, <1>22 DEF Others
  <2>3. QED
    BY <1>1, <1>3, <1>4, <1>5, <1>6, <1>15, <2>1, <2>2, SMTT(40) DEF ScriptInv, SeenInv
<1>21. QED BY <1>17, <1>18, <1>19, <1>20 DEF ScriptInv

-----------------------------------------------------------------------------
(* Time *)

\* Time passes, no further than to the end of a sleep.
LEMMA FineTime ==
  ASSUME DemoTimings, DemoTypes, WordInv, ScriptInv, InScript, DemoTimePasses
  PROVE  ScriptInv'
<1>1. ScriptInv BY DEF ScriptInv
<1>2. PICK k \in Nat : demo.step = k BY StepTypes, ProgramShape
<1>3. /\ clock' = clock + 1 /\ main.pc = "idle" /\ net.pc = "idle"
      /\ observer # "connecting"
      /\ service.state = "starting" => clock - service.since < StartupMax
      /\ broker = "starting" => clock + 1 + Poll < demo.deadline
      /\ ~Overdue(inbox) /\ ~Overdue(telemetry)
      /\ UNCHANGED <<device, main, net, connected, lastFallback, inbox, brokerDesired,
                     brokerActual, brokerMode, demo, log, broker, service, telemetry,
                     observer, machine>>
  BY DEF DemoTimePasses, worldVars, brokerVars
<1>4. /\ clock \in Nat /\ Sent \in Int /\ MaxDelay \in Nat /\ SampleInterval \in Nat
      /\ Second \in Nat /\ StaleTimeout \in Nat /\ MinFanOff \in Nat
      /\ Last \in Nat /\ Last >= 27 /\ Poll \in Nat /\ StartupMax \in Nat
      /\ ServicePause \in Nat /\ MaxRuntime \in Nat /\ Patience \in Nat
      /\ MinFanOn \in Nat /\ device.lastChangeTime \in Int /\ device.relayOnSince \in Int
      /\ machine.epoch \in Nat /\ service.rule.lastChangeTime \in Int
      /\ service.rule.relayOnSince \in Int
      /\ device.mqttIssuedAt \in Int /\ net.issuedAt \in Int /\ service.since \in Nat
      /\ demo.wake \in Nat /\ demo.deadline \in Int
  BY Ranges, Numbers DEF DemoTypes, ScriptInv, ScriptTypes
<1>5. k = 24 \/ clock < demo.wake
  <2>1. CASE At("stop_service")
    <3>1. k = 24 BY <1>2, <2>1, AtStep, WhereIs
    <3>2. QED BY <3>1
  <2>2. QED BY <2>1 DEF DemoTimePasses, Blocked
<1>6. /\ k \notin {0, 4, 6, 7, 8, 10, 12, 13, 14, 16, 19} /\ k # Last + 3
      /\ k \in {11, 18, 21, 22, 27} \/ k = Last + 5 => demo.deadline # Never
  BY <1>2, <1>4, <1>5 DEF ScriptInv, Times
<1>7. /\ Sent' = IF k \in {9, 15, 11, 18, 20, 21, 22, 26} \/ k = Last + 5 THEN Sent
                 ELSE clock + 1
      /\ Sent <= Sent' /\ Sent' <= clock + 1 /\ Sent' \in Int
  <2>1. Sent <= clock BY DEF ScriptInv, Times
  <2>2. QED BY <1>2, <1>3, <1>4, <1>6, <2>1 DEF Sent
<1> DEFINE A == clock + 1
<1>8. /\ A \in Nat /\ A > clock /\ clock' = A /\ (k = 24 \/ A <= demo.wake)
      /\ service.state = "starting" => A <= service.since + StartupMax
      /\ broker = "starting" => A + Poll < demo.deadline
  BY <1>3, <1>4, <1>5
<1>9. /\ telemetry # <<>> =>
           Head(telemetry).queuedAt \in Int /\ A <= Head(telemetry).queuedAt + MaxDelay
      /\ inbox # <<>> =>
           brokerDesired.queuedAt \in Int /\ A <= brokerDesired.queuedAt + MaxDelay
  <2>1. ASSUME telemetry # <<>>
        PROVE  Head(telemetry).queuedAt \in Int /\ A <= Head(telemetry).queuedAt + MaxDelay
    <3>1. Head(telemetry).queuedAt \in Int BY <2>1 DEF ScriptInv, ScriptTypes
    <3>2. clock - Head(telemetry).queuedAt < MaxDelay BY <1>3, <1>4, <2>1, <3>1 DEF Overdue
    <3>3. QED BY <1>4, <3>1, <3>2
  <2>2. ASSUME inbox # <<>>
        PROVE  brokerDesired.queuedAt \in Int /\ A <= brokerDesired.queuedAt + MaxDelay
    <3>1. inbox = <<brokerDesired>> /\ brokerDesired.queuedAt \in Int
      BY <2>2 DEF ScriptInv, ScriptTypes
    <3>2. Head(inbox) = brokerDesired BY <3>1
    <3>3. clock - brokerDesired.queuedAt < MaxDelay
      BY <1>3, <1>4, <2>2, <3>1, <3>2 DEF Overdue
    <3>4. QED BY <1>4, <3>1, <3>3
  <2>3. QED BY <2>1, <2>2
<1>10. A > clock /\ A \in Nat /\ clock' = A BY <1>8
<1> HIDE DEF A
<1>11. PICK s \in Int : Sent = s BY <1>4
<1>12. PICK t \in Int : Sent' = t BY <1>7
<1>13. /\ t = IF k \in {9, 15, 11, 18, 20, 21, 22, 26} \/ k = Last + 5 THEN s ELSE A
       /\ s <= t /\ t <= A /\ s <= clock
  BY <1>7, <1>11, <1>12, <1>8 DEF A, ScriptInv, Times
<1>14. PICK c \in Nat, w \in Nat, d \in Int :
         /\ clock = c /\ demo.wake = w /\ demo.deadline = d /\ A = c + 1
         /\ demo'.wake = w /\ demo'.deadline = d /\ demo'.step = k
  BY <1>2, <1>3, <1>4 DEF A
<1>21. ScriptTypes'
  BY SMTT(40), <1>1, <1>2, <1>3, <1>4, <1>5, <1>6, <1>8, <1>9, <1>10, <1>11, <1>12,
     <1>13, <1>14 DEF ScriptInv, ScriptTypes
<1>22. Times'
  BY SMTT(40), <1>2, <1>3, <1>4, <1>5, <1>6, <1>11, <1>12, <1>13, <1>14, <1>10 DEF
     ScriptInv, Times, Busy
<1>23. BrokerInv'
  BY SMTT(40), <1>1, <1>2, <1>3, <1>4, <1>5, <1>6, <1>8, <1>9, <1>10, <1>11, <1>12,
     <1>13, <1>14 DEF ScriptInv, BrokerInv
<1>24. ServiceInv'
  <2>1. demo'.step = k /\ ~Busy /\ ~Busy' /\ k # 4 /\ k # Last + 3
    BY <1>2, <1>3, <1>6 DEF Busy
  <2>2. k = 5 \/ k = Last + 4 =>
          /\ service.state \in {"starting", "up"}
          /\ service.state = "starting" =>
               service.since + ServicePause = demo.wake /\ A <= service.since + StartupMax
    BY <1>2, <1>8, <2>1, <1>4 DEF ScriptInv, ServiceInv
  <2>3. service' = service /\ telemetry' = telemetry /\ demo' = demo BY <1>3
  <2>4. QED BY <1>2, <1>4, <1>10, <2>1, <2>2, <2>3, SMTT(40) DEF ScriptInv, ServiceInv
<1>25. QueueInv'
  <2>1. /\ Clear' = Clear /\ ~Busy' /\ telemetry' = telemetry /\ inbox' = inbox
        /\ brokerDesired' = brokerDesired /\ net' = net /\ demo' = demo
    BY <1>3 DEF Clear, Busy
  <2>2. /\ telemetry # <<>> => Head(telemetry).queuedAt <= s /\ inbox = <<>>
        /\ inbox # <<>> => brokerDesired.queuedAt <= s + MaxDelay
        /\ demo.step \in 0 .. 7 \cup {10, 16, 17} \cup 27 .. Last + 4 => Clear
        /\ demo.step \in 0 .. 6 => brokerDesired = NoMessage
        /\ demo.step >= 25 /\ demo.step <= Last + 4 => telemetry = <<>>
    BY <1>11 DEF ScriptInv, QueueInv
  <2>3. telemetry # <<>> =>
          Head(telemetry).queuedAt <= t /\ A <= Head(telemetry).queuedAt + MaxDelay
    BY <1>9, <1>13, <2>2
  <2>4. inbox # <<>> =>
          /\ brokerDesired.queuedAt <= t + MaxDelay
          /\ A <= brokerDesired.queuedAt + MaxDelay
    BY <1>4, <1>9, <1>13, <2>2
  <2>5. net.pc = "idle" BY <1>3
  <2>6. QED BY <1>10, <1>12, <2>1, <2>2, <2>3, <2>4, <2>5 DEF QueueInv
<1>26. FreshInv'
  <2>1. k # 8 /\ k # 10 /\ k # 12 /\ (k = 9 \/ k = 11 => s = t) BY <1>6, <1>13
  <2>2. /\ ~Deciding' /\ Clear' = Clear
        /\ \A x : Underway(x)' = Underway(x) /\ Known(x)' = Known(x)
    BY <1>3 DEF Deciding, Clear, Underway, Known
  <2>3. QED BY <1>2, <1>11, <1>12, <1>14, <2>1, <2>2 DEF ScriptInv, FreshInv
<1>27. OffInv' BY <1>3 DEF ScriptInv, OffInv, Says, Reported
<1>28. RiseInv'
  <2>1. ~Busy' /\ Clear' = Clear /\ (k = 11 => s = t) BY <1>3, <1>13 DEF Busy, Clear
  <2>2. PICK e \in Nat, r \in Int :
          machine.epoch = e /\ service.rule.relayOnSince = r
    BY <1>4
  <2>3. r <= e + c => r <= e + A BY <1>14
  <2>4. QED
    BY <1>2, <1>3, <1>10, <1>11, <1>12, <1>14, <2>1, <2>2, <2>3, SMTT(40)
    DEF ScriptInv, RiseInv, Says, Reported, Humid
<1>29. HoldInv'
  <2>1. k \in 12 .. 15 => k = 15 /\ s = t BY <1>6, <1>13
  <2>2. PICK e \in Nat, r \in Int :
          machine.epoch = e /\ service.rule.relayOnSince = r
    BY <1>4
  <2>3. r <= e + c => r <= e + A BY <1>14
  <2>4. k # 16 BY <1>6
  <2>5. QED
    BY <1>2, <1>3, <1>10, <1>11, <1>12, <1>14, <2>1, <2>2, <2>3, <2>4, SMTT(40)
    DEF ScriptInv, HoldInv, Says, Reported
<1>30. FallInv'
  <2>1. ASSUME FallAnswer PROVE FallAnswer'
    <3>1. PICK e \in Nat, r \in Int, m \in Nat :
            machine.epoch = e /\ service.rule.lastChangeTime = r /\ MinFanOn = m
      BY <1>4
    <3>2. /\ r + m <= e + clock => r + m <= e + A
          /\ r <= e + clock => r <= e + A
      BY <1>4, <1>10
    <3>3. QED
      BY <1>3, <1>10, <2>1, <3>1, <3>2
      DEF FallAnswer, Says, Reported, Clear, Underway, Known
  <2>2. k \in 18 .. 20 => FallAnswer BY <1>2 DEF ScriptInv, FallInv
  <2>3. k = 18 => s = t BY <1>13
  <2>4. k = 18 => ~(demo.wake <= clock) BY <1>4, <1>5
  <2>5. QED
    BY <1>2, <1>3, <1>4, <1>8, <1>11, <1>12, <1>14, <2>1, <2>2, <2>3, <2>4, SMTT(40)
    DEF ScriptInv, FallInv, Humid, Busy
<1>31. CutoffInv'
  <2>1. ASSUME CutoffAnswer, s = t PROVE CutoffAnswer'
    <3>1. (Stale => Stale') /\ (Ripe => Ripe') BY <1>3, <1>4 DEF Stale, Ripe
    <3>2. Sent' = Sent /\ Clear' = Clear /\ Running' = Running /\ ~Deciding'
      BY <1>3, <1>11, <1>12, <2>1 DEF Clear, Running, Deciding
    <3>3. QED
      BY <1>3, <2>1, <3>1, <3>2
      DEF CutoffAnswer, Says, Reported, Humid, Underway, Known
  <2>2. k \in {21, 22} => CutoffAnswer /\ s = t BY <1>2, <1>13 DEF ScriptInv, CutoffInv
  <2>3. k = 21 => ~(demo.wake <= clock) BY <1>4, <1>5
  <2>4. ~Busy' /\ ~Deciding' BY <1>3 DEF Busy, Deciding
  <2>5. ASSUME k = 21
        PROVE  /\ w <= s + (MaxDelay + StaleTimeout + Poll)
               /\ ~device.relayOn /\ device.lastChangeTime + MinFanOff <= A
               /\ device.mqttIssuedAt <= s + MaxDelay /\ net.issuedAt <= s + MaxDelay
               /\ inbox # <<>> => brokerDesired.sentAt <= s + MaxDelay
    <3>1. /\ demo.wake <= s + (MaxDelay + StaleTimeout + Poll)
          /\ device.relayOn => demo.wake <= clock
          /\ ~device.relayOn => device.lastChangeTime + MinFanOff <= clock
      BY <1>2, <1>11, <2>5 DEF ScriptInv, CutoffInv
    <3>2. /\ device.mqttIssuedAt <= s + MaxDelay /\ net.issuedAt <= s + MaxDelay
          /\ inbox # <<>> => brokerDesired.sentAt <= s + MaxDelay
      BY <1>2, <1>11, <2>5 DEF ScriptInv, CutoffInv
    <3>3. ~device.relayOn BY <2>3, <2>5, <3>1
    <3>4. device.lastChangeTime + MinFanOff <= A BY <1>4, <1>14, <3>1, <3>3
    <3>5. QED BY <1>14, <3>1, <3>2, <3>3, <3>4
  <2>6. ASSUME k = 22
        PROVE  /\ device.relayOn /\ device.relayOnSince # Never /\ device.relayOnSince <= A
               /\ w < device.relayOnSince + (MaxRuntime + Poll)
               /\ d # Never => d >= device.relayOnSince + (MaxRuntime + Patience)
    BY <1>2, <1>4, <1>14, <2>6 DEF ScriptInv, CutoffInv
  <2>7. k \in {21, 22} => CutoffAnswer' BY <2>1, <2>2
  <2>8. QED
    BY <1>3, <1>10, <1>12, <1>14, <2>2, <2>4, <2>5, <2>6, <2>7 DEF CutoffInv
<1>32. StoppedInv'
  BY SMTT(40), <1>1, <1>2, <1>3, <1>4, <1>5, <1>6, <1>8, <1>9, <1>10, <1>11, <1>12,
     <1>13, <1>14 DEF ScriptInv, StoppedInv, Stale, Deciding, Busy
<1>33. RecoveryInv'
  BY SMTT(40), <1>1, <1>2, <1>3, <1>4, <1>5, <1>6, <1>8, <1>9, <1>10, <1>11, <1>12,
     <1>13, <1>14 DEF ScriptInv, RecoveryInv, Reported, Says, Stale, Deciding, Underway,
     Known, Clear
<1>34. LogInv'
  <2>1. log.lastOnAt \in Int BY DEF ScriptInv, ScriptTypes
  <2>2. StaleTimeout + 2 * SampleInterval \in Nat BY <1>4
  <2>3. QED BY <1>2, <1>3, <1>10, <1>14, <2>1, <2>2, SMTT(40) DEF ScriptInv, LogInv
<1>35. SeenInv' BY SMTT(40), <1>2, <1>3, <1>4, <1>14 DEF ScriptInv, SeenInv
<1>36. QED BY <1>21, <1>22, <1>23, <1>24, <1>25, <1>26, <1>27, <1>28, <1>29, <1>30,
   <1>31, <1>32, <1>33, <1>34, <1>35 DEF ScriptInv

-----------------------------------------------------------------------------
(* The rounds of the waits, and what stops the service *)

\* The script looks for the broker once more.
LEMMA FineLookAgain ==
  ASSUME DemoTimings, DemoTypes, ScriptInv, InScript, LookForBroker, broker # "ready"
  PROVE  ScriptInv'
<1>1. ScriptInv BY DEF ScriptInv
<1>2. Record(demo, {"step", "wake", "deadline", "code"}) /\ clock \in Nat BY DEF DemoTypes
<1>3. demo.step = 2 /\ main.pc = "idle" /\ clock >= demo.wake /\ ~TimedOut /\ demo' = Again
  <2>1. demo.step \in Where("wait_for_broker") /\ main.pc = "idle" /\ clock >= demo.wake
    BY AtStep DEF LookForBroker
  <2>2. QED BY <2>1, WhereIs DEF LookForBroker
<1>4. /\ demo'.step = 2 /\ demo'.wake = clock + Poll
      /\ demo'.deadline = IF demo.deadline = Never THEN clock + BrokerPatience
                         ELSE demo.deadline
  <2>1. Current.time = BrokerPatience BY <1>3, FirstPart DEF Current
  <2>2. QED BY <1>2, <1>3, <2>1 DEF Again, Deadline, Record
<1>5. UNCHANGED <<device, main, net, inbox, brokerDesired, clock, telemetry, machine,
                  connected, lastFallback, brokerMode, log, broker, service, observer>>
  BY Alone DEF LookForBroker
<1>6. /\ Last \in Nat /\ Last >= 27 /\ Poll \in Nat /\ Poll > 0 /\ BrokerPatience \in Nat
      /\ demo.wake \in Nat /\ demo.deadline \in Int /\ Poll < BrokerPatience
  BY <1>1, Numbers DEF ScriptInv, ScriptTypes, DemoTimings
<1>7. Sent = clock /\ Sent' = clock BY <1>3, <1>4, <1>5, <1>6 DEF Sent
<1>11. ScriptTypes' BY <1>1, <1>2, <1>3, <1>4, <1>5, <1>6, <1>7 DEF ScriptInv, ScriptTypes
<1>12. Times' BY <1>1, <1>2, <1>3, <1>4, <1>5, <1>6, <1>7 DEF ScriptInv, Times, Busy
<1>13. BrokerInv'
  <2>1. broker = "starting" BY <1>1, <1>3 DEF ScriptInv, BrokerInv, LookForBroker
  <2>2. demo.deadline # Never => clock + Poll < demo.deadline
    BY <1>1, <1>3, <2>1 DEF ScriptInv, BrokerInv
  <2>3. clock + Poll < demo'.deadline BY <1>2, <1>4, <1>6, <2>2
  <2>4. broker' = "starting" /\ clock' = clock BY <1>5, <2>1
  <2>5. QED BY <1>4, <2>3, <2>4 DEF BrokerInv
<1>14. ServiceInv'
  BY <1>1, <1>2, <1>3, <1>4, <1>5, <1>6, <1>7 DEF ScriptInv, ServiceInv, Busy
<1>15. QueueInv'
  BY <1>1, <1>2, <1>3, <1>4, <1>5, <1>6, <1>7 DEF ScriptInv, QueueInv, Busy, Clear
<1>16. FreshInv'
  BY <1>1, <1>2, <1>3, <1>4, <1>5, <1>6, <1>7 DEF ScriptInv, FreshInv, Underway, Known,
     Clear, Deciding
<1>17. OffInv'
  BY <1>1, <1>2, <1>3, <1>4, <1>5, <1>6, <1>7 DEF ScriptInv, OffInv, Says, Reported
<1>18. RiseInv'
  BY <1>1, <1>2, <1>3, <1>4, <1>5, <1>6, <1>7 DEF ScriptInv, RiseInv, Says, Reported, Humid,
     Clear, Busy
<1>19. HoldInv'
  BY <1>1, <1>2, <1>3, <1>4, <1>5, <1>6, <1>7 DEF ScriptInv, HoldInv, Says, Reported
<1>20. FallInv'
  BY <1>1, <1>2, <1>3, <1>4, <1>5, <1>6, <1>7 DEF ScriptInv, FallInv, FallAnswer, Says,
     Reported, Humid, Clear, Busy, Underway, Known
<1>21. CutoffInv'
  BY <1>1, <1>2, <1>3, <1>4, <1>5, <1>6, <1>7 DEF ScriptInv, CutoffInv, CutoffAnswer, Says,
     Reported, Humid, Clear, Busy, Underway, Known, Stale, Running, Ripe, Deciding
<1>22. StoppedInv'
  BY <1>1, <1>2, <1>3, <1>4, <1>5, <1>6, <1>7 DEF ScriptInv, StoppedInv, Stale, Deciding,
     Busy
<1>23. RecoveryInv'
  BY <1>1, <1>2, <1>3, <1>4, <1>5, <1>6, <1>7 DEF ScriptInv, RecoveryInv, Reported, Says,
     Stale, Deciding, Underway, Known, Clear
<1>24. LogInv' BY <1>1, <1>2, <1>3, <1>4, <1>5, <1>6, <1>7 DEF ScriptInv, LogInv
<1>25. SeenInv' BY <1>1, <1>2, <1>3, <1>4, <1>5, <1>6, <1>7 DEF ScriptInv, SeenInv
<1>26. QED BY <1>11, <1>12, <1>13, <1>14, <1>15, <1>16, <1>17, <1>18, <1>19, <1>20,
   <1>21, <1>22, <1>23, <1>24, <1>25 DEF ScriptInv

\* The service is told to end.
LEMMA FineTerminate ==
  ASSUME DemoTimings, DemoTypes, ScriptInv, InScript, Terminate
  PROVE  ScriptInv'
<1>1. ScriptInv BY DEF ScriptInv
<1>2. /\ Record(demo, {"step", "wake", "deadline", "code"}) /\ clock \in Nat
      /\ Record(service, {"state", "since", "rule"})
  BY DEF DemoTypes
<1>3. demo.step = 24 /\ main.pc = "idle" /\ clock >= demo.wake
  <2>1. demo.step \in Where("stop_service") /\ main.pc = "idle" /\ clock >= demo.wake
    BY AtStep DEF Terminate
  <2>2. QED BY <2>1, WhereIs
<1>4. demo'.step = 24 /\ demo'.wake = demo.wake /\ demo'.deadline = clock + StopPatience
  BY <1>2, <1>3 DEF Terminate, Record
<1>5. /\ UNCHANGED <<device, main, net, inbox, brokerDesired, clock, machine, connected,
                     lastFallback, brokerMode, log, broker, observer>>
      /\ telemetry' = <<>>
  BY DEF Terminate, simVars, brokerVars
<1>6. /\ service'.state = "stopping" /\ service'.rule = service.rule
  BY <1>2 DEF Terminate, Record
<1>7. /\ Last \in Nat /\ Last >= 27 /\ StopPatience \in Nat
      /\ demo.wake \in Nat /\ demo.deadline \in Int
  BY <1>1, Numbers DEF ScriptInv, ScriptTypes
<1>8. Sent = clock /\ Sent' = clock BY <1>3, <1>4, <1>5, <1>7 DEF Sent
<1>11. ScriptTypes'
  BY <1>1, <1>2, <1>3, <1>4, <1>5, <1>6, <1>7, <1>8 DEF ScriptInv, ScriptTypes
<1>12. Times' BY <1>1, <1>2, <1>3, <1>4, <1>5, <1>6, <1>7, <1>8 DEF ScriptInv, Times, Busy
<1>13. BrokerInv' BY <1>1, <1>2, <1>3, <1>4, <1>5, <1>6, <1>7, <1>8 DEF ScriptInv, BrokerInv
<1>14. ServiceInv'
  BY <1>1, <1>2, <1>3, <1>4, <1>5, <1>6, <1>7, <1>8 DEF ScriptInv, ServiceInv, Busy
<1>15. QueueInv'
  BY <1>1, <1>2, <1>3, <1>4, <1>5, <1>6, <1>7, <1>8 DEF ScriptInv, QueueInv, Busy, Clear
<1>16. FreshInv'
  BY <1>1, <1>2, <1>3, <1>4, <1>5, <1>6, <1>7, <1>8 DEF ScriptInv, FreshInv, Underway,
     Known, Clear, Deciding
<1>17. OffInv'
  BY <1>1, <1>2, <1>3, <1>4, <1>5, <1>6, <1>7, <1>8 DEF ScriptInv, OffInv, Says, Reported
<1>18. RiseInv'
  BY <1>1, <1>2, <1>3, <1>4, <1>5, <1>6, <1>7, <1>8 DEF ScriptInv, RiseInv, Says, Reported,
     Humid, Clear, Busy
<1>19. HoldInv'
  BY <1>1, <1>2, <1>3, <1>4, <1>5, <1>6, <1>7, <1>8 DEF ScriptInv, HoldInv, Says, Reported
<1>20. FallInv'
  BY <1>1, <1>2, <1>3, <1>4, <1>5, <1>6, <1>7, <1>8 DEF ScriptInv, FallInv, FallAnswer,
     Says, Reported, Humid, Clear, Busy, Underway, Known
<1>21. CutoffInv'
  BY <1>1, <1>2, <1>3, <1>4, <1>5, <1>6, <1>7, <1>8 DEF ScriptInv, CutoffInv, CutoffAnswer,
     Says, Reported, Humid, Clear, Busy, Underway, Known, Stale, Running, Ripe, Deciding
<1>22. StoppedInv'
  BY <1>1, <1>2, <1>3, <1>4, <1>5, <1>6, <1>7, <1>8 DEF ScriptInv, StoppedInv, Stale,
     Deciding, Busy
<1>23. RecoveryInv'
  BY <1>1, <1>2, <1>3, <1>4, <1>5, <1>6, <1>7, <1>8 DEF ScriptInv, RecoveryInv, Reported,
     Says, Stale, Deciding, Underway, Known, Clear
<1>24. LogInv' BY <1>1, <1>2, <1>3, <1>4, <1>5, <1>6, <1>7, <1>8 DEF ScriptInv, LogInv
<1>25. SeenInv' BY <1>1, <1>2, <1>3, <1>4, <1>5, <1>6, <1>7, <1>8 DEF ScriptInv, SeenInv
<1>26. QED BY <1>11, <1>12, <1>13, <1>14, <1>15, <1>16, <1>17, <1>18, <1>19, <1>20,
   <1>21, <1>22, <1>23, <1>24, <1>25 DEF ScriptInv

-----------------------------------------------------------------------------
(* The ticks of the device, up to their decision *)

\* The first look of a tick: is the last message fresh?
LEMMA FineCheckFresh ==
  ASSUME DemoTimings, DemoTypes, WordInv, ScriptInv, InScript, CheckDemoFresh
  PROVE  ScriptInv'
<1>1. ScriptInv BY DEF ScriptInv
<1>2. PICK k \in Nat : demo.step = k BY StepTypes, ProgramShape
<1>3. /\ UNCHANGED <<device, net, inbox, brokerDesired, clock, machine, connected,
                     lastFallback, brokerMode, log, broker, observer, demo, service,
                     telemetry>>
      /\ main.pc = "tick" /\ main'.pc = "decide" /\ main'.now = main.now
      /\ main'.fresh = MqttFresh(device, main.now)
  BY DEF CheckDemoFresh, CheckFresh, worldVars, brokerVars, DemoTypes, Record, MainIdle
<1>4. /\ Last \in Nat /\ Last >= 27 /\ StaleTimeout \in Nat /\ MaxDelay \in Nat
      /\ SampleInterval \in Nat /\ Second \in Nat /\ MinFanOff \in Nat /\ Poll \in Nat
      /\ machine.epoch \in Nat /\ service.rule.lastChangeTime \in Int
      /\ net.issuedAt \in Int
      /\ demo.wake \in Nat
  BY <1>1, Numbers DEF ScriptInv, ScriptTypes, DemoTypes
<1>5. PICK c \in Nat, s \in Int, i \in Int :
        clock = c /\ Sent = s /\ Sent' = s /\ device.mqttIssuedAt = i
  BY <1>1, <1>3, SentType DEF DemoTypes, ScriptInv
<1>6. Busy /\ Busy' /\ ~Deciding /\ Deciding' /\ main.now = c /\ demo.wake <= c
      /\ (k \notin {24, 25} => demo.wake >= c)
  BY <1>1, <1>2, <1>3, <1>5 DEF ScriptInv, Times, Busy, Deciding
<1>7. /\ main'.fresh \in BOOLEAN
      /\ main'.fresh <=> device.mqttReceived /\ i # -1 /\ c - i <= StaleTimeout
  <2>1. device.mqttReceived \in BOOLEAN BY <1>1 DEF ScriptInv, ScriptTypes
  <2>2. main'.fresh = (device.mqttReceived /\ i # -1 /\ c - i <= StaleTimeout)
    BY <1>3, <1>5, <1>6 DEF MqttFresh, Never
  <2>3. QED BY <2>1, <2>2
<1>8. Stale' = Stale /\ (Stale <=> c - i > StaleTimeout) /\ Clear' = Clear
  BY <1>3, <1>5 DEF Stale, Clear
<1> HIDE DEF Sent
<1>11. ScriptTypes'
  BY <1>1, <1>2, <1>3, <1>4, <1>5, <1>6, <1>7, <1>8 DEF ScriptInv, ScriptTypes
<1>12. Times' BY <1>1, <1>2, <1>3, <1>4, <1>5, <1>6, <1>7, <1>8 DEF ScriptInv, Times, Busy
<1>13. BrokerInv' BY <1>1, <1>2, <1>3, <1>4, <1>5, <1>6, <1>7, <1>8 DEF ScriptInv, BrokerInv
<1>14. ServiceInv'
  BY <1>1, <1>2, <1>3, <1>4, <1>5, <1>6, <1>7, <1>8 DEF ScriptInv, ServiceInv, Busy
<1>15. QueueInv'
  BY <1>1, <1>2, <1>3, <1>4, <1>5, <1>6, <1>7, <1>8 DEF ScriptInv, QueueInv, Busy, Clear
<1>16. FreshInv'
  <2>1. k = 10 \/ k = 11 \/ k = 12 => main'.fresh
    <3>1. 2 * SampleInterval + 2 * MaxDelay + Poll + Second <= StaleTimeout + 1
      BY DEF DemoTimings
    <3>2. CASE k = 12
      <4>1. Known(c - StaleTimeout) BY <1>1, <1>2, <1>5, <3>2 DEF ScriptInv, FreshInv
      <4>2. device.mqttReceived /\ i >= 0 /\ i >= c - StaleTimeout BY <1>5, <4>1 DEF Known
      <4>3. QED BY <1>4, <1>7, <4>2
    <3>3. CASE k = 10 \/ k = 11
      <4>1. Known((s - (2 * SampleInterval + Second)) + 1)
        BY <1>1, <1>2, <1>5, <3>3 DEF ScriptInv, FreshInv
      <4>2. device.mqttReceived /\ i >= 0 /\ i >= (s - (2 * SampleInterval + Second)) + 1
        BY <1>5, <4>1 DEF Known
      <4>3. k = 10 => s = c BY <1>2, <1>4, <1>5 DEF Sent
      <4>4. k = 11 => c <= s + (2 * MaxDelay + Poll)
        <5>1. k = 11 => demo.wake <= s + (2 * MaxDelay + Poll)
          BY <1>1, <1>2, <1>5 DEF ScriptInv, RiseInv
        <5>2. QED BY <1>4, <1>6, <5>1
      <4>5. c <= s + (2 * MaxDelay + Poll) BY <1>4, <3>3, <4>3, <4>4
      <4>6. QED BY <1>4, <1>7, <3>1, <4>2, <4>5
    <3>4. QED BY <3>2, <3>3
  <2>2. QED
    BY <1>1, <1>2, <1>3, <1>5, <1>8, <2>1 DEF ScriptInv, FreshInv, Underway, Known
<1>17. OffInv'
  BY <1>1, <1>2, <1>3, <1>4, <1>5, <1>6, <1>7, <1>8 DEF ScriptInv, OffInv, Says, Reported
<1>18. RiseInv'
  BY <1>1, <1>2, <1>3, <1>4, <1>5, <1>6, <1>7, <1>8 DEF ScriptInv, RiseInv, Says, Reported,
     Humid, Clear, Busy
<1>19. HoldInv'
  BY <1>1, <1>2, <1>3, <1>4, <1>5, <1>6, <1>7, <1>8 DEF ScriptInv, HoldInv, Says, Reported
<1>20. FallInv'
  BY <1>1, <1>2, <1>3, <1>4, <1>5, <1>6, <1>7, <1>8 DEF ScriptInv, FallInv, FallAnswer,
     Says, Reported, Humid, Clear, Busy, Underway, Known
<1>21. CutoffInv'
  <2>1. k = 20 /\ ~main'.fresh => Stale /\ Ripe
    <3>1. SUFFICES ASSUME k = 20, ~main'.fresh PROVE Stale /\ Ripe OBVIOUS
    <3>2. Clear /\ FallAnswer
      BY <1>1, <1>2, <1>6, <3>1 DEF ScriptInv, QueueInv, FallInv
    <3>3. Known((service.rule.lastChangeTime - (machine.epoch + Second)) + 1)
      BY <3>2 DEF FallAnswer, Clear
    <3>4. PICK r \in Int, e \in Nat : service.rule.lastChangeTime = r /\ machine.epoch = e
      BY <1>4
    <3>5. /\ device.mqttReceived /\ i >= 0 /\ i >= (r - (e + Second)) + 1
      BY <1>5, <3>3, <3>4 DEF Known
    <3>6. c - i > StaleTimeout BY <1>7, <1>4, <3>1, <3>5
    <3>7. MinFanOff + 2 * MaxDelay + Second <= StaleTimeout + 2 BY DEF DemoTimings
    <3>8. r + MinFanOff <= e + c BY <1>4, <3>4, <3>5, <3>6, <3>7
    <3>9. QED BY <1>5, <1>8, <3>4, <3>6, <3>8 DEF Ripe
  <2>2. ASSUME CutoffAnswer, k = 21 \/ k = 22 PROVE CutoffAnswer'
    <3>1. device.mqttReceived /\ i >= 0 BY <1>5, <2>2 DEF CutoffAnswer, Known
    <3>2. main'.fresh <=> ~Stale BY <1>4, <1>5, <1>7, <1>8, <3>1
    <3>3. Running' <=> device.relayOn \/ Stale BY <1>3, <1>6, <3>2 DEF Running
    <3>4. device.relayOn => Running BY DEF Running
    <3>5. Ripe' = Ripe BY <1>3 DEF Ripe
    <3>6. Stale /\ telemetry # <<>> => Ripe
      <4>1. SUFFICES ASSUME Stale, telemetry # <<>> PROVE Ripe OBVIOUS
      <4>2. Known((service.rule.lastChangeTime - (machine.epoch + Second)) + 1)
        BY <2>2, <4>1 DEF CutoffAnswer
      <4>3. PICK r \in Int, e \in Nat :
              service.rule.lastChangeTime = r /\ machine.epoch = e
        BY <1>4
      <4>4. i >= (r - (e + Second)) + 1 /\ c - i > StaleTimeout
        BY <1>5, <1>8, <4>1, <4>2, <4>3 DEF Known
      <4>5. MinFanOff + 2 * MaxDelay + Second <= StaleTimeout + 2 BY DEF DemoTimings
      <4>6. r + MinFanOff <= e + c BY <1>4, <4>3, <4>4, <4>5
      <4>7. QED BY <1>5, <4>3, <4>6 DEF Ripe
    <3>7. Stale /\ telemetry = <<>> /\ ~service.rule.relayOn => Clear
      <4>1. SUFFICES ASSUME Stale, telemetry = <<>>, ~service.rule.relayOn, ~Clear
                     PROVE  FALSE
        OBVIOUS
      <4>2. i >= (s - (MinFanOff + Second)) + 2
        BY <1>5, <2>2, <4>1 DEF CutoffAnswer, Known
      <4>3. c <= s + 2 * MaxDelay
        <5>1. inbox # <<>> \/ net.pc # "idle" BY <4>1 DEF Clear
        <5>2. CASE net.pc # "idle" BY <1>1, <1>5, <5>2 DEF ScriptInv, QueueInv
        <5>3. CASE inbox # <<>>
          <6>1. brokerDesired.queuedAt \in Int BY <1>1, <5>3 DEF ScriptInv, ScriptTypes
          <6>2. /\ brokerDesired.queuedAt <= s + MaxDelay
                /\ c <= brokerDesired.queuedAt + MaxDelay
            BY <1>1, <1>5, <5>3 DEF ScriptInv, QueueInv
          <6>3. QED BY <1>4, <6>1, <6>2
        <5>4. QED BY <5>1, <5>2, <5>3
      <4>4. c - i > StaleTimeout BY <1>8, <4>1
      <4>5. MinFanOff + 2 * MaxDelay + Second <= StaleTimeout + 2 BY DEF DemoTimings
      <4>6. QED BY <1>4, <4>2, <4>3, <4>4, <4>5
    <3>8. QED
      BY <1>3, <1>5, <1>6, <1>8, <2>2, <3>1, <3>2, <3>3, <3>4, <3>5, <3>6, <3>7, SMTT(40)
      DEF CutoffAnswer, Says, Reported, Humid, Underway, Known
  <2>3. Stale' = Stale /\ Ripe' = Ripe BY <1>3, <1>8 DEF Ripe
  <2>4. k = 21 => i <= s + MaxDelay BY <1>1, <1>2, <1>5 DEF ScriptInv, CutoffInv
  <2>5. k = 21 /\ main'.fresh => c <= s + (MaxDelay + StaleTimeout)
    BY <1>4, <1>7, <2>4
  <2>6. QED
    BY <1>1, <1>2, <1>3, <1>5, <1>6, <2>1, <2>2, <2>3, <2>5, SMTT(40)
    DEF ScriptInv, CutoffInv, Humid
<1>22. StoppedInv'
  <2>1. k \in 26 .. Last + 4 => ~main'.fresh
    <3>1. k \in 27 .. Last + 4 => ~main'.fresh
      <4>1. k \in 27 .. Last + 4 => c - i > StaleTimeout
        BY <1>1, <1>2, <1>8 DEF ScriptInv, StoppedInv
      <4>2. QED BY <1>4, <1>7, <4>1
    <3>2. k = 26 => ~main'.fresh
      <4>1. SUFFICES ASSUME k = 26 PROVE ~(c - i <= StaleTimeout) BY <1>7
      <4>2. /\ service.state = "dead"
            /\ demo.wake >= service.since + (StaleTimeout + 2 * SampleInterval)
        BY <1>1, <1>2, <1>4, <4>1 DEF ScriptInv, ServiceInv, StoppedInv
      <4>3. i <= service.since BY <1>5, <4>2 DEF WordInv, LastWord
      <4>4. MaxDelay < SampleInterval /\ service.since \in Nat BY DEF DemoTimings, DemoTypes
      <4>5. QED BY <1>4, <1>5, <1>6, <4>2, <4>3, <4>4
    <3>3. QED BY <3>1, <3>2, <1>4
  <2>2. QED BY <1>1, <1>2, <1>3, <1>6, <1>8, <2>1 DEF ScriptInv, StoppedInv
<1>23. RecoveryInv'
  <2>1. k = Last + 5 => (main'.fresh => ~Stale) BY <1>7, <1>8, <1>4
  <2>2. k = Last + 5 /\ ~main'.fresh => c <= s + 2 * MaxDelay
    <3>1. SUFFICES ASSUME k = Last + 5, ~main'.fresh PROVE c <= s + 2 * MaxDelay OBVIOUS
    <3>2. CASE Clear
      <4>1. Known((s - Second) + 1) /\ demo.wake <= s + (2 * MaxDelay + Poll)
        BY <1>1, <1>2, <1>5, <3>1, <3>2 DEF ScriptInv, RecoveryInv
      <4>2. device.mqttReceived /\ i >= 0 /\ i >= (s - Second) + 1 BY <1>5, <4>1 DEF Known
      <4>3. 2 * SampleInterval + 2 * MaxDelay + Poll + Second <= StaleTimeout + 1
        BY DEF DemoTimings
      <4>4. c <= demo.wake BY <1>6, <3>1, <1>4
      <4>5. QED BY <1>4, <1>7, <3>1, <4>1, <4>2, <4>3, <4>4
    <3>3. CASE net.pc # "idle" BY <1>1, <1>5, <3>3 DEF ScriptInv, QueueInv
    <3>4. CASE inbox # <<>>
      <4>1. brokerDesired.queuedAt \in Int BY <1>1, <3>4 DEF ScriptInv, ScriptTypes
      <4>2. brokerDesired.queuedAt <= s + MaxDelay /\ c <= brokerDesired.queuedAt + MaxDelay
        BY <1>1, <1>5, <3>4 DEF ScriptInv, QueueInv
      <4>3. QED BY <1>4, <4>1, <4>2
    <3>5. CASE telemetry # <<>>
      <4>1. Head(telemetry).queuedAt \in Int BY <1>1, <3>5 DEF ScriptInv, ScriptTypes
      <4>2. Head(telemetry).queuedAt <= s /\ c <= Head(telemetry).queuedAt + MaxDelay
        BY <1>1, <1>5, <3>5 DEF ScriptInv, QueueInv
      <4>3. QED BY <1>4, <4>1, <4>2
    <3>6. QED BY <3>2, <3>3, <3>4, <3>5 DEF Clear
  <2>3. QED
    BY <1>1, <1>2, <1>3, <1>5, <1>8, <2>1, <2>2
    DEF ScriptInv, RecoveryInv, Reported, Says, Underway, Known
<1>24. LogInv' BY <1>1, <1>2, <1>3, <1>4, <1>5, <1>6, <1>7, <1>8 DEF ScriptInv, LogInv
<1>25. SeenInv' BY <1>1, <1>2, <1>3, <1>4, <1>5, <1>6, <1>7, <1>8 DEF ScriptInv, SeenInv
<1>26. QED BY <1>11, <1>12, <1>13, <1>14, <1>15, <1>16, <1>17, <1>18, <1>19, <1>20,
   <1>21, <1>22, <1>23, <1>24, <1>25 DEF ScriptInv

\* A tick begins, of a check or of a round of a wait.
LEMMA FineLook ==
  ASSUME DemoTimings, DemoTypes, ScriptInv, InScript, LookAtDevice
  PROVE  ScriptInv'
<1>1. ScriptInv BY DEF ScriptInv
<1>2. PICK k \in Nat : demo.step = k BY StepTypes, ProgramShape
<1>3. /\ UNCHANGED <<device, net, inbox, brokerDesired, clock, machine, connected,
                     lastFallback, brokerMode, log, broker, observer, service, telemetry>>
      /\ main.pc = "idle" /\ main'.pc = "tick" /\ main'.now = clock /\ main'.fresh = FALSE
      /\ ~Deciding' /\ ~Deciding /\ ~Busy /\ Busy'
  BY DEF LookAtDevice, TickOnce, worldVars, brokerVars, Deciding, Busy
<1>4. /\ Last \in Nat /\ Last >= 27 /\ SampleInterval \in Nat /\ MinFanOff \in Nat
      /\ Patience \in Nat /\ MaxRuntime \in Nat /\ StaleTimeout \in Nat
      /\ device.relayOnSince \in Int
  BY <1>1, Numbers DEF ScriptInv, ScriptTypes
<1>5. PICK c \in Nat, w \in Nat, d \in Int :
        clock = c /\ demo.wake = w /\ demo.deadline = d
  BY <1>1 DEF DemoTypes, ScriptInv, ScriptTypes
<1>6. /\ k \in {9, 12, 15, 11, 18, 21, 22, 27} \/ k = Last + 5
      /\ c >= w
  <2>1. demo.step \in Where("check") \cup Where("await") /\ clock >= demo.wake
    BY AtStep DEF LookAtDevice
  <2>2. QED BY <1>2, <1>5, <2>1, WhereIs
<1>7. /\ k \in {9, 12, 15} => Current.time = 0
      /\ k \in {11, 18, 21, 27} \/ k = Last + 5 => Current.time = Patience
      /\ k = 22 => Current.time = MaxRuntime + Patience
  <2>1. k \in {9, 12, 15} => Current.time = 0 BY <1>2, FirstPart DEF Current, Check
  <2>2. k = Last + 5 => Current.time = Patience BY <1>2, LastPart DEF Current, Await
  <2>3. k \in {11, 18, 21, 27} => Current.time = Patience
    BY <1>2, FirstPart DEF Current, Await
  <2>4. k = 22 => Current.time = MaxRuntime + Patience BY <1>2, FirstPart DEF Current, Await
  <2>5. QED BY <2>1, <2>2, <2>3, <2>4
<1>8. demo'.step = k /\ demo'.wake = w /\ demo'.deadline = Deadline
  BY <1>2, <1>5 DEF LookAtDevice, DemoTypes, Record
<1>9. /\ k \in {9, 12, 15} => Deadline = IF d = -1 THEN c ELSE d
      /\ k \in {11, 18, 21, 27} \/ k = Last + 5 =>
           Deadline = IF d = -1 THEN c + Patience ELSE d
      /\ k = 22 => Deadline = IF d = -1 THEN c + (MaxRuntime + Patience) ELSE d
  BY <1>4, <1>5, <1>7 DEF Deadline, Never
<1>10. PICK e \in Int : Deadline = e /\ e # -1 /\ demo'.deadline = e
  <2>1. Deadline \in Int /\ Deadline # -1 BY <1>4, <1>5, <1>6, <1>9
  <2>2. QED BY <1>8, <2>1
<1>11. Sent \in Int /\ Sent' = Sent
  <2>1. Sent \in Int BY <1>1, SentType DEF ScriptInv
  <2>2. CASE k \in {9, 12, 15} \/ k = 27
    BY <1>2, <1>3, <1>4, <1>5, <1>8, <2>1, <2>2 DEF Sent
  <2>3. CASE k \in {11, 18, 21} \/ k = Last + 5
    <3>1. Sent = IF d # -1 THEN d - Patience ELSE c
      BY <1>2, <1>4, <1>5, <2>3 DEF Sent, Never
    <3>2. /\ k # 9 /\ k # 15 /\ k # 20 /\ k # 26
          /\ (k = 11 \/ k = 18 \/ k = 21 \/ k = Last + 5)
      BY <1>4, <2>3
    <3>4. Sent' = e - Patience BY <1>8, <1>10, <3>2, <1>4 DEF Sent, Never
    <3>3. QED BY <1>4, <1>9, <1>10, <2>1, <2>3, <3>1, <3>4
  <2>4. CASE k = 22
    <3>1. Sent = IF d # -1 THEN d - (MaxRuntime + Patience) ELSE c
      BY <1>2, <1>4, <1>5, <2>4 DEF Sent, Never
    <3>2. Sent' = e - (MaxRuntime + Patience)
      BY <1>2, <1>4, <1>5, <1>8, <1>10, <2>4 DEF Sent, Never
    <3>3. QED BY <1>4, <1>9, <1>10, <2>1, <2>4, <3>1, <3>2
  <2>5. QED BY <1>6, <2>2, <2>3, <2>4
<1>12. PICK s \in Int : Sent = s /\ Sent' = s BY <1>11
<1>13. (k = 22 => e >= c + (MaxRuntime + Patience) \/ e = d)
  BY <1>4, <1>9, <1>10
<1>14. /\ Stale' = Stale /\ Clear' = Clear /\ Running' = Running /\ Ripe' = Ripe
  BY <1>3 DEF Stale, Clear, Running, Ripe
<1> HIDE DEF Sent
<1>21. ScriptTypes'
  <2>1. demo'.wake \in Nat /\ demo'.deadline \in Int /\ main'.fresh \in BOOLEAN
    BY <1>3, <1>8, <1>10
  <2>2. QED BY <1>1, <1>3, <2>1 DEF ScriptInv, ScriptTypes
<1>22. Times'
  BY <1>1, <1>2, <1>3, <1>4, <1>5, <1>6, <1>8, <1>10, <1>12, <1>14 DEF ScriptInv, Times,
     Busy
<1>23. BrokerInv'
  BY <1>1, <1>2, <1>3, <1>4, <1>5, <1>6, <1>8, <1>10, <1>12, <1>14 DEF ScriptInv, BrokerInv
<1>24. ServiceInv'
  BY <1>1, <1>2, <1>3, <1>4, <1>5, <1>6, <1>8, <1>10, <1>12, <1>14 DEF ScriptInv,
     ServiceInv, Busy
<1>25. QueueInv'
  BY SMTT(40), <1>1, <1>2, <1>3, <1>4, <1>5, <1>6, <1>8, <1>10, <1>12, <1>14 DEF ScriptInv,
     QueueInv, Busy, Clear
<1>26. FreshInv'
  BY <1>1, <1>2, <1>3, <1>4, <1>5, <1>6, <1>8, <1>10, <1>12, <1>14 DEF ScriptInv, FreshInv,
     Underway, Known, Clear, Deciding
<1>27. OffInv'
  BY <1>1, <1>2, <1>3, <1>4, <1>5, <1>6, <1>8, <1>10, <1>12, <1>14 DEF ScriptInv, OffInv,
     Says, Reported
<1>28. RiseInv'
  BY SMTT(40), <1>1, <1>2, <1>3, <1>4, <1>5, <1>6, <1>8, <1>10, <1>12, <1>14 DEF ScriptInv,
     RiseInv, Says, Reported, Humid, Clear, Busy
<1>29. HoldInv'
  BY SMTT(40), <1>1, <1>2, <1>3, <1>4, <1>5, <1>6, <1>8, <1>10, <1>12, <1>14 DEF ScriptInv,
     HoldInv, Says, Reported
<1>30. FallInv'
  BY SMTT(40), <1>1, <1>2, <1>3, <1>4, <1>5, <1>6, <1>8, <1>10, <1>12, <1>14 DEF ScriptInv,
     FallInv, FallAnswer, Says, Reported, Humid, Clear, Busy, Underway, Known
<1>31. CutoffInv'
  <2>1. ASSUME CutoffAnswer PROVE CutoffAnswer'
    BY <1>3, <1>12, <1>14, <2>1 DEF CutoffAnswer, Says, Reported, Humid, Underway, Known
  <2>2. k = 22 => e >= device.relayOnSince + (MaxRuntime + Patience)
    <3>1. SUFFICES ASSUME k = 22 PROVE e >= device.relayOnSince + (MaxRuntime + Patience)
      OBVIOUS
    <3>2. /\ device.relayOnSince <= c
          /\ d # -1 => d >= device.relayOnSince + (MaxRuntime + Patience)
      BY <1>1, <1>2, <1>5, <3>1 DEF ScriptInv, CutoffInv, Never
    <3>3. QED BY <1>4, <1>9, <1>10, <3>1, <3>2
  <2>3. QED
    BY <1>1, <1>2, <1>3, <1>4, <1>5, <1>6, <1>8, <1>10, <1>12, <1>14, <2>1, <2>2, SMTT(40)
    DEF ScriptInv, CutoffInv
<1>32. StoppedInv'
  BY SMTT(40), <1>1, <1>2, <1>3, <1>4, <1>5, <1>6, <1>8, <1>10, <1>12, <1>14 DEF ScriptInv,
     StoppedInv, Stale, Deciding, Busy
<1>33. RecoveryInv'
  BY SMTT(40), <1>1, <1>2, <1>3, <1>4, <1>5, <1>6, <1>8, <1>10, <1>12, <1>14 DEF ScriptInv,
     RecoveryInv, Reported, Says, Stale, Deciding, Underway, Known, Clear
<1>34. LogInv'
  BY <1>1, <1>2, <1>3, <1>4, <1>5, <1>6, <1>8, <1>10, <1>12, <1>14 DEF ScriptInv, LogInv
<1>35. SeenInv'
  BY <1>1, <1>2, <1>3, <1>4, <1>5, <1>6, <1>8, <1>10, <1>12, <1>14 DEF ScriptInv, SeenInv
<1>36. QED BY <1>21, <1>22, <1>23, <1>24, <1>25, <1>26, <1>27, <1>28, <1>29, <1>30,
   <1>31, <1>32, <1>33, <1>34, <1>35 DEF ScriptInv

\* Nothing is under way after a sleep that follows a reading.
LEMMA ClearBefore ==
  ASSUME DemoTimings, DemoTypes, ScriptInv, clock >= demo.wake,
         demo.step \in {9, 15, 20, 26}
  PROVE  Clear
<1>1. PICK c \in Nat, w \in Nat, s \in Int :
        /\ clock = c /\ demo.wake = w /\ Sent = s /\ c >= w
        /\ \/ s = w - MinFanOff \/ s = w - (StaleTimeout + 2 * SampleInterval)
           \/ s = w - 2 * SampleInterval
  <2>1. Sent \in Int /\ clock \in Nat /\ demo.wake \in Nat
    BY SentType DEF DemoTypes, ScriptInv, ScriptTypes
  <2>2. \/ Sent = demo.wake - MinFanOff
        \/ Sent = demo.wake - (StaleTimeout + 2 * SampleInterval)
        \/ Sent = demo.wake - 2 * SampleInterval
    BY Numbers DEF Sent
  <2>3. QED BY <2>1, <2>2
<1>2. /\ MinFanOff \in Nat /\ StaleTimeout \in Nat /\ SampleInterval \in Nat
      /\ MaxDelay \in Nat /\ 2 * MaxDelay < MinFanOff /\ MaxDelay < SampleInterval
  BY Numbers DEF DemoTimings
<1>3. c > s + 2 * MaxDelay BY <1>1, <1>2
<1>4. net.pc = "idle" BY <1>1, <1>2, <1>3 DEF ScriptInv, QueueInv
<1>5. inbox = <<>>
  <2>1. SUFFICES ASSUME inbox # <<>> PROVE FALSE OBVIOUS
  <2>2. brokerDesired.queuedAt \in Int BY <2>1 DEF ScriptInv, ScriptTypes
  <2>3. brokerDesired.queuedAt <= s + MaxDelay /\ c <= brokerDesired.queuedAt + MaxDelay
    BY <1>1, <2>1 DEF ScriptInv, QueueInv
  <2>4. QED BY <1>2, <1>3, <2>2, <2>3
<1>6. telemetry = <<>>
  <2>1. SUFFICES ASSUME telemetry # <<>> PROVE FALSE OBVIOUS
  <2>2. Head(telemetry).queuedAt \in Int BY <2>1 DEF ScriptInv, ScriptTypes
  <2>3. Head(telemetry).queuedAt <= s /\ c <= Head(telemetry).queuedAt + MaxDelay
    BY <1>1, <2>1 DEF ScriptInv, QueueInv
  <2>4. QED BY <1>2, <1>3, <2>2, <2>3
<1>7. QED BY <1>4, <1>5, <1>6 DEF Clear

\* The device is given a reading.
LEMMA FineSend ==
  ASSUME DemoTimings, DemoTypes, ScriptInv, InScript, SendReading
  PROVE  ScriptInv'
<1>1. ScriptInv BY DEF ScriptInv
<1>2. PICK k \in Nat : demo.step = k BY StepTypes, ProgramShape
<1>3. /\ UNCHANGED <<net, inbox, brokerDesired, clock, machine, connected, demo,
                     lastFallback, brokerMode, log, broker, observer, service, telemetry>>
      /\ main.pc = "idle" /\ main'.pc = "tick" /\ main'.now = clock /\ main'.fresh = FALSE
      /\ ~Deciding' /\ ~Deciding /\ ~Busy /\ Busy'
      /\ device' = OnSensorReading(device, Current.reading)
  BY DEF SendReading, PublishSample, worldVars, brokerVars, Deciding, Busy
<1>4. /\ Last \in Nat /\ Last >= 27 /\ SampleInterval \in Nat /\ MinFanOff \in Nat
      /\ FanOnPercent \in Int /\ FanOffPercent \in Int /\ FailureLimit \in Nat
      /\ device.failures \in Nat /\ device.lastHumidity \in Int
      /\ Sent' = Sent
  BY <1>1, <1>3, SentType, Numbers DEF ScriptInv, ScriptTypes
<1>5. PICK c \in Nat, w \in Nat : clock = c /\ demo.wake = w
  BY <1>1 DEF DemoTypes, ScriptInv, ScriptTypes
<1>6. /\ k \in {7, 10, 13, 17, 20, 26} \/ k = Last + 4 \/ k \in InvalidSends
      /\ c >= w
  <2>1. demo.step \in Where("send") /\ clock >= demo.wake BY AtStep DEF SendReading
  <2>2. QED BY <1>2, <1>5, <2>1, WhereIs
<1>7. k \in InvalidSends => k >= 28 /\ k <= Last /\ k % 2 = 0 BY <1>4 DEF InvalidSends
<1>b. ~InRange(Current.reading) =>
         device' = [device EXCEPT !.failures = IF @ < FailureLimit THEN @ + 1 ELSE @]
  BY <1>3 DEF OnSensorReading
<1>8. /\ Record(device', DOMAIN NewController)
      /\ device'.relayOn = device.relayOn
      /\ device'.lastChangeTime = device.lastChangeTime
      /\ device'.relayOnSince = device.relayOnSince
      /\ device'.mqttReceived = device.mqttReceived
      /\ device'.mqttDesiredOn = device.mqttDesiredOn
      /\ device'.mqttIssuedAt = device.mqttIssuedAt
      /\ device'.hasValidReading \in BOOLEAN /\ device'.failures \in Nat
  <2>1. Record(device, DOMAIN NewController) /\ device.hasValidReading \in BOOLEAN
    BY <1>1 DEF DemoTypes, ScriptInv, ScriptTypes
  <2>2. CASE InRange(Current.reading)
    <3>1. device' = [device EXCEPT !.failures = 0, !.hasValidReading = TRUE,
                                   !.lastHumidity = Current.reading.humidity]
      BY <1>3, <2>2 DEF OnSensorReading
    <3>2. QED BY <2>1, <3>1 DEF Record, NewController
  <2>3. CASE ~InRange(Current.reading)
    <3>1. device' = [device EXCEPT !.failures = IF @ < FailureLimit THEN @ + 1 ELSE @]
      BY <1>b, <2>3
    <3>2. QED BY <1>4, <2>1, <3>1 DEF Record, NewController
  <2>4. QED BY <2>2, <2>3
<1>9. ASSUME NEW h \in {40, 50, 65, 80, 85}, Current = Send(h)
      PROVE  Humid(h)'
  <2>1. InRange(Current.reading) /\ Current.reading.humidity = h
    <3>1. /\ Current.reading.humidity = h /\ Current.reading.valid = (h \in 0 .. 100)
      BY <1>9 DEF Send
    <3>2. h \in 0 .. 100 BY <1>9
    <3>3. h \in HumidityMin .. HumidityMax BY <1>9 DEF DemoTimings
    <3>4. QED BY <3>1, <3>2, <3>3 DEF InRange
  <2>2. Record(device, DOMAIN NewController) BY DEF DemoTypes
  <2>3. QED BY <1>3, <2>1, <2>2 DEF OnSensorReading, Record, NewController, Humid
<1>10. /\ k = 7 \/ k = Last + 4 => Humid(40)'
       /\ k = 10 => Humid(80)'
       /\ k = 13 => Humid(65)'
       /\ k = 17 \/ k = 26 => Humid(50)'
       /\ k = 20 => Humid(85)'
  <2>1. k = 7 \/ k = Last + 4 => Current = Send(40)
    BY <1>2, FirstPart, LastPart DEF Current
  <2>2. /\ k = 10 => Current = Send(80)
        /\ k = 13 => Current = Send(65)
        /\ k = 17 \/ k = 26 => Current = Send(50)
        /\ k = 20 => Current = Send(85)
    BY <1>2, FirstPart DEF Current
  <2>3. QED BY <1>9, <2>1, <2>2
<1>11. ASSUME k \in InvalidSends
       PROVE  /\ device'.hasValidReading = device.hasValidReading
              /\ device'.lastHumidity = device.lastHumidity
              /\ k <= 2 * device.failures + 28 => k + 2 <= 2 * device'.failures + 28
  <2>1. Current = Send(999)
    <3>1. k \in 28 .. Last /\ k % 2 = 0 BY <1>4, <1>7, <1>11
    <3>2. \A i \in 28 .. Last :
            Program[i] = IF i % 2 = 0 THEN Send(999) ELSE Sleep(SampleInterval)
      BY Table
    <3>3. QED BY <1>2, <3>1, <3>2 DEF Current
  <2>2. ~InRange(Current.reading)
    <3>1. Send(999).reading.valid => 999 \in 0 .. 100 BY DEF Send
    <3>2. 999 \notin 0 .. 100 OBVIOUS
    <3>3. ~Current.reading.valid BY <2>1, <3>1, <3>2
    <3>4. QED BY <3>3 DEF InRange
  <2>3. device' = [device EXCEPT !.failures = IF @ < FailureLimit THEN @ + 1 ELSE @]
    BY <1>b, <2>2
  <2>4. Record(device, DOMAIN NewController) BY DEF DemoTypes
  <2>5. /\ device'.hasValidReading = device.hasValidReading
        /\ device'.lastHumidity = device.lastHumidity
        /\ device'.failures = IF device.failures < FailureLimit THEN device.failures + 1
                              ELSE device.failures
    BY <2>3, <2>4 DEF Record, NewController
  <2>6. k <= 26 + 2 * FailureLimit
    <3>1. k <= 27 + 2 * FailureLimit /\ k % 2 = 0 BY <1>7, <1>11 DEF Last
    <3>2. PICK i \in Int : k = 2 * i
      <4>1. k = 2 * (k \div 2) + (k % 2) /\ k \div 2 \in Int OBVIOUS
      <4>2. QED BY <3>1, <4>1
    <3>3. QED BY <1>4, <3>1, <3>2
  <2>7. k <= 2 * device.failures + 28 => k + 2 <= 2 * device'.failures + 28
    BY <1>4, <2>5, <2>6
  <2>8. QED BY <2>5, <2>7
<1>12. k = 20 \/ k = 26 => Clear BY <1>1, <1>2, <1>5, <1>6, ClearBefore
<1>13. /\ Stale' = Stale /\ Clear' = Clear /\ Ripe' = Ripe
  BY <1>3, <1>8 DEF Stale, Clear, Ripe
<1>14. device'.lastHumidity \in Int
  <2>1. CASE k \in InvalidSends BY <1>4, <1>11, <2>1
  <2>2. QED BY <1>6, <1>10, <2>1 DEF Humid
<1>15. 50 <= FanOffPercent /\ FanOffPercent < 65 BY DEF DemoTimings
<1>16. /\ k = 17 => clock <= w
       /\ \A t : Underway(t)' = Underway(t) /\ Known(t)' = Known(t)
       /\ \A on : Says(on)' = Says(on)
       /\ \A h : Reported(h)' = Reported(h)
  BY <1>1, <1>2, <1>3, <1>5, <1>8 DEF ScriptInv, Times, Underway, Known, Says, Reported
<1> HIDE DEF Sent
<1>21. ScriptTypes'
  <2>1. /\ device'.relayOn \in BOOLEAN /\ device'.mqttReceived \in BOOLEAN
        /\ device'.mqttDesiredOn \in BOOLEAN /\ device'.lastChangeTime \in Int
        /\ device'.relayOnSince \in Int /\ main'.fresh \in BOOLEAN
    BY <1>1, <1>3, <1>8 DEF ScriptInv, ScriptTypes
  <2>2. device'.hasValidReading \in BOOLEAN /\ device'.failures \in Nat BY <1>8
  <2>3. QED BY <1>1, <1>3, <1>14, <2>1, <2>2 DEF ScriptInv, ScriptTypes
<1>22. Times'
  BY <1>1, <1>2, <1>3, <1>4, <1>5, <1>6, <1>7, <1>8, <1>10, <1>11, <1>12, <1>13, <1>14,
     <1>15 DEF ScriptInv, Times, Busy
<1>23. BrokerInv'
  BY <1>1, <1>2, <1>3, <1>4, <1>5, <1>6, <1>7, <1>8, <1>10, <1>11, <1>12, <1>13, <1>14,
     <1>15 DEF ScriptInv, BrokerInv
<1>24. ServiceInv'
  <2>1. k # 5 /\ (k = Last + 4 => service.state = "up")
    <3>1. SUFFICES ASSUME k = Last + 4, service.state # "up" PROVE FALSE
      BY <1>4, <1>6, <1>7
    <3>2. /\ service.state = "starting"
          /\ service.since + ServicePause = w /\ c <= service.since + StartupMax
      BY <1>1, <1>2, <1>3, <1>4, <1>5, <3>1 DEF ScriptInv, ServiceInv
    <3>3. /\ service.since \in Nat /\ ServicePause \in Nat /\ StartupMax \in Nat
          /\ StartupMax < ServicePause
      BY Numbers DEF DemoTypes, DemoTimings
    <3>4. QED BY <1>6, <3>2, <3>3
  <2>2. QED
    BY <1>1, <1>2, <1>3, <1>4, <2>1, SMTT(40) DEF ScriptInv, ServiceInv, Busy
<1>25. QueueInv'
  BY SMTT(40), <1>1, <1>2, <1>3, <1>4, <1>5, <1>6, <1>7, <1>8, <1>10, <1>11, <1>12,
     <1>13, <1>14, <1>15 DEF ScriptInv, QueueInv, Busy, Clear
<1>26. FreshInv'
  BY <1>1, <1>2, <1>3, <1>4, <1>5, <1>6, <1>7, <1>8, <1>10, <1>11, <1>12, <1>13, <1>14,
     <1>15 DEF ScriptInv, FreshInv, Underway, Known, Clear, Deciding
<1>27. OffInv'
  <2>1. k <= 9 => k = 7 BY <1>4, <1>6, <1>7
  <2>2. k = 7 => device'.lastHumidity <= FanOffPercent BY <1>10, <1>15, <1>4 DEF Humid
  <2>3. QED
    BY <1>1, <1>2, <1>3, <1>4, <1>8, <2>1, <2>2, SMTT(40)
    DEF ScriptInv, OffInv, Says, Reported
<1>28. RiseInv'
  BY SMTT(40), <1>1, <1>2, <1>3, <1>4, <1>5, <1>6, <1>7, <1>8, <1>10, <1>11, <1>12,
     <1>13, <1>14, <1>15 DEF ScriptInv, RiseInv, Says, Reported, Humid, Clear, Busy
<1>29. HoldInv'
  <2>1. k \in 12 .. 16 => k = 13 BY <1>4, <1>6, <1>7
  <2>2. k = 13 => /\ device'.hasValidReading /\ device'.failures = 0
                 /\ device'.lastHumidity >= 65
    BY <1>10 DEF Humid
  <2>3. QED
    BY <1>1, <1>2, <1>3, <1>4, <1>8, <2>1, <2>2, SMTT(40)
    DEF ScriptInv, HoldInv, Says, Reported
<1>30. FallInv'
  BY SMTT(40), <1>1, <1>2, <1>3, <1>4, <1>5, <1>6, <1>7, <1>8, <1>10, <1>11, <1>12,
     <1>13, <1>14, <1>15 DEF ScriptInv, FallInv, FallAnswer, Says, Reported, Humid, Clear,
     Busy, Underway, Known
<1>31. CutoffInv'
  BY SMTT(40), <1>1, <1>2, <1>3, <1>4, <1>5, <1>6, <1>7, <1>8, <1>10, <1>11, <1>12,
     <1>13, <1>14, <1>15 DEF ScriptInv, CutoffInv, CutoffAnswer, Says, Reported, Humid,
     Clear, Busy, Underway, Known, Stale, Running, Ripe, Deciding
<1>32. StoppedInv'
  <2>1. k >= 27 => k = Last + 4 \/ k \in InvalidSends BY <1>4, <1>6, <1>7
  <2>2. k = 26 \/ k = Last + 4 => device'.lastHumidity <= FanOffPercent
    BY <1>4, <1>10, <1>15 DEF Humid
  <2>3. k \in InvalidSends =>
          /\ device'.lastHumidity = device.lastHumidity
          /\ k <= 2 * device.failures + 28 => k + 2 <= 2 * device'.failures + 28
    BY <1>11
  <2>4. ~Deciding' /\ Stale' = Stale /\ Busy' /\ ~Busy /\ demo'.step = k
    BY <1>2, <1>3, <1>13
  <2>5. QED
    BY <1>1, <1>2, <1>3, <1>4, <1>8, <1>14, <2>1, <2>2, <2>3, <2>4, SMTT(40)
    DEF ScriptInv, StoppedInv
<1>33. RecoveryInv'
  BY SMTT(40), <1>1, <1>2, <1>3, <1>4, <1>5, <1>6, <1>7, <1>8, <1>10, <1>11, <1>12,
     <1>13, <1>14, <1>15 DEF ScriptInv, RecoveryInv, Reported, Says, Stale, Deciding,
     Underway, Known, Clear
<1>34. LogInv'
  BY <1>1, <1>2, <1>3, <1>4, <1>5, <1>6, <1>7, <1>8, <1>10, <1>11, <1>12, <1>13, <1>14,
     <1>15 DEF ScriptInv, LogInv
<1>35. SeenInv'
  BY <1>1, <1>2, <1>3, <1>4, <1>5, <1>6, <1>7, <1>8, <1>10, <1>11, <1>12, <1>13, <1>14,
     <1>15 DEF ScriptInv, SeenInv
<1>36. QED BY <1>21, <1>22, <1>23, <1>24, <1>25, <1>26, <1>27, <1>28, <1>29, <1>30,
   <1>31, <1>32, <1>33, <1>34, <1>35 DEF ScriptInv

-----------------------------------------------------------------------------
(* The answers of the service *)

\* How the service's rule decides on a reading, and what becomes of the rule.
Answered(rule, h, now, new) ==
  LET want   == h >= FanOnPercent \/ (h > FanOffPercent /\ rule.relayOn)
      cutoff == /\ rule.relayOn /\ rule.relayOnSince # -1
                /\ now - rule.relayOnSince >= MaxRuntime
      holds  == /\ rule.relayOn => now - rule.lastChangeTime < MinFanOn
                /\ ~rule.relayOn => now - rule.lastChangeTime < MinFanOff
  IN  /\ Record(new, DOMAIN R!NewRule) /\ new.relayOn \in BOOLEAN
      /\ cutoff => ~new.relayOn
      /\ ~cutoff /\ holds => (new.relayOn <=> rule.relayOn)
      /\ ~cutoff /\ ~holds => (new.relayOn <=> want)
      /\ (new.relayOn <=> rule.relayOn) =>
           /\ new.lastChangeTime = rule.lastChangeTime
           /\ new.relayOnSince = rule.relayOnSince
      /\ ~(new.relayOn <=> rule.relayOn) =>
           /\ new.lastChangeTime = now
           /\ new.relayOnSince = IF new.relayOn THEN now ELSE -1

\* What the service makes of a reading of the script.
LEMMA RuleAnswers ==
  ASSUME DemoTimings, NEW rule, Record(rule, DOMAIN R!NewRule), rule.relayOn \in BOOLEAN,
         rule.lastChangeTime \in Int, rule.relayOnSince \in Int,
         NEW h \in {40, 50, 65, 80, 85}, NEW now \in Int, NEW new,
         new = R!Evaluated(R!OnReading(rule, Send(h).reading, now), now)
  PROVE  Answered(rule, h, now, new)
<1> DEFINE heard == R!OnReading(rule, Send(h).reading, now)
           on    == R!RuleOutcome(heard, now).on
<1>1. R!InRange(Send(h).reading) /\ Send(h).reading.humidity = h
  <2>1. /\ Send(h).reading.humidity = h /\ Send(h).reading.valid = (h \in 0 .. 100)
        /\ Send(h).reading.temperature = 0
    BY DEF Send
  <2>2. h \in 0 .. 100 /\ h \in HumidityMin .. HumidityMax BY DEF DemoTimings
  <2>3. Send(h).reading.valid BY <2>1, <2>2
  <2>4. Send(h).reading.temperature \in 0 .. 0 BY <2>1
  <2>5. Send(h).reading.humidity \in HumidityMin .. HumidityMax BY <2>1, <2>2
  <2>6. QED BY <2>1, <2>3, <2>4, <2>5 DEF R!InRange
<1>2. /\ Record(heard, DOMAIN R!NewRule)
      /\ heard.relayOn = rule.relayOn /\ heard.lastChangeTime = rule.lastChangeTime
      /\ heard.relayOnSince = rule.relayOnSince
      /\ heard.hasValidReading = TRUE /\ heard.failures = 0 /\ heard.lastHumidity = h
  <2>1. heard = [rule EXCEPT !.failures = 0, !.hasValidReading = TRUE,
                             !.lastHumidity = h, !.riseBuffer = rule.riseBuffer]
    BY <1>1 DEF R!OnReading
  <2> HIDE DEF heard
  <2>2. QED BY <2>1 DEF Record, R!NewRule
<1> HIDE DEF heard
<1>3. FanOnPercent \in Int /\ FanOffPercent \in Int /\ FailureLimit >= 1
      /\ MinFanOn \in Nat /\ MinFanOff \in Nat /\ MaxRuntime \in Nat
      /\ FanOffPercent < FanOnPercent /\ FailureLimit \in Nat
  BY Numbers DEF DemoTimings
<1>4. R!Candidate(heard, now).on = IF h >= FanOnPercent THEN TRUE
                                  ELSE IF h <= FanOffPercent THEN FALSE ELSE rule.relayOn
  <2>1. ~R!RuleFailed(heard)
    <3>1. heard.hasValidReading /\ ~(heard.failures >= FailureLimit) BY <1>2, <1>3
    <3>2. QED BY <3>1 DEF R!RuleFailed
  <2>2. ~R!RuleRiseTriggered(heard, now) BY DEF R!RuleRiseTriggered
  <2>3. R!Candidate(heard, now) = R!Band(heard) BY <2>1, <2>2 DEF R!Candidate
  <2>4. QED BY <1>2, <2>3 DEF R!Band
<1>5. PICK w \in BOOLEAN :
        /\ R!Candidate(heard, now).on = w
        /\ w <=> h >= FanOnPercent \/ (h > FanOffPercent /\ rule.relayOn)
  <2>1. R!Candidate(heard, now).on \in BOOLEAN BY <1>4
  <2>2. R!Candidate(heard, now).on
          <=> h >= FanOnPercent \/ (h > FanOffPercent /\ rule.relayOn)
    BY <1>3, <1>4
  <2>3. QED BY <2>1, <2>2
<1>6. /\ R!RuleCutoff(heard, now) <=>
            rule.relayOn /\ rule.relayOnSince # -1 /\ now - rule.relayOnSince >= MaxRuntime
      /\ R!RuleHolds(heard, now) <=>
            /\ rule.relayOn => now - rule.lastChangeTime < MinFanOn
            /\ ~rule.relayOn => now - rule.lastChangeTime < MinFanOff
  BY <1>2 DEF R!RuleCutoff, R!RuleHolds, R!Never
<1>7. on = IF R!RuleCutoff(heard, now) THEN FALSE
           ELSE IF w # rule.relayOn /\ R!RuleHolds(heard, now) THEN rule.relayOn ELSE w
  BY <1>2, <1>5 DEF R!RuleOutcome
<1>8. new = IF on = rule.relayOn THEN heard
            ELSE [heard EXCEPT !.relayOn = on, !.lastChangeTime = now,
                               !.relayOnSince = IF on THEN now ELSE -1]
  BY <1>2 DEF R!Evaluated, R!Never, heard
<1> HIDE DEF on
<1>9. on \in BOOLEAN BY <1>7
<1>10. /\ Record(new, DOMAIN R!NewRule) /\ new.relayOn = on
       /\ on = rule.relayOn =>
            /\ new.lastChangeTime = rule.lastChangeTime
            /\ new.relayOnSince = rule.relayOnSince
       /\ on # rule.relayOn =>
            /\ new.lastChangeTime = now
            /\ new.relayOnSince = IF on THEN now ELSE -1
  <2>1. CASE on = rule.relayOn BY <1>2, <1>8, <2>1
  <2>2. CASE on # rule.relayOn
    <3>1. new = [heard EXCEPT !.relayOn = on, !.lastChangeTime = now,
                              !.relayOnSince = IF on THEN now ELSE -1]
      BY <1>8, <2>2
    <3>2. QED BY <1>2, <2>2, <3>1 DEF Record, R!NewRule
  <2>3. QED BY <2>1, <2>2
<1>11. QED BY <1>5, <1>6, <1>7, <1>9, <1>10 DEF Answered

\* The service answers a reading.
LEMMA FineAnswer ==
  ASSUME DemoTimings, DemoTypes, ScriptInv, InScript, ServiceHandles
  PROVE  ScriptInv'
<1>1. ScriptInv BY DEF ScriptInv
<1>2. PICK k \in Nat : demo.step = k BY StepTypes, ProgramShape
<1>3. /\ UNCHANGED <<device, main, net, clock, machine, connected, demo, lastFallback,
                     brokerMode, log, broker, observer>>
      /\ service.state = "up" /\ telemetry # <<>>
  BY DEF ServiceHandles
<1>4. /\ Last \in Nat /\ Last >= 27 /\ MaxDelay \in Nat /\ Second \in Nat /\ Second > 0
      /\ SampleInterval \in Nat /\ MinFanOn \in Nat /\ MinFanOff \in Nat
      /\ MaxRuntime \in Nat /\ StaleTimeout \in Nat /\ Poll \in Nat
      /\ ServicePause \in Nat /\ FanOnPercent \in Int /\ FanOffPercent \in Int
      /\ net.issuedAt \in Int /\ device.lastChangeTime \in Int
  BY <1>1, Numbers DEF ScriptInv, ScriptTypes, DemoTypes
<1>5. PICK c \in Nat, e \in Nat, s \in Int, q \in Int, i \in Int :
        /\ clock = c /\ machine.epoch = e /\ Sent = s /\ Sent' = s
        /\ Head(telemetry).queuedAt = q /\ device.mqttIssuedAt = i
  <2>1. Head(telemetry).queuedAt \in Int BY <1>1, <1>3 DEF ScriptInv, ScriptTypes
  <2>2. Sent \in Int /\ Sent' = Sent BY <1>1, <1>3, SentType DEF ScriptInv
  <2>3. QED BY <2>1, <2>2 DEF DemoTypes
<1>6. /\ telemetry = <<Head(telemetry)>> /\ telemetry' = <<>>
      /\ q <= s /\ s <= c /\ c <= q + MaxDelay /\ inbox = <<>>
  <2>1. telemetry = <<Head(telemetry)>> BY <1>1, <1>3 DEF ScriptInv, ScriptTypes
  <2>2. Tail(telemetry) = <<>>
    <3>1. PICK x : telemetry = <<x>> BY <2>1
    <3>2. QED BY <3>1
  <2>3. QED BY <1>1, <1>3, <1>5, <2>1, <2>2 DEF ScriptInv, QueueInv, Times, ServiceHandles
<1>7. /\ \/ k = 8 \/ k = 9 \/ k = 11 \/ k = 14 \/ k = 15 \/ k = 18 \/ k = 19 \/ k = 20
         \/ k = 21 \/ k = 22 \/ k = 23 \/ k = 24 \/ k = Last + 5
         \/ (k >= Last + 6 /\ k <= Last + 9)
      /\ ~Clear /\ connected
      /\ k = 20 => ~Busy
  <2>1. ~Clear BY <1>3 DEF Clear
  <2>2. k <= Last + 9 BY <1>2, StepTypes, ProgramShape, Numbers DEF InScript
  <2>3. /\ ~(k <= 7) /\ k # 10 /\ k # 16 /\ k # 17 /\ ~(k >= 25 /\ k <= Last + 4)
        /\ k = 20 => ~Busy
    BY <1>1, <1>2, <1>3, <1>4, <2>1 DEF ScriptInv, QueueInv
  <2>4. k # 12 /\ k # 13 BY <1>1, <1>2, <1>3 DEF ScriptInv, HoldInv
  <2>5. connected BY <1>1, <1>2, <1>4, <2>2, <2>3 DEF ScriptInv, SeenInv
  <2>6. QED BY <1>4, <2>1, <2>2, <2>3, <2>4, <2>5
<1>8. PICK n \in Int : n = e + c BY <1>5
<1>9. PICK h \in {40, 50, 65, 80, 85} : Head(telemetry).reading = Send(h).reading
  BY <1>1, <1>3 DEF ScriptInv, ScriptTypes
<1>10. PICK new : new = R!Evaluated(R!OnReading(service.rule, Send(h).reading, n), n)
  OBVIOUS
<1>11. /\ service'.state = "up" /\ service'.since = service.since /\ service'.rule = new
       /\ brokerDesired' = [on |-> new.relayOn, sentAt |-> IssuedAt, queuedAt |-> c]
       /\ inbox' = <<brokerDesired'>>
  <2>1. /\ service' = [service EXCEPT !.rule = new]
        /\ brokerDesired' = [on |-> new.relayOn, sentAt |-> IssuedAt, queuedAt |-> c]
        /\ inbox' = Append(inbox, brokerDesired')
    BY <1>5, <1>7, <1>8, <1>9, <1>10 DEF ServiceHandles
  <2>2. Append(<<>>, brokerDesired') = <<brokerDesired'>> OBVIOUS
  <2>3. QED BY <1>3, <1>6, <2>1, <2>2 DEF DemoTypes, Record
<1>12. PICK a \in Int : IssuedAt = a /\ a <= c /\ a >= (c - Second) + 1
  <2>1. (e + c) % Second \in Int /\ (e + c) % Second >= 0 /\ (e + c) % Second < Second
    BY <1>4, <1>5
  <2>2. IssuedAt = c - ((e + c) % Second) BY <1>5 DEF IssuedAt
  <2>3. QED BY <1>4, <2>1, <2>2
<1>13. /\ brokerDesired'.on = new.relayOn /\ brokerDesired'.sentAt = a
       /\ brokerDesired'.queuedAt = c /\ inbox' # <<>> /\ ~Clear'
  BY <1>11, <1>12 DEF Clear
<1>14. PICK o \in BOOLEAN, l \in Int, z \in Int :
         service.rule.relayOn = o /\ service.rule.lastChangeTime = l
         /\ service.rule.relayOnSince = z
  BY <1>1 DEF ScriptInv, ScriptTypes
<1>15. LET want   == h >= FanOnPercent \/ (h > FanOffPercent /\ o)
           cutoff == o /\ z # -1 /\ n - z >= MaxRuntime
           holds  == (o => n - l < MinFanOn) /\ (~o => n - l < MinFanOff)
       IN  /\ Record(new, DOMAIN R!NewRule) /\ new.relayOn \in BOOLEAN
           /\ cutoff => ~new.relayOn
           /\ ~cutoff /\ holds => (new.relayOn <=> o)
           /\ ~cutoff /\ ~holds => (new.relayOn <=> want)
           /\ (new.relayOn <=> o) => new.lastChangeTime = l /\ new.relayOnSince = z
           /\ ~(new.relayOn <=> o) =>
                /\ new.lastChangeTime = n
                /\ new.relayOnSince = IF new.relayOn THEN n ELSE -1
  <2>1. Record(service.rule, DOMAIN R!NewRule) BY <1>1 DEF ScriptInv, ScriptTypes
  <2>2. Answered(service.rule, h, n, new)
    <3>1. /\ service.rule.relayOn \in BOOLEAN /\ service.rule.lastChangeTime \in Int
          /\ service.rule.relayOnSince \in Int
      BY <1>14
    <3>2. QED BY <1>8, <1>9, <1>10, <2>1, <3>1, RuleAnswers
  <2>3. QED BY <1>14, <2>2 DEF Answered
<1>16. PICK p \in BOOLEAN, m \in Int, y \in Int :
         /\ new.relayOn = p /\ new.lastChangeTime = m /\ new.relayOnSince = y
         /\ (p <=> o) => m = l /\ y = z
         /\ ~(p <=> o) => m = n /\ y = IF p THEN n ELSE -1
  BY <1>15
<1>17. /\ p <=> CASE o /\ z # -1 /\ n - z >= MaxRuntime -> FALSE
                [] OTHER -> IF o THEN IF n - l < MinFanOn THEN TRUE
                                      ELSE h > FanOffPercent \/ h >= FanOnPercent
                            ELSE IF n - l < MinFanOff THEN FALSE ELSE h >= FanOnPercent
  BY <1>4, <1>14, <1>15, <1>16
<1>18. /\ 40 <= FanOffPercent /\ 50 <= FanOffPercent /\ ~(40 >= FanOnPercent)
       /\ ~(50 >= FanOnPercent) /\ 65 > FanOffPercent /\ 80 >= FanOnPercent
       /\ 85 >= FanOnPercent
  BY <1>4 DEF DemoTimings
<1>19. /\ Send(40).reading.humidity = 40 /\ Send(50).reading.humidity = 50
       /\ Send(65).reading.humidity = 65 /\ Send(80).reading.humidity = 80
       /\ Send(85).reading.humidity = 85 /\ Send(h).reading.humidity = h
  BY DEF Send
<1>20. /\ k = 8 \/ k = 9 => h = 40 /\ ~o /\ l = 0
       /\ k = 11 => h = 80 /\ ~o /\ l = 0
       /\ k = 14 \/ k = 15 => /\ h = 65 /\ o /\ l = z /\ z <= n
                               /\ z + (2 * MaxDelay + Poll) >= e + s
       /\ k = 18 \/ k = 19 \/ k = 20 => h = 50 /\ o /\ l + MinFanOn <= n
       /\ k = 21 \/ k = 22 => h = 85 /\ ~o
       /\ k = Last + 5 => h = 40 /\ ~o
  <2>1. k = 8 \/ k = 9 => h = 40 /\ ~o /\ l = 0
    BY <1>1, <1>2, <1>3, <1>9, <1>14, <1>19 DEF ScriptInv, OffInv, Reported, Says
  <2>2. k = 11 => h = 80 /\ ~o /\ l = 0
    BY <1>1, <1>2, <1>3, <1>9, <1>14, <1>19 DEF ScriptInv, RiseInv, Reported, Says
  <2>3. k = 14 \/ k = 15 => /\ h = 65 /\ o /\ l = z /\ z <= n
                            /\ z + (2 * MaxDelay + Poll) >= e + s
    BY <1>1, <1>2, <1>3, <1>5, <1>8, <1>9, <1>14, <1>19 DEF ScriptInv, HoldInv, Reported,
       Says
  <2>4. k = 18 \/ k = 19 \/ k = 20 => h = 50 /\ o /\ l + MinFanOn <= n
    BY <1>1, <1>2, <1>3, <1>5, <1>8, <1>9, <1>14, <1>19
    DEF ScriptInv, FallInv, FallAnswer, Reported, Says
  <2>5. k = 21 \/ k = 22 => h = 85 /\ ~o
    BY <1>1, <1>2, <1>3, <1>9, <1>14, <1>19 DEF ScriptInv, CutoffInv, CutoffAnswer, Reported
  <2>6. k = Last + 5 => h = 40 /\ ~o
    BY <1>1, <1>2, <1>3, <1>9, <1>14, <1>19 DEF ScriptInv, RecoveryInv, Reported, Says
  <2>7. QED BY <2>1, <2>2, <2>3, <2>4, <2>5, <2>6
<1>21. /\ k = 8 \/ k = 9 => ~p /\ m = 0
       /\ k = 11 => p /\ m = n /\ y = n
       /\ k = 14 \/ k = 15 => p /\ m = l /\ y = z
       /\ k = 18 \/ k = 19 \/ k = 20 => ~p /\ m = n
       /\ k = 21 \/ k = 22 =>
            /\ p => n - l >= MinFanOff
            /\ ~p => n - l < MinFanOff /\ m = l
       /\ k = Last + 5 => ~p
  <2>1. k = 8 \/ k = 9 => ~p /\ m = 0
    BY <1>4, <1>16, <1>17, <1>18, <1>20
  <2>2. k = 11 => p /\ m = n /\ y = n
    <3>1. k = 11 => c >= ServicePause + 2 * SampleInterval
      BY <1>1, <1>2, <1>5 DEF ScriptInv, Times
    <3>2. MinFanOff <= ServicePause + 2 * SampleInterval BY DEF DemoTimings
    <3>3. k = 11 => n - l >= MinFanOff BY <1>4, <1>5, <1>8, <1>20, <3>1, <3>2
    <3>4. QED BY <1>4, <1>16, <1>17, <1>18, <1>20, <3>3
  <2>3. k = 14 \/ k = 15 => p /\ m = l /\ y = z
    <3>1. 3 * MaxDelay + Poll < MaxRuntime BY DEF DemoTimings
    <3>2. k = 14 \/ k = 15 => n - z < MaxRuntime
      BY <1>4, <1>5, <1>6, <1>8, <1>20, <3>1
    <3>3. QED BY <1>4, <1>16, <1>17, <1>18, <1>20, <3>2
  <2>4. k = 18 \/ k = 19 \/ k = 20 => ~p /\ m = n
    BY <1>4, <1>8, <1>16, <1>17, <1>18, <1>20
  <2>5. k = 21 \/ k = 22 => /\ p => n - l >= MinFanOff
                            /\ ~p => n - l < MinFanOff /\ m = l
    BY <1>4, <1>8, <1>16, <1>17, <1>18, <1>20
  <2>6. k = Last + 5 => ~p
    BY <1>4, <1>8, <1>16, <1>17, <1>18, <1>20
  <2>7. QED BY <2>1, <2>2, <2>3, <2>4, <2>5, <2>6
<1>22. /\ service'.state = "up" /\ service'.since = service.since
       /\ service'.rule.relayOn = p /\ service'.rule.lastChangeTime = m
       /\ service'.rule.relayOnSince = y /\ Record(service'.rule, DOMAIN R!NewRule)
       /\ brokerDesired'.on = p
  BY <1>11, <1>13, <1>15, <1>16
<1>23. Stale' = Stale /\ Running' = Running /\ Deciding' = Deciding /\ Busy' = Busy
  BY <1>3 DEF Stale, Running, Deciding, Busy
<1> HIDE DEF Sent
<1>31. ScriptTypes'
  <2>1. brokerDesired'.on \in BOOLEAN /\ brokerDesired'.queuedAt \in Int BY <1>13, <1>22
  <2>2. QED BY <1>1, <1>3, <1>6, <1>11, <1>22, <2>1 DEF ScriptInv, ScriptTypes
<1>32. Times' BY <1>1, <1>3, <1>5, <1>6, SMTT(40) DEF ScriptInv, Times, Busy
<1>33. BrokerInv' BY <1>2, <1>3, <1>4, <1>7 DEF BrokerInv
<1>34. ServiceInv'
  <2>1. k # 24 => service.state = "up" BY <1>3
  <2>2. QED
    BY <1>1, <1>2, <1>3, <1>4, <1>6, <1>7, <1>22, <1>23, SMTT(40) DEF ScriptInv, ServiceInv
<1>35. QueueInv'
  <2>1. c <= s + MaxDelay BY <1>4, <1>5, <1>6
  <2>2. k > 7 /\ ~(k \in {10, 16, 17} \cup 27 .. Last + 4) /\ k # 26 BY <1>4, <1>7
  <2>3. k = 20 => ~Busy' BY <1>7, <1>23
  <2>4. QED
    BY <1>1, <1>2, <1>3, <1>4, <1>5, <1>6, <1>13, <2>1, <2>2, <2>3, SMTT(40)
    DEF ScriptInv, QueueInv
<1>36. FreshInv'
  BY SMTT(40), <1>1, <1>2, <1>3, <1>4, <1>5, <1>6, <1>7, <1>12, <1>13, <1>20, <1>21,
     <1>22, <1>23 DEF ScriptInv, FreshInv, Underway, Known, Clear, Deciding
<1>37. OffInv'
  BY SMTT(40), <1>1, <1>2, <1>3, <1>4, <1>5, <1>6, <1>7, <1>12, <1>13, <1>20, <1>21,
     <1>22, <1>23 DEF ScriptInv, OffInv, Says, Reported
<1>38. RiseInv'
  <2>1. k = 11 => n >= e + s /\ n <= e + c /\ ~device.mqttDesiredOn /\ net.pc = "idle"
    BY <1>1, <1>2, <1>3, <1>5, <1>6, <1>8 DEF ScriptInv, RiseInv, Says
  <2>2. k # 10 BY <1>4, <1>7
  <2>3. QED
    BY <1>1, <1>2, <1>3, <1>5, <1>6, <1>13, <1>21, <1>22, <2>1, <2>2, SMTT(40)
    DEF ScriptInv, RiseInv, Says, Reported, Humid
<1>39. HoldInv'
  <2>1. k \in 12 .. 17 => k = 14 \/ k = 15 BY <1>4, <1>7
  <2>2. k = 14 \/ k = 15 => m = y /\ p /\ y <= n /\ y + (2 * MaxDelay + Poll) >= e + s
    BY <1>20, <1>21
  <2>3. QED
    BY <1>1, <1>2, <1>3, <1>5, <1>6, <1>8, <1>22, <2>1, <2>2, SMTT(40)
    DEF ScriptInv, HoldInv, Says, Reported
<1>40. FallInv'
  <2>1. k # 17 BY <1>4, <1>7
  <2>2. k \in 18 .. 20 => FallAnswer'
    <3>1. SUFFICES ASSUME k \in 18 .. 20 PROVE FallAnswer' OBVIOUS
    <3>2. FallAnswer BY <1>1, <1>2, <3>1 DEF ScriptInv, FallInv
    <3>3. ~p /\ m = n BY <1>21, <3>1
    <3>4. net.pc = "idle" BY <1>3, <3>2 DEF FallAnswer
    <3>5. (m - (e + Second)) + 1 <= a BY <1>4, <1>8, <1>12, <3>3
    <3>6. QED
      BY <1>3, <1>5, <1>6, <1>8, <1>13, <1>22, <3>3, <3>4, <3>5
      DEF FallAnswer, Says, Reported, Underway
  <2>3. QED
    BY <1>1, <1>2, <1>3, <1>5, <1>23, <2>1, <2>2, SMTT(40) DEF ScriptInv, FallInv, Humid
<1>41. CutoffInv'
  <2>1. ASSUME CutoffAnswer, k = 21 \/ k = 22 PROVE CutoffAnswer'
    <3>1. /\ ~device.mqttDesiredOn /\ net.pc = "idle" /\ ~device.mqttDesiredOn'
          /\ i >= (l - (e + Second)) + 1 /\ i >= 0 /\ device.mqttReceived
      BY <1>3, <1>5, <1>14, <2>1 DEF CutoffAnswer, Known
    <3>2. Running => n - l >= MinFanOff
      BY <1>3, <1>4, <1>5, <1>8, <1>14, <2>1 DEF CutoffAnswer, Ripe
    <3>3. ~p => ~Running /\ i >= (s - (MinFanOff + Second)) + 2
      <4>1. SUFFICES ASSUME ~p PROVE ~Running /\ i >= (s - (MinFanOff + Second)) + 2
        OBVIOUS
      <4>2. n - l < MinFanOff BY <1>21, <2>1, <4>1
      <4>3. ~Running BY <1>4, <1>8, <3>2, <4>2
      <4>4. i >= (s - (MinFanOff + Second)) + 2
        BY <1>4, <1>5, <1>6, <1>8, <3>1, <4>2
      <4>5. QED BY <4>3, <4>4
    <3>4. QED
      BY <1>3, <1>5, <1>6, <1>13, <1>22, <1>23, <2>1, <3>1, <3>3, SMTT(40)
      DEF CutoffAnswer, Humid, Reported, Known, Says
  <2>2. k = 21 => a <= s + MaxDelay BY <1>4, <1>5, <1>6, <1>12
  <2>3. k = 20 => ~Deciding' /\ ~Busy' BY <1>7, <1>23 DEF Busy, Deciding
  <2>4. QED
    BY <1>1, <1>2, <1>3, <1>5, <1>13, <1>23, <2>1, <2>2, <2>3, SMTT(40)
    DEF ScriptInv, CutoffInv
<1>42. StoppedInv' BY <1>1, <1>3, <1>22, <1>23 DEF ScriptInv, StoppedInv
<1>43. RecoveryInv'
  BY SMTT(40), <1>1, <1>2, <1>3, <1>4, <1>5, <1>6, <1>7, <1>12, <1>13, <1>20, <1>21,
     <1>22, <1>23 DEF ScriptInv, RecoveryInv, Reported, Says, Stale, Deciding, Underway,
     Known, Clear
<1>44. LogInv' BY <1>1, <1>3 DEF ScriptInv, LogInv
<1>45. SeenInv' BY <1>1, <1>3, <1>5 DEF ScriptInv, SeenInv
<1>46. QED BY <1>31, <1>32, <1>33, <1>34, <1>35, <1>36, <1>37, <1>38, <1>39, <1>40,
   <1>41, <1>42, <1>43, <1>44, <1>45 DEF ScriptInv

-----------------------------------------------------------------------------
(* The decisions of the device, and what the script makes of them *)

\* How a tick of the device decides, and what becomes of the controller.
Decided(d, fresh, now, new, reason) ==
  LET failed == ~d.hasValidReading \/ d.failures >= FailureLimit
      want   == \/ fresh /\ d.mqttDesiredOn
                \/ ~fresh /\ failed /\ HoldLastState /\ d.relayOn
                \/ ~fresh /\ ~failed /\ d.lastHumidity >= FanOnPercent
                \/ ~fresh /\ ~failed /\ d.lastHumidity > FanOffPercent /\ d.relayOn
      cutoff == d.relayOn /\ d.relayOnSince # -1 /\ now - d.relayOnSince >= MaxRuntime
      holds  == /\ d.relayOn => now - d.lastChangeTime < MinFanOn
                /\ ~d.relayOn => now - d.lastChangeTime < MinFanOff
  IN  /\ Record(new, DOMAIN NewController) /\ new.relayOn \in BOOLEAN
      /\ cutoff => ~new.relayOn /\ reason = "max_runtime_cutoff"
      /\ ~cutoff /\ holds => (new.relayOn <=> d.relayOn)
      /\ ~cutoff /\ ~holds => (new.relayOn <=> want)
      /\ ~cutoff /\ (want <=> d.relayOn) =>
           /\ new.relayOn <=> d.relayOn
           /\ ~fresh /\ failed => reason = "sensor_invalid_safe_state"
      /\ (new.relayOn <=> d.relayOn) =>
           /\ new.lastChangeTime = d.lastChangeTime
           /\ new.relayOnSince = d.relayOnSince
      /\ ~(new.relayOn <=> d.relayOn) =>
           /\ new.lastChangeTime = now
           /\ new.relayOnSince = IF new.relayOn THEN now ELSE -1
      /\ new.hasValidReading = d.hasValidReading /\ new.failures = d.failures
      /\ new.lastHumidity = d.lastHumidity /\ new.mqttReceived = d.mqttReceived
      /\ new.mqttDesiredOn = d.mqttDesiredOn /\ new.mqttIssuedAt = d.mqttIssuedAt

\* What a tick does.
LEMMA DeviceDecides ==
  ASSUME DemoTimings, NEW d, Record(d, DOMAIN NewController), d.relayOn \in BOOLEAN,
         d.mqttDesiredOn \in BOOLEAN, d.hasValidReading \in BOOLEAN,
         d.lastHumidity \in Int, d.failures \in Nat,
         d.lastChangeTime \in Int, d.relayOnSince \in Int,
         NEW fresh \in BOOLEAN, NEW now \in Int, NEW new, NEW reason,
         new = Ticked(d, fresh, now), reason = Outcome(d, fresh, now).reason
  PROVE  Decided(d, fresh, now, new, reason)
<1>1. /\ FanOnPercent \in Int /\ FanOffPercent \in Int /\ FailureLimit \in Nat
      /\ MinFanOn \in Nat /\ MinFanOff \in Nat /\ MaxRuntime \in Nat
      /\ FanOffPercent < FanOnPercent /\ HoldLastState \in BOOLEAN
  BY Numbers, DeviceAssumption DEF DemoTimings
<1> DEFINE candidate == Candidate(d, fresh)
           failed == ~d.hasValidReading \/ d.failures >= FailureLimit
           on == Outcome(d, fresh, now).on
<1>2. PICK w \in BOOLEAN :
        /\ candidate.on = w
        /\ w <=> \/ fresh /\ d.mqttDesiredOn
                 \/ ~fresh /\ failed /\ HoldLastState /\ d.relayOn
                 \/ ~fresh /\ ~failed /\ d.lastHumidity >= FanOnPercent
                 \/ ~fresh /\ ~failed /\ d.lastHumidity > FanOffPercent /\ d.relayOn
        /\ ~fresh /\ failed => candidate.reason = "sensor_invalid_safe_state"
  <2>1. SensorFailed(d) <=> failed BY DEF SensorFailed
  <2>2. CASE fresh
    <3>1. candidate.on = d.mqttDesiredOn BY <2>2 DEF Candidate
    <3>2. QED BY <2>2, <3>1
  <2>3. CASE ~fresh /\ failed
    <3>1. /\ candidate.on = (HoldLastState /\ d.relayOn)
          /\ candidate.reason = "sensor_invalid_safe_state"
      BY <2>1, <2>3 DEF Candidate
    <3>2. QED BY <1>1, <2>3, <3>1
  <2>4. CASE ~fresh /\ ~failed
    <3>1. candidate.on = IF d.lastHumidity >= FanOnPercent THEN TRUE
                         ELSE IF d.lastHumidity <= FanOffPercent THEN FALSE ELSE d.relayOn
      BY <2>1, <2>4 DEF Candidate
    <3> HIDE DEF candidate
    <3>2. CASE d.lastHumidity >= FanOnPercent BY <1>1, <2>4, <3>1, <3>2
    <3>3. CASE ~(d.lastHumidity >= FanOnPercent) /\ d.lastHumidity <= FanOffPercent
      <4>1. candidate.on = FALSE BY <3>1, <3>3
      <4>2. ~(d.lastHumidity > FanOffPercent) BY <1>1, <3>3
      <4>3. QED BY <2>4, <3>3, <4>1, <4>2
    <3>4. CASE ~(d.lastHumidity >= FanOnPercent) /\ ~(d.lastHumidity <= FanOffPercent)
      <4>1. candidate.on = d.relayOn BY <3>1, <3>4
      <4>2. d.lastHumidity > FanOffPercent BY <1>1, <3>4
      <4>3. QED BY <2>4, <3>4, <4>1, <4>2
    <3>5. QED BY <3>2, <3>3, <3>4
  <2>5. QED BY <2>2, <2>3, <2>4
<1>3. PICK r \in BOOLEAN : d.relayOn = r OBVIOUS
<1>4. /\ MaxRuntimeExceeded(d, now) <=>
            r /\ d.relayOnSince # -1 /\ now - d.relayOnSince >= MaxRuntime
      /\ DwellHolds(d, now) <=>
            /\ r => now - d.lastChangeTime < MinFanOn
            /\ ~r => now - d.lastChangeTime < MinFanOff
  BY <1>3 DEF MaxRuntimeExceeded, DwellHolds, Never
<1> HIDE DEF candidate
<1>5. /\ on = IF MaxRuntimeExceeded(d, now) THEN FALSE
              ELSE IF w # r /\ DwellHolds(d, now) THEN r ELSE w
      /\ MaxRuntimeExceeded(d, now) => reason = "max_runtime_cutoff"
      /\ ~MaxRuntimeExceeded(d, now) /\ w = r => reason = candidate.reason
  BY <1>2, <1>3 DEF Outcome, candidate
<1>6. new = IF on = r THEN d
            ELSE [d EXCEPT !.relayOn = on, !.lastChangeTime = now,
                           !.relayOnSince = IF on THEN now ELSE -1]
  BY <1>3 DEF Ticked, Never
<1> HIDE DEF on
<1>7. on \in BOOLEAN BY <1>5
<1>8. /\ Record(new, DOMAIN NewController) /\ new.relayOn = on
      /\ on = r =>
           /\ new.lastChangeTime = d.lastChangeTime
           /\ new.relayOnSince = d.relayOnSince
      /\ on # r =>
           /\ new.lastChangeTime = now
           /\ new.relayOnSince = IF on THEN now ELSE -1
      /\ new.hasValidReading = d.hasValidReading /\ new.failures = d.failures
      /\ new.lastHumidity = d.lastHumidity /\ new.mqttReceived = d.mqttReceived
      /\ new.mqttDesiredOn = d.mqttDesiredOn /\ new.mqttIssuedAt = d.mqttIssuedAt
  <2>1. CASE on = r BY <1>3, <1>6, <2>1
  <2>2. CASE on # r
    <3>1. new = [d EXCEPT !.relayOn = on, !.lastChangeTime = now,
                          !.relayOnSince = IF on THEN now ELSE -1]
      BY <1>6, <2>2
    <3>2. QED BY <2>2, <3>1 DEF Record, NewController
  <2>3. QED BY <2>1, <2>2
<1>9. QED BY <1>2, <1>3, <1>4, <1>5, <1>7, <1>8 DEF Decided

\* A tick ends, and the script goes on or waits for another.
LEMMA FineTick ==
  ASSUME DemoTimings, DemoTypes, TickInv, WordInv, ScriptInv, InScript, FinishDemoTick
  PROVE  ScriptInv' /\ (demo' = Continued \/ demo' = Again)
<1>1. ScriptInv BY DEF ScriptInv
<1>2. PICK k \in Nat : demo.step = k BY StepTypes, ProgramShape
<1>3. /\ UNCHANGED <<net, inbox, brokerDesired, clock, machine, connected, broker,
                     observer, service>>
      /\ main.pc = "decide" /\ main'.pc = "idle" /\ main'.fresh \in BOOLEAN
      /\ Busy /\ Deciding /\ ~Busy' /\ ~Deciding'
      /\ device' = Ticked(device, main.fresh, main.now)
  BY DEF FinishDemoTick, FinishTick, MainIdle, Busy, Deciding
<1>4. /\ Last \in Nat /\ Last >= 27 /\ MaxDelay \in Nat /\ Second \in Nat /\ Second > 0
      /\ SampleInterval \in Nat /\ MinFanOn \in Nat /\ MinFanOff \in Nat
      /\ MaxRuntime \in Nat /\ MaxRuntime > 0 /\ StaleTimeout \in Nat /\ Poll \in Nat
      /\ Poll > 0 /\ ServicePause \in Nat /\ FanOnPercent \in Int /\ FanOffPercent \in Int
      /\ FailureLimit \in Nat /\ Patience \in Nat
  BY Numbers
<1>5. PICK c \in Nat, e \in Nat, s \in Int, i \in Int, j \in Int, q \in Int :
        /\ clock = c /\ clock' = c /\ main.now = c /\ machine.epoch = e /\ Sent = s
        /\ device.mqttIssuedAt = i /\ net.issuedAt = j
        /\ service.rule.lastChangeTime = q /\ s <= c
  <2>1. main.now = clock /\ Sent <= clock BY <1>1, <1>3 DEF ScriptInv, Times
  <2>2. Sent \in Int BY <1>1, SentType DEF ScriptInv
  <2>3. QED BY <1>1, <1>3, <2>1, <2>2 DEF DemoTypes, ScriptInv, ScriptTypes
<1>6. /\ \/ k = 7 \/ k = 9 \/ k = 10 \/ k = 11 \/ k = 12 \/ k = 13 \/ k = 15 \/ k = 17
         \/ k = 18 \/ k = 20 \/ k = 21 \/ k = 22 \/ k = 26 \/ k = 27
         \/ k = Last + 4 \/ k = Last + 5
         \/ (k \in InvalidSends /\ k >= 28 /\ k <= Last)
      /\ demo.wake = c /\ connected
  <2>1. Current.op \in {"send", "check", "await"} BY <1>3 DEF TickInv
  <2>2. k \in 1 .. Len(Script)
    BY <1>1, <1>2, <1>3, StepTypes, ProgramShape DEF InScript, TickInv, InDemo
  <2>3. k \in Where("send") \cup Where("check") \cup Where("await")
    BY <1>2, <2>1, <2>2, OpAt DEF Current
  <2>4. \/ k = 7 \/ k = 9 \/ k = 10 \/ k = 11 \/ k = 12 \/ k = 13 \/ k = 15 \/ k = 17
        \/ k = 18 \/ k = 20 \/ k = 21 \/ k = 22 \/ k = 26 \/ k = 27
        \/ k = Last + 4 \/ k = Last + 5 \/ k \in InvalidSends
    BY <2>3, WhereIs
  <2>5. k \in InvalidSends => k >= 28 /\ k <= Last BY <1>4 DEF InvalidSends
  <2>6. demo.wake = c
    <3>1. demo.wake <= c /\ (k \notin {24, 25} => c <= demo.wake) /\ demo.wake \in Nat
      BY <1>1, <1>2, <1>3, <1>5 DEF ScriptInv, Times, ScriptTypes
    <3>2. k \notin {24, 25} BY <1>4, <2>4, <2>5
    <3>3. QED BY <3>1, <3>2, <1>5
  <2>7. k >= 7 /\ k <= Last + 9 BY <1>4, <2>4, <2>5
  <2>8. connected BY <1>1, <1>2, <1>4, <2>7 DEF ScriptInv, SeenInv
  <2>9. QED BY <2>4, <2>5, <2>6, <2>8
<1>7. PICK b \in BOOLEAN, f \in BOOLEAN, m \in BOOLEAN, v \in BOOLEAN, h \in Int, l \in Int,
           z \in Int, x \in Nat :
        /\ device.relayOn = b /\ main.fresh = f /\ device.mqttDesiredOn = m
        /\ device.hasValidReading = v /\ device.lastHumidity = h
        /\ device.lastChangeTime = l /\ device.relayOnSince = z /\ device.failures = x
  <2>1. /\ device.relayOn \in BOOLEAN /\ main.fresh \in BOOLEAN
        /\ device.mqttDesiredOn \in BOOLEAN /\ device.hasValidReading \in BOOLEAN
        /\ device.lastHumidity \in Int /\ device.lastChangeTime \in Int
        /\ device.relayOnSince \in Int /\ device.failures \in Nat
    BY <1>1 DEF ScriptInv, ScriptTypes
  <2>2. QED BY <2>1, Zenon
<1>8. PICK why : why = Outcome(device, main.fresh, main.now).reason OBVIOUS
<1>9. Decided(device, main.fresh, c, device', why)
  <2>1. Record(device, DOMAIN NewController) BY DEF DemoTypes
  <2>2. /\ device.relayOn \in BOOLEAN /\ main.fresh \in BOOLEAN
        /\ device.mqttDesiredOn \in BOOLEAN /\ device.hasValidReading \in BOOLEAN
        /\ device.lastHumidity \in Int /\ device.lastChangeTime \in Int
        /\ device.relayOnSince \in Int /\ device.failures \in Nat
    BY <1>7
  <2>3. QED BY <1>3, <1>5, <1>8, <2>1, <2>2, DeviceDecides
<1>10. PICK on \in BOOLEAN, l2 \in Int, z2 \in Int :
         /\ device'.relayOn = on /\ device'.lastChangeTime = l2 /\ device'.relayOnSince = z2
         /\ (on <=> b) => l2 = l /\ z2 = z
         /\ ~(on <=> b) => l2 = c /\ z2 = IF on THEN c ELSE -1
  BY <1>5, <1>7, <1>9 DEF Decided
<1>11. /\ b /\ z # -1 /\ c - z >= MaxRuntime => ~on /\ why = "max_runtime_cutoff"
       /\ ~b /\ c - l < MinFanOff => ~on
       /\ f /\ m /\ ~(~b /\ c - l < MinFanOff) /\ ~(b /\ z # -1 /\ c - z >= MaxRuntime)
            => on
       /\ f /\ ~m /\ ~(b /\ c - l < MinFanOn) => ~on
       /\ f /\ ~m /\ ~b => ~on
       /\ ~f /\ ~b /\ h <= FanOffPercent =>
            ~on /\ (x >= FailureLimit => why = "sensor_invalid_safe_state")
       /\ ~f /\ h <= FanOffPercent /\ v /\ x = 0 /\ ~(b /\ c - l < MinFanOn) => ~on
       /\ ~f /\ v /\ x = 0 /\ (h >= FanOnPercent \/ (b /\ h > FanOffPercent))
            /\ ~(~b /\ c - l < MinFanOff) /\ ~(b /\ z # -1 /\ c - z >= MaxRuntime) => on
  <2>1. FailureLimit >= 1 /\ FanOffPercent < FanOnPercent BY <1>4 DEF DemoTimings
  <2>2. QED BY <1>4, <1>5, <1>7, <1>9, <1>10, <2>1, SMTT(60) DEF Decided
<1>12. /\ device'.hasValidReading = v /\ device'.failures = x /\ device'.lastHumidity = h
       /\ device'.mqttReceived = device.mqttReceived /\ device'.mqttDesiredOn = m
       /\ device'.mqttIssuedAt = i /\ Record(device', DOMAIN NewController)
  BY <1>5, <1>7, <1>9 DEF Decided
<1>13. /\ 40 <= FanOffPercent /\ 50 <= FanOffPercent /\ ~(40 >= FanOnPercent)
       /\ ~(50 >= FanOnPercent) /\ 65 > FanOffPercent /\ 80 >= FanOnPercent
       /\ 85 >= FanOnPercent /\ FailureLimit >= 1 /\ FanOffPercent < FanOnPercent
  BY <1>4 DEF DemoTimings
<1>14. k = 9 \/ k = 15 \/ k = 20 \/ k = 26 => Clear
  BY <1>1, <1>2, <1>5, <1>6, ClearBefore
<1>15. ~Clear => c <= s + 2 * MaxDelay
  <2>1. CASE net.pc # "idle" BY <1>1, <1>5, <2>1 DEF ScriptInv, QueueInv
  <2>2. CASE inbox # <<>>
    <3>1. brokerDesired.queuedAt \in Int BY <1>1, <2>2 DEF ScriptInv, ScriptTypes
    <3>2. brokerDesired.queuedAt <= s + MaxDelay /\ c <= brokerDesired.queuedAt + MaxDelay
      BY <1>1, <1>5, <2>2 DEF ScriptInv, QueueInv
    <3>3. QED BY <1>4, <1>5, <3>1, <3>2
  <2>3. CASE telemetry # <<>>
    <3>1. Head(telemetry).queuedAt \in Int BY <1>1, <2>3 DEF ScriptInv, ScriptTypes
    <3>2. Head(telemetry).queuedAt <= s /\ c <= Head(telemetry).queuedAt + MaxDelay
      BY <1>1, <1>5, <2>3 DEF ScriptInv, QueueInv
    <3>3. QED BY <1>4, <1>5, <3>1, <3>2
  <2>4. QED BY <2>1, <2>2, <2>3 DEF Clear
\* What the tick decides.
<1>16. k = 7 \/ k = 9 => ~b /\ ~on
  <2>1. k = 7 \/ k = 9 => ~b /\ ~m /\ (v => h <= FanOffPercent)
    BY <1>1, <1>2, <1>7 DEF ScriptInv, OffInv, Says
  <2>2. ~f /\ ~b /\ ~v => ~on BY <1>4, <1>5, <1>7, <1>9, <1>10, SMTT(40) DEF Decided
  <2>3. QED BY <1>11, <2>1, <2>2
<1>17. k = 10 => ~b /\ f /\ ~on
  <2>1. k = 10 => ~b /\ ~m BY <1>1, <1>2, <1>7 DEF ScriptInv, OffInv, Says
  <2>2. k = 10 => f BY <1>1, <1>2, <1>3, <1>7 DEF ScriptInv, FreshInv
  <2>3. QED BY <1>11, <2>1, <2>2
<1>18. k = 11 => /\ ~b /\ f /\ (on <=> m) /\ v /\ x = 0 /\ h = 80
                 /\ ~m => ~Clear
                 /\ m => telemetry = <<>> /\ inbox = <<>>
                 /\ c <= s + (2 * MaxDelay + Poll)
  <2>1. k = 11 => ~b /\ l = 0 BY <1>1, <1>2, <1>7 DEF ScriptInv, OffInv
  <2>2. k = 11 => f BY <1>1, <1>2, <1>3, <1>7 DEF ScriptInv, FreshInv
  <2>3. k = 11 => /\ v /\ x = 0 /\ h = 80 /\ (~m => ~Clear)
                  /\ m => telemetry = <<>> /\ inbox = <<>>
                  /\ c <= s + (2 * MaxDelay + Poll)
    BY <1>1, <1>2, <1>5, <1>6, <1>7 DEF ScriptInv, RiseInv, Humid, Clear, Says
  <2>4. k = 11 => c >= ServicePause + 2 * SampleInterval
    BY <1>1, <1>2, <1>5 DEF ScriptInv, Times
  <2>5. MinFanOff <= ServicePause + 2 * SampleInterval BY DEF DemoTimings
  <2>6. k = 11 => ~(c - l < MinFanOff) BY <1>4, <2>1, <2>4, <2>5
  <2>7. QED BY <1>11, <2>1, <2>2, <2>3, <2>6
<1>19. k = 12 \/ k = 13 \/ k = 15 => b /\ m /\ on /\ z = s /\ v /\ x = 0 /\ h >= 65
  <2>1. k = 12 \/ k = 13 \/ k = 15 => b /\ m /\ z = s /\ v /\ x = 0 /\ h >= 65
    BY <1>1, <1>2, <1>5, <1>7 DEF ScriptInv, HoldInv, Says
  <2>2. k = 12 \/ k = 13 => s = c BY <1>2, <1>4, <1>5 DEF Sent
  <2>3. k = 15 => s = c - 2 * SampleInterval BY <1>2, <1>4, <1>5, <1>6 DEF Sent
  <2>4. 2 * SampleInterval < MaxRuntime BY DEF DemoTimings
  <2>5. k = 12 \/ k = 13 \/ k = 15 => ~(c - z >= MaxRuntime)
    BY <1>4, <2>1, <2>2, <2>3, <2>4
  <2>6. h >= 65 => h > FanOffPercent BY <1>4, <1>13
  <2>7. QED BY <1>11, <2>1, <2>5, <2>6
<1>20. k = 12 => f BY <1>1, <1>2, <1>3, <1>7 DEF ScriptInv, FreshInv
<1>21. k = 17 => b /\ v /\ x = 0 /\ h = 50 /\ l + MinFanOn <= c
  BY <1>1, <1>2, <1>3, <1>6, <1>7 DEF ScriptInv, HoldInv, FallInv, Humid, Says
<1>22. k = 18 => /\ v /\ x = 0 /\ h = 50
                 /\ b => l + MinFanOn <= s
                 /\ ~b => l = c /\ ~on
                 /\ on => ~Clear
  <2>1. k = 18 => /\ v /\ x = 0 /\ h = 50 /\ (b => l + MinFanOn <= s)
                  /\ ~b => l = c
    BY <1>1, <1>2, <1>5, <1>7 DEF ScriptInv, FallInv, Humid
  <2>2. 2 * MaxDelay < MinFanOff BY DEF DemoTimings
  <2>3. k = 18 /\ ~b => ~on
    <3>1. k = 18 /\ ~b => c - l < MinFanOff BY <1>4, <2>1, <2>2
    <3>2. QED BY <1>11, <3>1
  <2>4. k = 18 /\ Clear => ~m
    BY <1>1, <1>2, <1>7 DEF ScriptInv, FallInv, FallAnswer, Clear, Says
  <2>5. k = 18 /\ b => ~(c - l < MinFanOn)
    <3>1. k = 18 /\ b => l + MinFanOn <= s BY <2>1
    <3>2. s <= c BY <1>5
    <3>3. QED BY <1>4, <3>1, <3>2
  <2>6. k = 18 /\ Clear => ~on
    <3>1. k = 18 => h <= FanOffPercent BY <1>4, <1>13, <2>1
    <3>2. QED BY <1>11, <2>1, <2>3, <2>4, <2>5, <3>1
  <2>7. QED BY <2>1, <2>3, <2>6
<1>23. k = 20 => /\ v /\ x = 0 /\ h = 85 /\ ~b /\ ~m /\ l + MinFanOff <= c
                 /\ on <=> ~f
  <2>1. k = 20 => v /\ x = 0 /\ h = 85
    BY <1>1, <1>2, <1>3, <1>7 DEF ScriptInv, CutoffInv, Humid
  <2>2. k = 20 => ~b /\ l + MinFanOff <= c
    BY <1>1, <1>2, <1>6, <1>7 DEF ScriptInv, FallInv
  <2>3. k = 20 => ~m
    BY <1>1, <1>2, <1>7, <1>14 DEF ScriptInv, FallInv, FallAnswer, Clear, Says
  <2>4. k = 20 => ~(c - l < MinFanOff) BY <1>4, <2>2
  <2>5. QED BY <1>11, <1>13, <2>1, <2>2, <2>3, <2>4
<1>24. k = 21 \/ k = 22 => /\ v /\ x = 0 /\ h = 85 /\ (b /\ f => m)
  BY <1>1, <1>2, <1>3, <1>7 DEF ScriptInv, CutoffInv, CutoffAnswer, Humid, Says
<1>25. k = 21 => /\ b => z = c /\ on
                 /\ ~b => l + MinFanOff <= c
                 /\ on <=> b \/ m \/ ~f
  <2>1. k = 21 => /\ b => z = c
                  /\ ~b => l + MinFanOff <= c
    BY <1>1, <1>2, <1>5, <1>7 DEF ScriptInv, CutoffInv
  <2>2. k = 21 => (b => ~(c - z >= MaxRuntime)) /\ (~b => ~(c - l < MinFanOff))
    BY <1>4, <2>1
  <2>3. QED BY <1>11, <1>13, <1>24, <2>1, <2>2
<1>26. k = 22 => /\ b /\ z # -1 /\ z <= c
                 /\ on => c < z + MaxRuntime
                 /\ ~on => why = "max_runtime_cutoff"
  <2>1. k = 22 => b /\ z # -1 /\ z <= c
    BY <1>1, <1>2, <1>5, <1>7 DEF ScriptInv, CutoffInv, Never
  <2>2. k = 22 /\ ~(c - z >= MaxRuntime) => on BY <1>11, <1>13, <1>24, <2>1
  <2>3. k = 22 /\ on => c < z + MaxRuntime BY <1>4, <1>11, <2>1
  <2>4. QED BY <1>11, <2>1, <2>2, <2>3
<1>27. k = 26 \/ k = 27 \/ k = Last + 4 \/ k \in InvalidSends => ~b /\ ~f /\ ~on
  <2>1. ASSUME k \in 26 .. Last + 4 PROVE ~b /\ ~f /\ h <= FanOffPercent
    BY <1>1, <1>2, <1>3, <1>4, <1>7, <2>1 DEF ScriptInv, StoppedInv
  <2>2. k = 26 \/ k = 27 \/ k = Last + 4 \/ k \in InvalidSends => k \in 26 .. Last + 4
    <3>1. k \in InvalidSends => k >= 28 /\ k <= Last BY <1>4 DEF InvalidSends
    <3>2. QED BY <1>4, <3>1
  <2>3. QED BY <1>11, <2>1, <2>2
<1>28. k = Last + 5 => ~b /\ ~on /\ (~f => c <= s + 2 * MaxDelay)
  <2>1. k = Last + 5 => ~b /\ h <= FanOffPercent
    BY <1>1, <1>2, <1>4, <1>7 DEF ScriptInv, StoppedInv
  <2>2. k = Last + 5 => (f => ~m) /\ (~f => c <= s + 2 * MaxDelay)
    BY <1>1, <1>2, <1>3, <1>5, <1>7 DEF ScriptInv, RecoveryInv, Says
  <2>3. QED BY <1>11, <2>1, <2>2
<1>29. k \in InvalidSends =>
         k + 2 <= 2 * x + 28 /\ (k = Last - 1 => why = "sensor_invalid_safe_state")
  <2>1. ASSUME k \in InvalidSends
        PROVE  k + 2 <= 2 * x + 28 /\ ~b /\ ~f /\ h <= FanOffPercent
    <3>1. k >= 28 /\ k <= Last BY <1>4, <2>1 DEF InvalidSends
    <3>2. QED BY <1>1, <1>2, <1>3, <1>4, <1>7, <3>1 DEF ScriptInv, StoppedInv
  <2>2. k \in InvalidSends /\ k = Last - 1 => x >= FailureLimit BY <1>4, <2>1 DEF Last
  <2>3. QED BY <1>11, <2>1, <2>2
\* Where the script goes.
<1>30. /\ demo' = Continued \/ demo' = Again
       /\ \/ k \in {7, 9, 10, 12, 13, 15, 17, 20, 26, 27}
          \/ k = Last + 4
          \/ k \in InvalidSends
          => demo' = Continued
       /\ k = 11 \/ k = 21 => demo' = IF on THEN Continued ELSE Again
       /\ k = 18 \/ k = 22 => demo' = IF on THEN Again ELSE Continued
       /\ k = Last + 5 => demo' = IF f THEN Continued ELSE Again
  <2>1. demo' = IF Current.op = "send" \/ Found(log')[Current.want] THEN Continued
                ELSE IF Current.op = "check" THEN Failed ELSE Again
    BY DEF FinishDemoTick
  <2>3. k \in {7, 10, 13, 17, 20, 26} \/ k = Last + 4 \/ k \in InvalidSends =>
          demo' = Continued
    <3>1. SUFFICES ASSUME \/ k \in {7, 10, 13, 17, 20, 26}
                          \/ k = Last + 4
                          \/ k \in InvalidSends
                   PROVE  Current.op = "send"
      BY <2>1
    <3>2. CASE k \in {7, 10, 13, 17, 20, 26} BY <1>2, <3>2, Operations DEF Current
    <3>3. CASE k = Last + 4 BY <1>2, <3>3, LastPart DEF Current, Send
    <3>4. CASE k \in InvalidSends
      <4>1. k \in 28 .. Last /\ k % 2 = 0 BY <3>4 DEF InvalidSends
      <4>2. \A n \in 28 .. Last :
              Program[n] = IF n % 2 = 0 THEN Send(999) ELSE Sleep(SampleInterval)
        BY Table
      <4>3. QED BY <1>2, <4>1, <4>2 DEF Current, Send
    <3>5. QED BY <3>1, <3>2, <3>3, <3>4
  <2>5. /\ Found(log')["on"] = on /\ Found(log')["off"] = ~on
        /\ Found(log')["automatic"] = (Mode = "automatic")
        /\ Found(log')["local_fallback"] = (Mode = "local_fallback")
    BY <1>10 DEF Found, FinishDemoTick
  <2>6. Mode = IF f THEN "automatic" ELSE "local_fallback" BY <1>7 DEF Mode
  <2>7. /\ k = 11 \/ k = 21 => Current = Await("on", Patience)
        /\ k = 18 => Current = Await("off", Patience)
        /\ k = 22 => Current = Await("off", MaxRuntime + Patience)
        /\ k = 27 => Current = Await("local_fallback", Patience)
    BY <1>2, FirstPart DEF Current
  <2>8. k = Last + 5 => Current = Await("automatic", Patience)
    BY <1>2, LastPart DEF Current
  <2>4. k \in {9, 12, 15} => demo' = Continued
    <3>1. /\ k = 9 => Current = Check("off")
          /\ k = 12 => Current = Check("automatic")
          /\ k = 15 => Current = Check("on")
      BY <1>2, FirstPart DEF Current
    <3>2. CASE k = 9
      <4>1. Current.want = "off" BY <3>1, <3>2 DEF Check
      <4>2. QED BY <1>16, <2>1, <2>5, <3>2, <4>1
    <3>3. CASE k = 12
      <4>1. Current.want = "automatic" BY <3>1, <3>3 DEF Check
      <4>2. Mode = "automatic" BY <1>20, <2>6, <3>3
      <4>3. QED BY <2>1, <2>5, <4>1, <4>2
    <3>4. CASE k = 15
      <4>1. Current.want = "on" BY <3>1, <3>4 DEF Check
      <4>2. QED BY <1>19, <2>1, <2>5, <3>4, <4>1
    <3>5. QED BY <3>2, <3>3, <3>4
  <2>9. k = 11 \/ k = 21 => demo' = IF on THEN Continued ELSE Again
    <3>1. SUFFICES ASSUME k = 11 \/ k = 21 PROVE demo' = IF on THEN Continued ELSE Again
      OBVIOUS
    <3>2. Current.op = "await" /\ Current.want = "on" BY <2>7, <3>1 DEF Await
    <3>3. QED BY <2>1, <2>5, <3>2
  <2>10. k = 18 \/ k = 22 => demo' = IF on THEN Again ELSE Continued
    <3>1. SUFFICES ASSUME k = 18 \/ k = 22 PROVE demo' = IF on THEN Again ELSE Continued
      OBVIOUS
    <3>2. Current.op = "await" /\ Current.want = "off" BY <2>7, <3>1 DEF Await
    <3>3. QED BY <2>1, <2>5, <3>2
  <2>11. k = 27 => demo' = Continued
    <3>1. SUFFICES ASSUME k = 27 PROVE demo' = Continued OBVIOUS
    <3>2. Current.op = "await" /\ Current.want = "local_fallback" BY <2>7, <3>1 DEF Await
    <3>3. Mode = "local_fallback" BY <1>27, <2>6, <3>1
    <3>4. QED BY <2>1, <2>5, <3>2, <3>3
  <2>12. k = Last + 5 => demo' = IF f THEN Continued ELSE Again
    <3>1. SUFFICES ASSUME k = Last + 5 PROVE demo' = IF f THEN Continued ELSE Again OBVIOUS
    <3>2. Current.op = "await" /\ Current.want = "automatic" BY <2>8, <3>1 DEF Await
    <3>3. QED BY <2>1, <2>5, <2>6, <3>2
  <2>13. demo' = Continued \/ demo' = Again
    BY <1>6, <2>3, <2>4, <2>9, <2>10, <2>11, <2>12
  <2>14. QED BY <2>3, <2>4, <2>9, <2>10, <2>11, <2>12, <2>13
<1>31. PICK k2 \in Nat, w2 \in Nat, d2 \in Int :
         /\ demo'.step = k2 /\ demo'.wake = w2 /\ demo'.deadline = d2
         /\ demo' = Continued => k2 = k + 1 /\ w2 = c /\ d2 = -1
         /\ demo' = Again => k2 = k /\ w2 = c + Poll /\ d2 = Deadline
         /\ (k2 = k + 1 /\ w2 = c /\ d2 = -1) \/ (k2 = k /\ w2 = c + Poll)
  <2>1. Record(demo, {"step", "wake", "deadline", "code"}) BY DEF DemoTypes
  <2>2. CASE demo' = Continued
    <3>1. demo'.step = k + 1 /\ demo'.wake = c /\ demo'.deadline = -1
      BY <1>2, <1>6, <2>1, <2>2 DEF Continued, Never, Record
    <3>2. demo' # Again
      <4>1. demo' = Again => demo'.step = k BY <1>2, <2>1 DEF Again, Record
      <4>2. QED BY <3>1, <4>1
    <3>3. QED BY <1>5, <3>1, <3>2
  <2>3. CASE demo' = Again
    <3>1. demo'.step = k /\ demo'.wake = c + Poll /\ demo'.deadline = Deadline
      BY <1>2, <1>5, <2>1, <2>3 DEF Again, Record
    <3>2. demo' # Continued
      <4>1. demo' = Continued => demo'.step = k + 1 BY <1>2, <2>1 DEF Continued, Record
      <4>2. QED BY <3>1, <4>1
    <3>3. Deadline \in Int
      <4>1. k = 11 \/ k = 18 \/ k = 21 \/ k = 22 \/ k = Last + 5
        BY <1>4, <1>6, <1>30, <2>3, <3>2
      <4>2. Current.time \in Int
        <5>1. k = 11 \/ k = 18 \/ k = 21 \/ k = 22 => Current.time \in Int
          BY <1>2, <1>4, FirstPart DEF Current, Await
        <5>2. k = Last + 5 => Current.time \in Int
          BY <1>2, <1>4, LastPart DEF Current, Await
        <5>3. QED BY <4>1, <5>1, <5>2
      <4>3. demo.deadline \in Int BY <1>1 DEF ScriptInv, ScriptTypes
      <4>4. QED BY <1>5, <4>2, <4>3 DEF Deadline
    <3>4. QED BY <1>4, <1>5, <3>1, <3>2, <3>3
  <2>4. QED BY <1>30, <2>2, <2>3
<1>32. /\ k \in {7, 9, 10, 12, 13, 15, 17, 20, 26, 27} => k2 = k + 1
       /\ k = Last + 4 \/ k \in InvalidSends => k2 = k + 1
       /\ k = 11 \/ k = 21 => k2 = IF on THEN k + 1 ELSE k
       /\ k = 18 \/ k = 22 => k2 = IF on THEN k ELSE k + 1
       /\ k = Last + 5 => k2 = IF f THEN k + 1 ELSE k
       /\ k2 = k => d2 = Deadline
  BY <1>30, <1>31
<1>33. PICK t \in Int : Sent' = t /\ t = IF k2 = k THEN s ELSE c
  <2>1. CASE k2 = k + 1
    <3>1. /\ k2 # 9 /\ k2 # 15 /\ k2 # 20 /\ k2 # 26 /\ d2 = -1
      BY <1>4, <1>6, <1>31, <2>1
    <3>2. Sent' = c BY <1>4, <1>5, <1>31, <3>1 DEF Sent, Never
    <3>3. QED BY <1>5, <2>1, <3>2
  <2>2. CASE k2 = k
    <3>1. k = 11 \/ k = 18 \/ k = 21 \/ k = 22 \/ k = Last + 5
      BY <1>4, <1>6, <1>32, <2>2
    <3>2. PICK d \in Int : demo.deadline = d BY <1>1 DEF ScriptInv, ScriptTypes
    <3>3. CASE k = 22
      <4>1. Current.time = MaxRuntime + Patience
        BY <1>2, <3>3, FirstPart DEF Current, Await
      <4>2. d2 = IF d = -1 THEN c + (MaxRuntime + Patience) ELSE d
        BY <1>5, <1>32, <2>2, <3>2, <4>1 DEF Deadline, Never
      <4>3. s = IF d # -1 THEN d - (MaxRuntime + Patience) ELSE c
        BY <1>2, <1>4, <1>5, <3>2, <3>3 DEF Sent, Never
      <4>4. d2 # -1 BY <1>4, <1>5, <4>2
      <4>5. k2 = 22 /\ k2 # 9 /\ k2 # 15 /\ k2 # 20 /\ k2 # 26 /\ k2 # Last + 5
        BY <1>4, <2>2, <3>3
      <4>6. Sent' = d2 - (MaxRuntime + Patience)
        BY <1>4, <1>31, <4>4, <4>5 DEF Sent, Never
      <4>7. QED BY <1>4, <1>5, <2>2, <4>2, <4>3, <4>6
    <3>4. CASE k # 22
      <4>1. Current.time = Patience
        <5>1. k \in {11, 18, 21} => Current.time = Patience
          BY <1>2, FirstPart DEF Current, Await
        <5>2. k = Last + 5 => Current.time = Patience BY <1>2, LastPart DEF Current, Await
        <5>3. QED BY <3>1, <3>4, <5>1, <5>2
      <4>2. d2 = IF d = -1 THEN c + Patience ELSE d
        BY <1>5, <1>32, <2>2, <3>2, <4>1 DEF Deadline, Never
      <4>3. k # 9 /\ k # 15 /\ k # 20 /\ k # 26 BY <1>4, <3>1
      <4>4. s = IF d # -1 THEN d - Patience ELSE c
        BY <1>2, <1>4, <1>5, <3>1, <3>2, <3>4, <4>3 DEF Sent, Never
      <4>5. d2 # -1 BY <1>4, <1>5, <4>2
      <4>6. Sent' = d2 - Patience
        BY <1>4, <1>31, <2>2, <3>1, <3>4, <4>3, <4>5 DEF Sent, Never
      <4>7. QED BY <1>4, <1>5, <2>2, <4>2, <4>4, <4>6
    <3>5. QED BY <3>3, <3>4
  <2>3. QED BY <1>31, <2>1, <2>2
<1>34. s <= t /\ t <= c BY <1>5, <1>33
<1> HIDE DEF Sent
\* What it sends, notes and publishes.
<1>35. /\ k \in {7, 10, 13, 17, 20} \/ k = Last + 4 =>
            /\ telemetry' # <<>> /\ telemetry' = <<Head(telemetry')>>
            /\ Head(telemetry').queuedAt = c /\ inbox = <<>> /\ (k # 13 => Clear)
       /\ ~(k \in {7, 10, 13, 17, 20} \/ k = Last + 4) => telemetry' = telemetry
       /\ k = 7 \/ k = Last + 4 => Head(telemetry').reading = Send(40).reading
       /\ k = 10 => Head(telemetry').reading = Send(80).reading
       /\ k = 13 => Head(telemetry').reading = Send(65).reading
       /\ k = 17 => Head(telemetry').reading = Send(50).reading
       /\ k = 20 => Head(telemetry').reading = Send(85).reading
  <2>1. telemetry' = Report BY DEF FinishDemoTick
  <2>2. ASSUME NEW y \in {40, 50, 65, 80, 85}, Current = Send(y), service.state = "up",
               telemetry = <<>>
        PROVE  /\ telemetry' # <<>> /\ telemetry' = <<Head(telemetry')>>
               /\ Head(telemetry').queuedAt = c
               /\ Head(telemetry').reading = Send(y).reading
    <3>1. telemetry' = Append(telemetry, [reading |-> Send(y).reading, queuedAt |-> c])
      BY <1>5, <2>1, <2>2 DEF Report, Send
    <3>2. telemetry' = <<[reading |-> Send(y).reading, queuedAt |-> c]>> BY <2>2, <3>1
    <3>3. QED BY <3>2
  <2>3. k = 7 \/ k = 10 \/ k = 17 \/ k = 20 \/ k = Last + 4 => Clear
    BY <1>1, <1>2, <1>3, <1>4, <1>14 DEF ScriptInv, QueueInv
  <2>4. k = 13 => telemetry = <<>> /\ inbox = <<>>
    BY <1>1, <1>2 DEF ScriptInv, HoldInv
  <2>5. k \in {7, 10, 13, 17, 20} \/ k = Last + 4 =>
          service.state = "up" /\ telemetry = <<>> /\ inbox = <<>> /\ (k # 13 => Clear)
    <3>1. k \in {7, 10, 13, 17, 20} \/ k = Last + 4 => service.state = "up"
      BY <1>1, <1>2, <1>3, <1>4 DEF ScriptInv, ServiceInv
    <3>2. QED BY <2>3, <2>4, <3>1 DEF Clear
  <2>6. k = 7 \/ k = Last + 4 => Current = Send(40)
    BY <1>2, FirstPart, LastPart DEF Current
  <2>7. /\ k = 10 => Current = Send(80)
        /\ k = 13 => Current = Send(65)
        /\ k = 17 => Current = Send(50)
        /\ k = 20 => Current = Send(85)
    BY <1>2, FirstPart DEF Current
  <2>8. ~(k \in {7, 10, 13, 17, 20} \/ k = Last + 4) => telemetry' = telemetry
    <3>1. CASE k = 26 \/ k = 27 \/ k \in InvalidSends
      <4>1. k \in 25 .. Last + 2 BY <1>4, <1>6, <3>1 DEF InvalidSends
      <4>2. service.state = "dead" BY <1>1, <1>2, <4>1 DEF ScriptInv, ServiceInv
      <4>3. QED BY <2>1, <4>2 DEF Report
    <3>2. CASE k \in {9, 11, 12, 15, 18, 21, 22} \/ k = Last + 5
      <4>1. Current.op \in {"check", "await"}
        BY <1>2, <3>2, Operations DEF Current
      <4>2. QED BY <2>1, <4>1 DEF Report
    <3>3. QED BY <1>6, <3>1, <3>2
  <2>9. CASE k = 7 \/ k = Last + 4 BY <1>4, <2>2, <2>5, <2>6, <2>9
  <2>10. CASE k = 10 BY <1>4, <2>2, <2>5, <2>7, <2>10
  <2>11. CASE k = 13 BY <1>4, <2>2, <2>5, <2>7, <2>11
  <2>12. CASE k = 17 BY <1>4, <2>2, <2>5, <2>7, <2>12
  <2>13. CASE k = 20 BY <1>4, <2>2, <2>5, <2>7, <2>13
  <2>14. QED BY <2>8, <2>9, <2>10, <2>11, <2>12, <2>13
<1>36. /\ Record(log', DOMAIN EmptyLog) /\ log'.on = on /\ log'.reason = why
       /\ log'.lastReason = IF on <=> b THEN log.lastReason ELSE why
       /\ log'.lastOnAt = IF on /\ ~b THEN c ELSE log.lastOnAt
       /\ log.seen \subseteq log'.seen
       /\ observer = "on" => brokerActual' \in log'.seen /\ brokerMode' \in log'.seen
  <2>1. log' = [on |-> device'.relayOn, mode |-> Mode, reason |-> why,
                lastReason |-> IF device'.relayOn = device.relayOn THEN log.lastReason
                               ELSE why,
                lastOnAt |-> IF device'.relayOn /\ ~device.relayOn THEN clock
                             ELSE log.lastOnAt,
                seen |-> log.seen \cup IF observer = "on" THEN {brokerActual', brokerMode'}
                                       ELSE {}]
    BY <1>8 DEF FinishDemoTick
  <2>2. /\ device'.relayOn = device.relayOn <=> (on <=> b)
        /\ device'.relayOn /\ ~device.relayOn <=> on /\ ~b
    BY <1>7, <1>10
  <2>3. Record(log', DOMAIN EmptyLog)
    BY <2>1 DEF Record, EmptyLog
  <2>4. log'.on = on /\ log'.reason = why BY <1>10, <2>1
  <2>5. log'.lastReason = IF on <=> b THEN log.lastReason ELSE why BY <2>1, <2>2
  <2>6. log'.lastOnAt = IF on /\ ~b THEN c ELSE log.lastOnAt BY <1>5, <2>1, <2>2
  <2>7. log'.seen =
          log.seen \cup IF observer = "on" THEN {brokerActual', brokerMode'} ELSE {}
    BY <2>1
  <2>8. QED BY <2>3, <2>4, <2>5, <2>6, <2>7
<1>37. /\ lastFallback' = ~f
       /\ brokerMode' = IF lastFallback' # lastFallback
                          THEN IF f THEN "automatic" ELSE "local_fallback"
                          ELSE brokerMode
       /\ ~(on <=> b) => brokerActual' = IF on THEN "on" ELSE "off"
  <2>1. PublishStateUpdates(device'.relayOn # device.relayOn, device'.relayOn)
    BY DEF FinishDemoTick, FinishTick
  <2>2. QED BY <1>6, <1>7, <1>10, <2>1 DEF PublishStateUpdates, Mode
<1>38. /\ Stale' = Stale /\ Ripe' = Ripe /\ (telemetry' = telemetry => Clear' = Clear)
       /\ \A n : Underway(n)' = Underway(n) /\ Known(n)' = Known(n)
       /\ \A o : Says(o)' = Says(o)
       /\ \A r : Humid(r)' = Humid(r)
       /\ Running' = on
  BY <1>3, <1>5, <1>7, <1>10, <1>12
  DEF Stale, Ripe, Clear, Underway, Known, Says, Humid, Running
<1>39. \/ (k = 7 /\ k2 = 8) \/ (k = 9 /\ k2 = 10) \/ (k = 10 /\ k2 = 11)
       \/ (k = 11 /\ k2 = 11 /\ ~on) \/ (k = 11 /\ k2 = 12 /\ on)
       \/ (k = 12 /\ k2 = 13) \/ (k = 13 /\ k2 = 14) \/ (k = 15 /\ k2 = 16)
       \/ (k = 17 /\ k2 = 18) \/ (k = 18 /\ k2 = 18 /\ on)
       \/ (k = 18 /\ k2 = 19 /\ ~on) \/ (k = 20 /\ k2 = 21)
       \/ (k = 21 /\ k2 = 21 /\ ~on) \/ (k = 21 /\ k2 = 22 /\ on)
       \/ (k = 22 /\ k2 = 22 /\ on) \/ (k = 22 /\ k2 = 23 /\ ~on)
       \/ (k = 26 /\ k2 = 27) \/ (k = 27 /\ k2 = 28)
       \/ (k \in InvalidSends /\ k >= 28 /\ k < Last /\ k2 = k + 1)
       \/ (k = Last + 4 /\ k2 = Last + 5) \/ (k = Last + 5 /\ k2 = Last + 5 /\ ~f)
       \/ (k = Last + 5 /\ k2 = Last + 6)
  <2>1. k \in InvalidSends => k # Last
    <3>1. ASSUME k = Last, k \in InvalidSends PROVE FALSE
      <4>1. Last % 2 = 1 BY <1>4 DEF Last
      <4>2. QED BY <3>1, <4>1 DEF InvalidSends
    <3>2. QED BY <3>1
  <2>2. QED BY <1>4, <1>6, <1>32, <2>1
<1>40. k2 = k => d2 # -1 /\ telemetry' = telemetry /\ w2 = c + Poll
  <2>1. SUFFICES ASSUME k2 = k PROVE d2 # -1 /\ telemetry' = telemetry /\ w2 = c + Poll
    OBVIOUS
  <2>2. k \in {11, 18, 21, 22} \/ k = Last + 5 BY <1>4, <1>39, <2>1
  <2>3. Current.time \in Nat
    <3>1. k \in {11, 18, 21, 22} => Current.time \in Nat
      BY <1>2, <1>4, FirstPart DEF Current, Await
    <3>2. k = Last + 5 => Current.time \in Nat BY <1>2, <1>4, LastPart DEF Current, Await
    <3>3. QED BY <2>2, <3>1, <3>2
  <2>4. d2 # -1 BY <1>5, <1>32, <2>1, <2>3 DEF Deadline, Never
  <2>5. telemetry' = telemetry BY <1>4, <1>35, <2>2
  <2>6. QED BY <1>31, <2>1, <2>4, <2>5
<1>41. k2 # k => k2 = k + 1 /\ w2 = c /\ d2 = -1 BY <1>31
<1>42. ScriptTypes'
  <2>1. telemetry' # <<>> =>
          /\ telemetry' = <<Head(telemetry')>> /\ Head(telemetry').queuedAt \in Int
          /\ \E r \in {40, 50, 65, 80, 85} : Head(telemetry').reading = Send(r).reading
    <3>1. CASE k \in {7, 10, 13, 17, 20} \/ k = Last + 4 BY <1>4, <1>5, <1>35, <3>1
    <3>2. CASE ~(k \in {7, 10, 13, 17, 20} \/ k = Last + 4)
      BY <1>1, <1>35, <3>2 DEF ScriptInv, ScriptTypes
    <3>3. QED BY <3>1, <3>2
  <2>2. log'.lastOnAt \in Int /\ Record(log', DOMAIN EmptyLog)
    BY <1>1, <1>5, <1>36 DEF ScriptInv, ScriptTypes
  <2>3. /\ device'.relayOn \in BOOLEAN /\ device'.mqttReceived \in BOOLEAN
        /\ device'.mqttDesiredOn \in BOOLEAN /\ device'.hasValidReading \in BOOLEAN
        /\ device'.lastChangeTime \in Int /\ device'.relayOnSince \in Int
        /\ device'.lastHumidity \in Int /\ device'.failures \in Nat
    BY <1>1, <1>7, <1>10, <1>12 DEF ScriptInv, ScriptTypes
  <2>4. demo'.wake \in Nat /\ demo'.deadline \in Int /\ main'.fresh \in BOOLEAN
    BY <1>3, <1>31
  <2>5. /\ Record(service'.rule, DOMAIN R!NewRule)
        /\ service'.rule.relayOn \in BOOLEAN
        /\ service'.rule.lastChangeTime \in Int /\ service'.rule.relayOnSince \in Int
        /\ net'.pc \in {"idle", "received", "desired", "issued"}
        /\ net'.message.on \in BOOLEAN /\ brokerDesired'.on \in BOOLEAN
        /\ inbox' # <<>> => inbox' = <<brokerDesired'>> /\ brokerDesired'.queuedAt \in Int
    BY <1>1, <1>3 DEF ScriptInv, ScriptTypes
  <2>6. QED BY <2>1, <2>2, <2>3, <2>4, <2>5 DEF ScriptTypes
<1>43. Times'
  <2>1. k = 7 => c >= ServicePause BY <1>1, <1>2, <1>5 DEF ScriptInv, Times
  <2>2. k >= 9 => c >= ServicePause + 2 * SampleInterval
    BY <1>1, <1>2, <1>4, <1>5, <1>6 DEF ScriptInv, Times
  <2>3. clock' = c /\ Sent' <= clock' /\ demo'.step = k2 /\ demo'.wake = w2
        /\ demo'.deadline = d2 /\ w2 \in Nat /\ c <= w2
    BY <1>4, <1>5, <1>31, <1>33, <1>34
  <2>4. k2 # 5 /\ k2 # 6 /\ k2 # 7 /\ k2 # 9 /\ k2 >= 8 /\ (k2 = 8 => k = 7)
    BY <1>4, <1>39
  <2>5. k2 \in {0, 4, 6, 7, 8, 10, 12, 13, 14, 16, 19, Last + 3} => k2 # k
    BY <1>4, <1>39
  <2>6. k2 \in {11, 18, 21, 22, 27, Last + 5} /\ d2 = -1 => k2 # k BY <1>40
  <2>7. QED
    BY <1>3, <1>4, <1>5, <1>39, <1>41, <2>1, <2>2, <2>3, <2>4, <2>5, <2>6 DEF Times, Never
<1>44. BrokerInv' BY <1>4, <1>31, <1>39 DEF BrokerInv
<1>45. ServiceInv'
  <2>1. /\ k2 \in 6 .. 23 => k \in 6 .. 23
        /\ k2 \in 25 .. Last + 2 => k \in 25 .. Last + 2
        /\ k2 \in Last + 5 .. Last + 9 => k = Last + 4 \/ k = Last + 5
        /\ k2 >= 8 /\ k2 # 24 /\ k2 # Last + 3 /\ k2 # Last + 4
    BY <1>4, <1>39
  <2>2. /\ k \in 6 .. 23 => service.state = "up"
        /\ k \in 25 .. Last + 2 => service.state = "dead"
        /\ k = Last + 4 \/ k = Last + 5 => service.state = "up"
    BY <1>1, <1>2, <1>3, <1>4 DEF ScriptInv, ServiceInv
  <2>3. QED BY <1>3, <1>4, <1>31, <2>1, <2>2 DEF ServiceInv
<1>46. QueueInv'
  <2>1. telemetry' # <<>> =>
          /\ Head(telemetry').queuedAt <= t /\ c <= Head(telemetry').queuedAt + MaxDelay
          /\ inbox = <<>>
    <3>1. CASE k \in {7, 10, 13, 17, 20} \/ k = Last + 4
      <4>1. t = c BY <1>4, <1>33, <1>39, <3>1
      <4>2. QED BY <1>4, <1>35, <3>1, <4>1
    <3>2. CASE ~(k \in {7, 10, 13, 17, 20} \/ k = Last + 4)
      <4>1. SUFFICES ASSUME telemetry # <<>>
                     PROVE  /\ Head(telemetry).queuedAt <= t
                            /\ c <= Head(telemetry).queuedAt + MaxDelay /\ inbox = <<>>
        BY <1>35, <3>2
      <4>2. Head(telemetry).queuedAt \in Int BY <1>1, <4>1 DEF ScriptInv, ScriptTypes
      <4>3. /\ Head(telemetry).queuedAt <= s /\ c <= Head(telemetry).queuedAt + MaxDelay
            /\ inbox = <<>>
        BY <1>1, <1>5, <4>1 DEF ScriptInv, QueueInv
      <4>4. QED BY <1>34, <4>2, <4>3
    <3>3. QED BY <3>1, <3>2
  <2>2. inbox # <<>> =>
          /\ brokerDesired.queuedAt <= t + MaxDelay
          /\ c <= brokerDesired.queuedAt + MaxDelay
    <3>1. SUFFICES ASSUME inbox # <<>>
                   PROVE  /\ brokerDesired.queuedAt <= t + MaxDelay
                          /\ c <= brokerDesired.queuedAt + MaxDelay
      OBVIOUS
    <3>2. brokerDesired.queuedAt \in Int BY <1>1, <3>1 DEF ScriptInv, ScriptTypes
    <3>3. /\ brokerDesired.queuedAt <= s + MaxDelay
          /\ c <= brokerDesired.queuedAt + MaxDelay
      BY <1>1, <1>5, <3>1 DEF ScriptInv, QueueInv
    <3>4. QED BY <1>4, <1>34, <3>2, <3>3
  <2>3. net.pc # "idle" => c <= t + 2 * MaxDelay
    <3>1. net.pc # "idle" => ~Clear BY DEF Clear
    <3>2. QED BY <1>4, <1>15, <1>34, <3>1
  <2>4. k2 \in {10, 16} \cup 27 .. Last + 4 => Clear'
    <3>1. SUFFICES ASSUME k2 \in {10, 16} \cup 27 .. Last + 4 PROVE Clear' OBVIOUS
    <3>2. k = 9 \/ k = 15 \/ k = 26 \/ k \in 27 .. Last BY <1>4, <1>39, <3>1
    <3>3. k \in 27 .. Last => Clear BY <1>1, <1>2, <1>4 DEF ScriptInv, QueueInv
    <3>4. telemetry' = telemetry
      <4>1. ~(k \in {7, 10, 13, 17, 20} \/ k = Last + 4) BY <1>4, <3>2
      <4>2. QED BY <1>35, <4>1
    <3>5. QED BY <1>14, <1>38, <3>2, <3>3, <3>4
  <2>5. k2 \notin 0 .. 7 /\ k2 # 17 BY <1>4, <1>39
  <2>6. k2 >= 25 /\ k2 <= Last + 4 => k2 \in 27 .. Last + 4 BY <1>4, <1>39
  <2>7. Clear' => telemetry' = <<>> BY DEF Clear
  <2>8. QED
    BY <1>3, <1>4, <1>5, <1>31, <1>33, <2>1, <2>2, <2>3, <2>4, <2>5, <2>6, <2>7 DEF QueueInv
<1>47. FreshInv'
  <2>1. k2 \notin {9} /\ ~Deciding' /\ clock' = c /\ demo'.step = k2 /\ Sent' = t
    BY <1>3, <1>4, <1>5, <1>31, <1>33, <1>39
  <2>2. k2 = 8 => Underway((t - Second) + 1)' /\ ~Clear'
    <3>1. SUFFICES ASSUME k2 = 8 PROVE Underway((t - Second) + 1)' /\ ~Clear' OBVIOUS
    <3>2. k = 7 BY <1>4, <1>39, <3>1
    <3>3. Clear /\ telemetry' # <<>> BY <1>35, <3>2
    <3>4. QED BY <1>3, <3>3 DEF Clear, Underway
  <2>3. k2 = 10 =>
          /\ Underway((t - (2 * SampleInterval + Second)) + 1)'
          /\ Known((t - (2 * SampleInterval + Second)) + 1)'
    <3>1. SUFFICES ASSUME k2 = 10
                   PROVE  /\ Underway((t - (2 * SampleInterval + Second)) + 1)'
                          /\ Known((t - (2 * SampleInterval + Second)) + 1)'
      OBVIOUS
    <3>2. k = 9 /\ t = c BY <1>4, <1>33, <1>39, <3>1
    <3>3. s = c - 2 * SampleInterval BY <1>2, <1>5, <1>6, <3>2 DEF Sent
    <3>4. (t - (2 * SampleInterval + Second)) + 1 = (s - Second) + 1
      BY <1>4, <1>5, <3>2, <3>3
    <3>5. Underway((s - Second) + 1) /\ Known((s - Second) + 1)
      BY <1>1, <1>2, <1>5, <1>14, <3>2 DEF ScriptInv, FreshInv
    <3>6. QED BY <1>38, <3>4, <3>5
  <2>4. k = 10 \/ k = 11 =>
          /\ Underway((s - (2 * SampleInterval + Second)) + 1)
          /\ Known((s - (2 * SampleInterval + Second)) + 1)
    BY <1>1, <1>2, <1>5 DEF ScriptInv, FreshInv
  <2>5. k2 = 11 =>
          /\ Underway((t - (2 * SampleInterval + Second)) + 1)'
          /\ Known((t - (2 * SampleInterval + Second)) + 1)'
    <3>1. SUFFICES ASSUME k2 = 11
                   PROVE  /\ Underway((t - (2 * SampleInterval + Second)) + 1)'
                          /\ Known((t - (2 * SampleInterval + Second)) + 1)'
      OBVIOUS
    <3>2. k = 10 \/ k = 11 BY <1>4, <1>39, <3>1
    <3>3. t = s
      <4>1. k = 10 => s = c BY <1>2, <1>4, <1>5 DEF Sent
      <4>2. QED BY <1>33, <3>1, <3>2, <4>1
    <3>4. QED BY <1>38, <2>4, <3>2, <3>3
  <2>6. k2 = 12 => Underway(c - StaleTimeout)' /\ Known(c - StaleTimeout)'
    <3>1. SUFFICES ASSUME k2 = 12
                   PROVE  Underway(c - StaleTimeout) /\ Known(c - StaleTimeout)
      BY <1>38
    <3>2. k = 11 BY <1>4, <1>39, <3>1
    <3>3. 2 * SampleInterval + 2 * MaxDelay + Poll + Second <= StaleTimeout + 1
      BY DEF DemoTimings
    <3>4. PICK n \in Int : n = (s - (2 * SampleInterval + Second)) + 1 BY <1>4, <1>5
    <3>5. c - StaleTimeout <= n /\ c - StaleTimeout \in Int
      BY <1>4, <1>5, <1>18, <3>2, <3>3, <3>4
    <3>6. Underway(n) /\ Known(n) BY <2>4, <3>2, <3>4
    <3>7. inbox # <<>> => brokerDesired.sentAt \in Int BY DEF WordInv
    <3>8. QED BY <1>5, <3>5, <3>6, <3>7 DEF Underway, Known
  <2>7. QED BY <1>4, <2>1, <2>2, <2>3, <2>5, <2>6 DEF FreshInv
<1>48. OffInv'
  <2>1. k2 \in 0 .. 11 => (k = 7 \/ k = 9 \/ k = 10 \/ k = 11) /\ ~on /\ ~b
    BY <1>4, <1>16, <1>17, <1>18, <1>39
  <2>2. k \in 0 .. 11 => l = 0 BY <1>1, <1>2, <1>7 DEF ScriptInv, OffInv
  <2>3. k2 \in 0 .. 11 => ~device'.relayOn /\ device'.lastChangeTime = 0
    BY <1>10, <2>1, <2>2
  <2>4. k2 \in 0 .. 10 => k = 7 \/ k = 9 BY <1>4, <1>39
  <2>5. k = 7 \/ k = 9 => /\ ~service.rule.relayOn /\ service.rule.lastChangeTime = 0
                          /\ ~m /\ Says(FALSE) /\ (v => h <= FanOffPercent)
    BY <1>1, <1>2, <1>7 DEF ScriptInv, OffInv, Says
  <2>6. k2 \in 0 .. 9 => k = 7 BY <1>4, <1>39
  <2>7. k = 7 => Reported(40)' BY <1>35 DEF Reported
  <2>8. Says(FALSE)' = Says(FALSE) BY <1>38
  <2>9. QED
    BY <1>3, <1>4, <1>12, <1>31, <2>3, <2>4, <2>5, <2>6, <2>7, <2>8 DEF OffInv
<1>49. RiseInv'
  <2>1. k2 = 11 => k = 10 \/ (k = 11 /\ ~on) BY <1>4, <1>39
  <2>2. k2 = 11 => ~m /\ t = s
    <3>1. k = 10 => ~m BY <1>1, <1>2, <1>7 DEF ScriptInv, OffInv, Says
    <3>2. k = 10 => s = c BY <1>2, <1>4, <1>5 DEF Sent
    <3>3. QED BY <1>18, <1>33, <2>1, <3>1, <3>2
  <2>3. k2 = 11 => Humid(80)'
    <3>1. k = 10 \/ k = 11 => Humid(80) BY <1>1, <1>2, <1>3 DEF ScriptInv, RiseInv
    <3>2. QED BY <1>38, <2>1, <3>1
  <2>4. k2 = 11 => Reported(80)'
    <3>1. k = 10 => Reported(80)' BY <1>35 DEF Reported
    <3>2. k = 11 => Reported(80) /\ telemetry' = telemetry
      BY <1>1, <1>2, <1>4, <1>35 DEF ScriptInv, RiseInv
    <3>3. QED BY <2>1, <3>1, <3>2 DEF Reported
  <2>5. k2 = 11 => w2 <= t + (2 * MaxDelay + Poll)
    <3>1. k2 = 11 /\ k = 11 => c <= s + 2 * MaxDelay BY <1>15, <1>18, <2>1
    <3>2. k2 = 11 /\ k = 10 => t = c BY <1>4, <1>33
    <3>3. QED BY <1>4, <1>5, <1>31, <2>1, <2>2, <3>1, <3>2
  <2>6. k2 = 11 /\ telemetry' # <<>> =>
          ~service.rule.relayOn /\ service.rule.lastChangeTime = 0 /\ net.pc = "idle"
    <3>1. k = 10 => /\ ~service.rule.relayOn /\ service.rule.lastChangeTime = 0
                    /\ net.pc = "idle"
      BY <1>1, <1>2, <1>35 DEF ScriptInv, OffInv, Clear
    <3>2. k = 11 /\ telemetry # <<>> =>
            ~service.rule.relayOn /\ service.rule.lastChangeTime = 0 /\ net.pc = "idle"
      BY <1>1, <1>2 DEF ScriptInv, RiseInv
    <3>3. k = 11 => telemetry' = telemetry BY <1>4, <1>35
    <3>4. QED BY <2>1, <3>1, <3>2, <3>3
  <2>7. k2 = 11 /\ telemetry' = <<>> =>
          /\ service.rule.relayOn
          /\ service.rule.lastChangeTime = service.rule.relayOnSince
          /\ service.rule.relayOnSince >= e + t /\ service.rule.relayOnSince <= e + c
          /\ Says(TRUE) /\ (inbox # <<>> => net.pc = "idle") /\ net.pc # "issued"
          /\ ~Clear'
    <3>1. k = 10 => telemetry' # <<>> BY <1>35
    <3>2. k = 11 => telemetry' = telemetry BY <1>4, <1>35
    <3>3. k = 11 /\ telemetry = <<>> =>
          /\ service.rule.relayOn
          /\ service.rule.lastChangeTime = service.rule.relayOnSince
          /\ service.rule.relayOnSince >= e + s /\ service.rule.relayOnSince <= e + c
          /\ Says(TRUE) /\ (inbox # <<>> => net.pc = "idle") /\ (net.pc = "issued" => m)
      BY <1>1, <1>2, <1>5, <1>7 DEF ScriptInv, RiseInv, Says
    <3>4. k = 11 /\ ~on => ~Clear /\ ~m BY <1>18
    <3>5. QED BY <1>38, <2>1, <2>2, <3>1, <3>2, <3>3, <3>4
  <2>8. Says(TRUE)' = Says(TRUE) BY <1>38
  <2>9. k2 # 10 \/ ~Busy' BY <1>3
  <2>10. QED
    BY <1>3, <1>5, <1>12, <1>31, <1>33, <2>2, <2>3, <2>4, <2>5, <2>6, <2>7, <2>8
    DEF RiseInv
<1>50. HoldInv'
  <2>1. k2 \in 12 .. 17 =>
          \/ k = 11 /\ k2 = 12
          \/ k = 12 /\ k2 = 13
          \/ k = 13 /\ k2 = 14
          \/ k = 15 /\ k2 = 16
    BY <1>4, <1>39
  <2>2. k2 \in 12 .. 17 => on /\ m /\ l2 = z2 /\ v /\ x = 0 /\ h >= 65
    <3>1. k = 12 \/ k = 13 \/ k = 15 => l = z
      BY <1>1, <1>2, <1>7 DEF ScriptInv, HoldInv, Says
    <3>2. k2 = 12 => on BY <1>4, <1>39
    <3>3. k = 11 /\ on => m /\ l2 = z2 /\ v /\ x = 0 /\ h >= 65
      BY <1>10, <1>18
    <3>4. k = 12 \/ k = 13 \/ k = 15 => on /\ m /\ l2 = z2 /\ v /\ x = 0 /\ h >= 65
      BY <1>10, <1>19, <3>1
    <3>5. QED BY <2>1, <3>2, <3>3, <3>4
  <2>3. k2 \in 12 .. 17 =>
          /\ service.rule.relayOn /\ Says(TRUE)
          /\ service.rule.lastChangeTime = service.rule.relayOnSince
          /\ service.rule.relayOnSince <= e + c
    <3>1. k = 11 /\ m =>
          /\ service.rule.relayOn /\ Says(TRUE)
          /\ service.rule.lastChangeTime = service.rule.relayOnSince
          /\ service.rule.relayOnSince <= e + c
      BY <1>1, <1>2, <1>5, <1>18 DEF ScriptInv, RiseInv, Says
    <3>2. k = 12 \/ k = 13 \/ k = 15 =>
          /\ service.rule.relayOn /\ Says(TRUE)
          /\ service.rule.lastChangeTime = service.rule.relayOnSince
          /\ service.rule.relayOnSince <= e + c
      BY <1>1, <1>2, <1>5 DEF ScriptInv, HoldInv, Says
    <3>3. QED BY <2>1, <2>2, <3>1, <3>2
  <2>4. k2 = 12 \/ k2 = 13 => telemetry' = <<>> /\ inbox = <<>>
    <3>1. k2 = 12 \/ k2 = 13 => telemetry' = telemetry BY <1>4, <1>35, <2>1
    <3>2. k = 11 /\ m => telemetry = <<>> /\ inbox = <<>> BY <1>18
    <3>3. k = 12 => telemetry = <<>> /\ inbox = <<>> BY <1>1, <1>2 DEF ScriptInv, HoldInv
    <3>4. QED BY <2>1, <2>2, <3>1, <3>2, <3>3
  <2>5. k2 \in 12 .. 15 =>
          /\ z2 = t /\ service.rule.relayOnSince + (2 * MaxDelay + Poll) >= e + t
          /\ Reported(65)'
    <3>1. SUFFICES ASSUME k2 \in 12 .. 15
                   PROVE  /\ z2 = t
                          /\ service.rule.relayOnSince + (2 * MaxDelay + Poll) >= e + t
                          /\ Reported(65)'
      OBVIOUS
    <3>2. k2 = k + 1 /\ t = c BY <1>4, <1>33, <2>1, <3>1
    <3>3. PICK r \in Int : service.rule.relayOnSince = r
      BY <1>1 DEF ScriptInv, ScriptTypes
    <3>4. CASE k = 11
      <4>1. ~b /\ on /\ m /\ c <= s + (2 * MaxDelay + Poll) BY <1>18, <2>2, <3>1, <3>4
      <4>2. z2 = c BY <1>10, <4>1
      <4>3. r >= e + s
        BY <1>1, <1>2, <1>5, <1>18, <3>3, <3>4, <4>1 DEF ScriptInv, RiseInv
      <4>4. telemetry' = <<>> BY <1>4, <2>4, <3>2, <3>4
      <4>5. QED BY <1>4, <1>5, <3>2, <3>3, <4>1, <4>2, <4>3, <4>4 DEF Reported
    <3>5. CASE k = 12 \/ k = 13
      <4>1. b /\ on /\ z = s BY <1>19, <3>5
      <4>2. s = c BY <1>2, <1>4, <1>5, <3>5 DEF Sent
      <4>3. r + (2 * MaxDelay + Poll) >= e + s
        BY <1>1, <1>2, <1>4, <1>5, <3>3, <3>5 DEF ScriptInv, HoldInv
      <4>4. Reported(65)'
        <5>1. k = 12 => telemetry' = <<>> BY <1>4, <2>4, <3>2
        <5>2. k = 13 => Reported(65)' BY <1>35 DEF Reported
        <5>3. QED BY <3>5, <5>1, <5>2 DEF Reported
      <4>5. QED BY <1>10, <3>2, <3>3, <4>1, <4>2, <4>3, <4>4
    <3>6. QED BY <1>4, <2>1, <3>1, <3>4, <3>5
  <2>6. k2 = 16 => z2 <= c
    <3>1. k2 = 16 => k = 15 BY <1>4, <2>1
    <3>2. QED BY <1>5, <1>10, <1>19, <3>1
  <2>7. Says(TRUE)' = Says(TRUE) BY <1>38
  <2>8. /\ demo'.step = k2 /\ Sent' = t /\ UNCHANGED <<clock, machine, service, inbox>>
        /\ device'.relayOn = on /\ device'.lastChangeTime = l2 /\ device'.relayOnSince = z2
        /\ device'.mqttDesiredOn = m /\ device'.hasValidReading = v
        /\ device'.failures = x /\ device'.lastHumidity = h
    BY <1>3, <1>10, <1>12, <1>31, <1>33
  <2>9. k2 \in {12, 13} \/ k2 \in 12 .. 15 \/ k2 \in 12 .. 16 => k2 \in 12 .. 17
    OBVIOUS
  <2>10. k2 \in 12 .. 17 =>
           /\ device'.relayOn /\ device'.mqttDesiredOn /\ service'.rule.relayOn
           /\ Says(TRUE)'
           /\ device'.lastChangeTime = device'.relayOnSince
           /\ service'.rule.lastChangeTime = service'.rule.relayOnSince
           /\ service'.rule.relayOnSince <= machine'.epoch + clock'
    BY <1>5, <2>2, <2>3, <2>7, <2>8
  <2>11. QED
    BY <1>5, <2>2, <2>4, <2>5, <2>6, <2>8, <2>9, <2>10 DEF HoldInv
<1>51. FallInv'
  <2>1. k2 # 17 /\ k2 # 20 /\ (k2 = 18 => k = 17 \/ (k = 18 /\ on))
        /\ (k2 = 19 => k = 18 /\ ~on)
    BY <1>4, <1>39
  <2>2. k2 = 18 => Humid(50)'
    <3>1. k2 = 18 => v /\ x = 0 /\ h = 50 BY <1>21, <1>22, <2>1
    <3>2. QED BY <1>12, <3>1 DEF Humid
  <2>3. k2 = 18 => w2 <= t + (2 * MaxDelay + Poll)
    <3>1. k2 = 18 /\ k = 18 => c <= s + 2 * MaxDelay /\ t = s BY <1>15, <1>22, <1>33, <2>1
    <3>2. k2 = 18 /\ k = 17 => t = c /\ w2 = c BY <1>4, <1>33, <1>41
    <3>3. QED BY <1>4, <1>5, <1>40, <2>1, <3>1, <3>2
  <2>4. k2 = 18 => /\ on => l2 + MinFanOn <= t
                   /\ ~on => l2 = c /\ w2 <= c
    <3>1. k2 = 18 /\ k = 17 => b /\ l + MinFanOn <= c /\ t = c /\ w2 = c
      BY <1>4, <1>21, <1>33, <1>41
    <3>2. k2 = 18 /\ k = 18 => on /\ b /\ l + MinFanOn <= s /\ t = s
      BY <1>22, <1>33, <2>1
    <3>3. QED BY <1>4, <1>5, <1>10, <2>1, <3>1, <3>2
  <2>5. k2 = 18 \/ k2 = 19 => FallAnswer'
    <3>1. CASE k = 17
      <4>1. /\ telemetry' # <<>> /\ Clear /\ Head(telemetry').reading = Send(50).reading
        BY <1>35, <3>1
      <4>2. service.rule.relayOn /\ service.rule.lastChangeTime + MinFanOn <= e + c
        BY <1>1, <1>2, <1>5, <1>6, <3>1 DEF ScriptInv, HoldInv, FallInv
      <4>3. QED BY <1>3, <1>5, <4>1, <4>2 DEF FallAnswer, Reported, Clear
    <3>2. CASE k = 18
      <4>1. FallAnswer BY <1>1, <1>2, <3>2 DEF ScriptInv, FallInv
      <4>2. telemetry' = telemetry BY <1>4, <1>35, <3>2
      <4>3. QED
        BY <1>3, <1>5, <1>7, <1>12, <4>1, <4>2
        DEF FallAnswer, Reported, Says, Underway, Known, Clear
    <3>3. QED BY <2>1, <3>1, <3>2
  <2>6. k2 = 19 => ~on /\ l2 <= c
    BY <1>5, <1>10, <1>22, <2>1
  <2>7. QED
    <3>1. /\ demo'.step = k2 /\ demo'.wake = w2 /\ Sent' = t /\ clock' = c
          /\ device'.relayOn = on /\ device'.lastChangeTime = l2
      BY <1>5, <1>10, <1>31, <1>33
    <3>2. k2 \in 18 .. 20 => FallAnswer' BY <1>31, <2>1, <2>5
    <3>3. QED BY <1>4, <2>1, <2>2, <2>3, <2>4, <2>6, <3>1, <3>2 DEF FallInv
<1>52. CutoffInv'
  <2>1. /\ k2 # 20 /\ ~Busy' /\ ~Deciding'
        /\ k2 = 21 => k = 20 \/ (k = 21 /\ ~on)
        /\ k2 = 22 => on /\ (k = 21 \/ k = 22)
    BY <1>3, <1>4, <1>39
  <2>2. i <= c /\ j <= c
    <3>1. LastWord <= clock /\ LastWord \in Int BY DEF WordInv, LastWord, DemoTypes
    <3>2. i <= LastWord /\ j <= LastWord BY <1>5 DEF WordInv
    <3>3. QED BY <1>5, <3>1, <3>2
  <2>3. ASSUME k = 20
        PROVE  CutoffAnswer' /\ (on => Stale)
    <3>1. Clear /\ FallAnswer BY <1>1, <1>2, <1>14, <2>3 DEF ScriptInv, FallInv
    <3>2. /\ ~service.rule.relayOn /\ ~m
          /\ device.mqttReceived /\ i >= (q - (e + Second)) + 1 /\ i >= 0
      BY <1>5, <1>7, <3>1 DEF FallAnswer, Clear, Says, Known
    <3>4. on => Stale /\ Ripe
      BY <1>1, <1>2, <1>3, <1>7, <1>23, <2>3 DEF ScriptInv, CutoffInv, Says
    <3>5. telemetry' # <<>> /\ Reported(85)' BY <1>35, <2>3 DEF Reported
    <3>6. Humid(85)' BY <1>12, <1>23, <2>3 DEF Humid
    <3>7. net.pc = "idle" BY <3>1 DEF Clear
    <3>8. QED
      BY <1>3, <1>5, <1>12, <1>38, <2>1, <3>2, <3>4, <3>5, <3>6, <3>7
      DEF CutoffAnswer, Known
  <2>4. ASSUME k = 21 \/ k = 22, k = 22 => on
        PROVE  CutoffAnswer'
    <3>1. CutoffAnswer /\ telemetry' = telemetry
      BY <1>1, <1>2, <1>4, <1>35, <2>4 DEF ScriptInv, CutoffInv
    <3>2. /\ on => m \/ Running
          /\ Running => on
      <4>1. Running <=> b \/ ~f BY <1>3, <1>7 DEF Running
      <4>2. QED BY <1>25, <1>26, <2>4, <4>1
    <3>3. ~on => t = s BY <1>4, <1>33, <1>39, <2>4
    <3>4. Humid(85)' /\ Reported(85)' /\ Clear' = Clear
      BY <1>38, <3>1 DEF CutoffAnswer, Reported
    <3>5. /\ device.mqttReceived /\ i >= 0 /\ (net.pc # "idle" => net.issuedAt >= 0)
          /\ on /\ ~m => Stale
      BY <1>5, <1>7, <3>1, <3>2 DEF CutoffAnswer, Known
    <3>6. telemetry # <<>> =>
            /\ ~service.rule.relayOn /\ ~m /\ net.pc = "idle"
            /\ i >= (q - (e + Second)) + 1
            /\ on => Ripe
      BY <1>5, <1>7, <3>1, <3>2 DEF CutoffAnswer, Known
    <3>7. telemetry = <<>> =>
            /\ Says(service.rule.relayOn)
            /\ inbox # <<>> => net.pc = "idle"
            /\ net.pc = "issued" => m = service.rule.relayOn
            /\ ~service.rule.relayOn =>
                 /\ ~m
                 /\ on => Clear
                 /\ ~Clear => i >= (t - (MinFanOff + Second)) + 2
      <4>1. ASSUME telemetry = <<>>, ~service.rule.relayOn
            PROVE  /\ ~m /\ (on => Clear)
                   /\ ~Clear => i >= (s - (MinFanOff + Second)) + 2
        <5>1. ~m BY <1>7, <3>1, <4>1 DEF CutoffAnswer
        <5>2. on => Clear BY <3>1, <3>2, <4>1, <5>1 DEF CutoffAnswer
        <5>3. ~Clear => i >= (s - (MinFanOff + Second)) + 2
          BY <1>5, <3>1, <4>1 DEF CutoffAnswer, Known
        <5>4. QED BY <5>1, <5>2, <5>3
      <4>2. telemetry = <<>> =>
            /\ Says(service.rule.relayOn)
            /\ inbox # <<>> => net.pc = "idle"
            /\ net.pc = "issued" => m = service.rule.relayOn
        BY <1>7, <3>1 DEF CutoffAnswer, Says
      <4>3. QED BY <3>3, <4>1, <4>2
    <3>8. Says(service.rule.relayOn)' = Says(service.rule.relayOn) BY <1>3 DEF Says
    <3>9. /\ UNCHANGED <<net, inbox, service, machine, clock>> /\ Sent' = t
          /\ device'.mqttReceived = device.mqttReceived /\ device'.mqttDesiredOn = m
          /\ device'.mqttIssuedAt = i /\ Stale' = Stale /\ Ripe' = Ripe /\ Running' = on
      BY <1>3, <1>12, <1>33, <1>38
    <3>10. QED
      BY <1>4, <1>5, <2>1, <3>1, <3>4, <3>5, <3>6, <3>7, <3>8, <3>9, SMTT(40)
      DEF CutoffAnswer, Known
  <2>5. k2 = 21 \/ k2 = 22 => CutoffAnswer'
    BY <1>4, <2>1, <2>3, <2>4
  <2>6. k2 = 21 =>
          /\ w2 <= t + (MaxDelay + StaleTimeout + Poll)
          /\ on => z2 = c /\ w2 <= c
          /\ ~on => l2 + MinFanOff <= c
          /\ i <= t + MaxDelay /\ j <= t + MaxDelay
          /\ inbox # <<>> => brokerDesired.sentAt <= t + MaxDelay
    <3>1. CASE k = 20 /\ k2 = 21
      <4>1. t = c /\ w2 = c BY <1>4, <1>33, <1>41, <3>1
      <4>2. inbox = <<>> /\ ~b /\ l + MinFanOff <= c BY <1>23, <1>35, <3>1
      <4>3. QED BY <1>4, <1>5, <1>10, <2>2, <4>1, <4>2
    <3>2. CASE k = 21 /\ k2 = 21
      <4>1. t = s /\ w2 = c + Poll /\ ~on /\ ~b /\ f /\ l + MinFanOff <= c
        BY <1>25, <1>33, <1>40, <2>1, <3>2
      <4>2. /\ i <= s + MaxDelay /\ j <= s + MaxDelay /\ c <= s + (MaxDelay + StaleTimeout)
            /\ inbox # <<>> => brokerDesired.sentAt <= s + MaxDelay
        BY <1>1, <1>2, <1>3, <1>5, <1>7, <3>2, <4>1 DEF ScriptInv, CutoffInv
      <4>3. QED BY <1>4, <1>5, <1>10, <4>1, <4>2
    <3>3. QED BY <2>1, <3>1, <3>2
  <2>7. k2 = 22 =>
          /\ on /\ z2 # -1 /\ z2 <= c /\ w2 < z2 + (MaxRuntime + Poll)
          /\ d2 # -1 => d2 >= z2 + (MaxRuntime + Patience)
    <3>1. CASE k = 21 /\ k2 = 22
      <4>1. w2 = c /\ d2 = -1 /\ on BY <1>41, <2>1, <3>1
      <4>2. z2 = c BY <1>10, <1>25, <3>1, <4>1
      <4>3. QED BY <1>4, <1>5, <4>1, <4>2
    <3>2. CASE k = 22 /\ k2 = 22
      <4>1. on /\ w2 = c + Poll /\ b /\ z # -1 /\ z <= c /\ c < z + MaxRuntime
        BY <1>26, <1>40, <2>1, <3>2
      <4>2. z2 = z BY <1>10, <4>1
      <4>3. d2 >= z + (MaxRuntime + Patience)
        <5>1. Current.time = MaxRuntime + Patience
          BY <1>2, <3>2, FirstPart DEF Current, Await
        <5>2. PICK d \in Int : demo.deadline = d BY <1>1 DEF ScriptInv, ScriptTypes
        <5>3. d2 = IF d = -1 THEN c + (MaxRuntime + Patience) ELSE d
          BY <1>5, <1>32, <3>2, <5>1, <5>2 DEF Deadline, Never
        <5>4. d # -1 => d >= z + (MaxRuntime + Patience)
          BY <1>1, <1>2, <1>7, <3>2, <5>2 DEF ScriptInv, CutoffInv, Never
        <5>5. QED BY <1>4, <1>5, <4>1, <5>3, <5>4
      <4>4. QED BY <1>4, <1>5, <4>1, <4>2, <4>3
    <3>3. QED BY <2>1, <3>1, <3>2
  <2>8. /\ demo'.step = k2 /\ demo'.wake = w2 /\ demo'.deadline = d2 /\ Sent' = t
        /\ clock' = c /\ UNCHANGED <<net, inbox, brokerDesired>> /\ net.issuedAt = j
        /\ device'.relayOn = on /\ device'.lastChangeTime = l2 /\ device'.relayOnSince = z2
        /\ device'.mqttIssuedAt = i
    BY <1>3, <1>5, <1>10, <1>12, <1>31, <1>33
  <2>9. QED BY <2>1, <2>5, <2>6, <2>7, <2>8 DEF CutoffInv, Never
<1>53. StoppedInv'
  <2>1. /\ ~Busy' /\ ~Deciding' /\ k2 # 26
        /\ k2 \in 23 .. Last + 9 =>
             \/ (k = 22 /\ ~on) \/ k = 26 \/ k = 27 \/ k \in InvalidSends
             \/ k = Last + 4 \/ k = Last + 5
    BY <1>3, <1>4, <1>39
  <2>2. k2 \in 23 .. Last + 9 => ~on BY <1>27, <1>28, <2>1
  <2>3. k2 \in 27 .. Last + 4 => Stale
    <3>1. k2 \in 27 .. Last + 4 => k = 26 \/ k \in 27 .. Last + 4 BY <1>4, <1>39
    <3>2. k \in 27 .. Last + 4 => Stale BY <1>1, <1>2, <1>4 DEF ScriptInv, StoppedInv
    <3>3. k = 26 => Stale
      <4>1. SUFFICES ASSUME k = 26 PROVE Stale OBVIOUS
      <4>2. /\ service.state = "dead" /\ service.since \in Nat
            /\ c >= service.since + (StaleTimeout + 2 * SampleInterval)
        BY <1>1, <1>2, <1>4, <1>5, <1>6, <4>1 DEF ScriptInv, ServiceInv, StoppedInv,
           DemoTypes
      <4>3. i <= service.since BY <1>5, <4>2 DEF WordInv, LastWord
      <4>4. MaxDelay < SampleInterval BY DEF DemoTimings
      <4>5. c - i > StaleTimeout BY <1>4, <1>5, <4>2, <4>3, <4>4
      <4>6. QED BY <1>5, <4>5 DEF Stale
    <3>4. QED BY <3>1, <3>2, <3>3
  <2>4. k2 = 27 => d2 = -1 BY <1>4, <1>39, <1>41
  <2>5. k2 \in 27 .. Last + 9 => h <= FanOffPercent
    <3>1. k2 \in 27 .. Last + 9 => k = 26 \/ k \in 27 .. Last + 9 BY <1>4, <1>39
    <3>2. k = 26 \/ k \in 27 .. Last + 9 => h <= FanOffPercent
      BY <1>1, <1>2, <1>3, <1>4, <1>7 DEF ScriptInv, StoppedInv
    <3>3. QED BY <3>1, <3>2
  <2>6. k2 \in 28 .. Last + 1 => k2 <= 2 * x + 28
    <3>1. k2 \in 28 .. Last + 1 => (k = 27 /\ k2 = 28) \/ (k \in InvalidSends /\ k2 = k + 1)
      BY <1>4, <1>39
    <3>2. QED BY <1>29, <3>1
  <2>7. QED
    BY <1>3, <1>4, <1>10, <1>12, <1>31, <1>38, <2>1, <2>2, <2>3, <2>4, <2>5, <2>6
    DEF StoppedInv, Never
<1>54. RecoveryInv'
  <2>1. k2 = Last + 5 => k = Last + 4 \/ (k = Last + 5 /\ ~f) BY <1>4, <1>39
  <2>2. ~Deciding' /\ Says(FALSE)' = Says(FALSE) BY <1>3, <1>38
  <2>3. ASSUME k = Last + 4, k2 = Last + 5 PROVE RecoveryInv'
    <3>1. /\ telemetry' # <<>> /\ Clear /\ Head(telemetry').reading = Send(40).reading
          /\ t = c /\ w2 = c
      BY <1>4, <1>33, <1>35, <1>41, <2>3
    <3>2. service.rule = R!NewRule BY <1>1, <1>2, <1>4, <2>3 DEF ScriptInv, ServiceInv
    <3>3. ~service.rule.relayOn BY <3>2 DEF R!NewRule
    <3>4. Stale BY <1>1, <1>2, <1>4, <2>3 DEF ScriptInv, StoppedInv
    <3>5. inbox = <<>> /\ net.pc = "idle" BY <3>1 DEF Clear
    <3>6. Says(FALSE) BY <3>5 DEF Says
    <3>7. ~Clear' /\ Underway((t - Second) + 1)' /\ Reported(40)'
      BY <1>3, <3>1, <3>5 DEF Clear, Underway, Reported
    <3>8. w2 <= t + (2 * MaxDelay + Poll) BY <1>4, <1>5, <3>1
    <3>9. QED
      BY <1>3, <1>31, <1>33, <1>38, <2>2, <3>2, <3>3, <3>4, <3>5, <3>6, <3>7, <3>8
      DEF RecoveryInv
  <2>4. ASSUME k = Last + 5, k2 = Last + 5, ~f PROVE RecoveryInv'
    <3>1. telemetry' = telemetry /\ t = s /\ w2 = c + Poll
      BY <1>4, <1>33, <1>40, <2>4
    <3>2. w2 <= t + (2 * MaxDelay + Poll)
      BY <1>4, <1>5, <1>28, <2>4, <3>1
    <3>3. /\ Reported(40)
          /\ telemetry # <<>> => net.pc = "idle" /\ service.rule = R!NewRule
          /\ inbox # <<>> => net.pc = "idle"
          /\ ~service.rule.relayOn /\ Says(FALSE)
          /\ Stale \/ ~m
          /\ net.pc = "issued" => ~m
          /\ Underway((s - Second) + 1)
          /\ Clear => Known((s - Second) + 1)
      BY <1>1, <1>2, <1>5, <1>7, <2>4 DEF ScriptInv, RecoveryInv, Says
    <3>4. Reported(40)' /\ Clear' = Clear BY <1>38, <3>1, <3>3 DEF Reported
    <3>5. Underway((t - Second) + 1)' /\ (Clear' => Known((t - Second) + 1)')
      BY <1>38, <3>1, <3>3, <3>4
    <3>6. QED
      BY <1>3, <1>12, <1>31, <1>33, <1>38, <2>2, <3>1, <3>2, <3>3, <3>4, <3>5
      DEF RecoveryInv
  <2>5. CASE k2 # Last + 5 BY <1>31, <2>5 DEF RecoveryInv
  <2>6. QED BY <2>1, <2>3, <2>4, <2>5
<1>55. LogInv'
  <2>1. PICK o \in Int : log.lastOnAt = o /\ o <= c
    BY <1>1, <1>5 DEF ScriptInv, ScriptTypes, LogInv
  <2>2. log'.lastOnAt = (IF on /\ ~b THEN c ELSE o) /\ log'.lastOnAt \in Int
        /\ log'.lastOnAt <= c
    BY <1>5, <1>36, <2>1
  <2>3. k2 = 23 => log'.lastReason = "max_runtime_cutoff"
    <3>1. k2 = 23 => k = 22 /\ ~on BY <1>4, <1>39
    <3>2. QED BY <1>26, <1>36, <3>1
  <2>4. k2 \in {Last, Last + 1} => ~on /\ why = "sensor_invalid_safe_state"
    <3>1. Last > 28 BY <1>4, <1>13 DEF Last
    <3>2. k2 \in {Last, Last + 1} => k \in InvalidSends /\ k = Last - 1
      BY <1>4, <1>39, <3>1
    <3>3. QED BY <1>27, <1>29, <3>2
  <2>5. k2 # 26 BY <1>4, <1>39
  <2>6. k2 \in 27 .. Last + 9 =>
          log'.lastOnAt + (StaleTimeout + 2 * SampleInterval) <= c
    <3>1. SUFFICES ASSUME k2 \in 27 .. Last + 9
                   PROVE  o + (StaleTimeout + 2 * SampleInterval) <= c
      <4>1. k2 \in 27 .. Last + 9 => ~on
        <5>1. k2 \in 27 .. Last + 9 =>
                \/ k = 26 \/ k = 27 \/ k \in InvalidSends \/ k = Last + 4 \/ k = Last + 5
          BY <1>4, <1>39
        <5>2. QED BY <1>27, <1>28, <5>1
      <4>2. QED BY <2>2, <4>1
    <3>2. k = 26 \/ k \in 27 .. Last + 9 BY <1>4, <1>39, <3>1
    <3>3. QED BY <1>1, <1>2, <1>5, <1>6, <2>1, <3>2 DEF ScriptInv, LogInv
  <2>7. QED BY <1>5, <1>31, <1>36, <2>2, <2>3, <2>4, <2>5, <2>6 DEF LogInv
<1>56. SeenInv'
  <2>1. k >= 7 /\ k <= Last + 9 /\ k2 >= 8 /\ k2 # 9 BY <1>4, <1>6, <1>39
  <2>2. connected /\ observer \in {"connecting", "on"}
    BY <1>1, <1>2, <1>6, <2>1 DEF ScriptInv, SeenInv
  <2>3. k2 >= 10 => observer = "on"
    <3>1. k >= 10 => observer = "on" BY <1>1, <1>2, <2>1 DEF ScriptInv, SeenInv
    <3>2. k = 9 => observer = "on"
      <4>1. k = 9 => s = c - 2 * SampleInterval BY <1>2, <1>5, <1>6 DEF Sent
      <4>2. MaxDelay < SampleInterval BY DEF DemoTimings
      <4>3. k = 9 /\ observer = "connecting" => c = s
        BY <1>1, <1>2, <1>5 DEF ScriptInv, SeenInv
      <4>4. QED BY <1>4, <1>5, <2>2, <4>1, <4>2, <4>3
    <3>3. k2 >= 10 => k >= 9 BY <1>4, <1>39
    <3>4. QED BY <2>1, <3>1, <3>2, <3>3
  <2>4. k2 \in 12 .. Last + 9 => "on" \in log'.seen
    <3>1. k2 \in 12 .. Last + 9 => (k = 11 /\ on) \/ k \in 12 .. Last + 9
      BY <1>4, <1>39
    <3>2. k = 11 /\ on /\ k2 = 12 => brokerActual' = "on" /\ brokerActual' \in log'.seen
      BY <1>18, <1>36, <1>37, <2>3
    <3>3. k \in 12 .. Last + 9 => "on" \in log.seen
      BY <1>1, <1>2, <1>4 DEF ScriptInv, SeenInv
    <3>4. k = 11 /\ on => k2 = 12 BY <1>32
    <3>5. QED BY <1>36, <3>1, <3>2, <3>3, <3>4
  <2>5. k2 \in 19 .. Last + 9 \/ (k2 = 18 /\ ~on) => "off" \in log'.seen
    <3>1. k2 \in 19 .. Last + 9 \/ (k2 = 18 /\ ~on) =>
            \/ k \in {17, 18} /\ ~on
            \/ k \in 19 .. Last + 9
      BY <1>4, <1>39
    <3>2. k \in {17, 18} /\ ~on => "off" \in log'.seen
      <4>1. k \in {17, 18} /\ ~on /\ b =>
              brokerActual' = "off" /\ brokerActual' \in log'.seen
        <5>1. k \in {17, 18} => k2 >= 10 BY <1>4, <1>39
        <5>2. QED BY <1>36, <1>37, <2>3, <5>1
      <4>2. k = 17 => b BY <1>21
      <4>3. k = 18 /\ ~b => "off" \in log.seen
        BY <1>1, <1>2, <1>7 DEF ScriptInv, SeenInv
      <4>4. QED BY <1>36, <4>1, <4>2, <4>3
    <3>3. k \in 19 .. Last + 9 => "off" \in log.seen
      BY <1>1, <1>2, <1>4 DEF ScriptInv, SeenInv
    <3>4. QED BY <1>36, <3>1, <3>2, <3>3
  <2>6. k2 \in 13 .. Last + 9 /\ lastFallback' => brokerMode' = "local_fallback"
    <3>1. SUFFICES ASSUME k2 \in 13 .. Last + 9, lastFallback'
                   PROVE  brokerMode' = "local_fallback"
      OBVIOUS
    <3>2. ~f /\ lastFallback' = TRUE BY <1>37, <3>1
    <3>3. k # 12 BY <1>20, <3>2
    <3>4. k \in 13 .. Last + 9 BY <1>4, <1>39, <3>1, <3>3
    <3>5. lastFallback => brokerMode = "local_fallback"
      BY <1>1, <1>2, <3>4 DEF ScriptInv, SeenInv
    <3>6. CASE lastFallback' = lastFallback BY <1>37, <3>2, <3>5, <3>6
    <3>7. CASE lastFallback' # lastFallback BY <1>37, <3>2, <3>7
    <3>8. QED BY <3>6, <3>7
  <2>7. k2 \in 28 .. Last + 9 => "local_fallback" \in log'.seen
    <3>1. k2 \in 28 .. Last + 9 => k = 27 \/ k \in 28 .. Last + 9 BY <1>4, <1>39
    <3>2. k \in 28 .. Last + 9 => "local_fallback" \in log.seen
      BY <1>1, <1>2, <1>4 DEF ScriptInv, SeenInv
    <3>3. k = 27 => "local_fallback" \in log'.seen
      <4>1. k = 27 => ~f /\ k2 \in 13 .. Last + 9 BY <1>4, <1>27, <1>39
      <4>2. k = 27 => lastFallback' BY <1>37, <4>1
      <4>3. k = 27 => brokerMode' = "local_fallback" BY <2>6, <4>1, <4>2
      <4>4. k = 27 => brokerMode' \in log'.seen
        <5>1. k = 27 => observer = "on" BY <1>4, <2>3, <4>1
        <5>2. QED BY <1>36, <5>1
      <4>5. QED BY <4>3, <4>4
    <3>4. QED BY <1>36, <3>1, <3>2, <3>3
  <2>8. /\ demo'.step = k2 /\ device'.relayOn = on
        /\ UNCHANGED <<connected, observer, clock>>
    BY <1>3, <1>10, <1>31
  <2>9. QED BY <1>4, <2>1, <2>2, <2>3, <2>4, <2>5, <2>6, <2>7, <2>8 DEF SeenInv
<1>57. QED
  BY <1>30, <1>42, <1>43, <1>44, <1>45, <1>46, <1>47, <1>48, <1>49, <1>50, <1>51, <1>52,
     <1>53,
     <1>54, <1>55, <1>56 DEF ScriptInv

-----------------------------------------------------------------------------
(* Why the demonstration succeeds *)

\* No wait of the script ends without what it waits for.
LEMMA NoTimeOut ==
  ASSUME DemoTimings, DemoTypes, ScriptInv, InScript, TimeOut
  PROVE  FALSE
<1>1. ScriptInv BY DEF ScriptInv
<1>2. PICK k \in Nat : demo.step = k BY StepTypes, ProgramShape
<1>3. /\ Last \in Nat /\ Last >= 27 /\ MaxDelay \in Nat /\ Second \in Nat /\ Poll \in Nat
      /\ Poll > 0 /\ MaxRuntime \in Nat /\ StaleTimeout \in Nat /\ SampleInterval \in Nat
      /\ Patience \in Nat /\ BrokerPatience \in Nat
  BY Numbers
<1>4. /\ StaleTimeout + MaxDelay + Poll < Patience /\ Poll < BrokerPatience
      /\ 2 * SampleInterval + 2 * MaxDelay + Poll + Second <= StaleTimeout + 1
  BY DEF DemoTimings
<1>5. PICK c \in Nat, w \in Nat, d \in Int, s \in Int :
        clock = c /\ demo.wake = w /\ demo.deadline = d /\ Sent = s
  BY <1>1, SentType DEF DemoTypes, ScriptInv, ScriptTypes
<1>6. k = 2 \/ k = 11 \/ k = 18 \/ k = 21 \/ k = 22 \/ k = 27 \/ k = Last + 5
  <2>1. CASE At("wait_for_broker") BY <1>2, <2>1, AtStep, WhereIs
  <2>2. CASE At("await") BY <1>2, <2>2, AtStep, WhereIs
  <2>3. QED BY <2>1, <2>2 DEF TimeOut
<1>7. main.pc = "idle" /\ ~Busy
  <2>1. \A op : At(op) => main.pc = "idle" BY AtOnce
  <2>2. QED BY <2>1 DEF TimeOut, Busy
<1>8. PICK n \in Nat : Current.time = n /\ n > 0 /\ (k # 2 /\ k # 22 => n = Patience)
                       /\ (k = 22 => n = MaxRuntime + Patience)
  <2>1. /\ k = 2 => Current.time = BrokerPatience
        /\ k \in {11, 18, 21, 27} => Current.time = Patience
        /\ k = 22 => Current.time = MaxRuntime + Patience
    BY <1>2, FirstPart DEF Current, Await
  <2>2. k = Last + 5 => Current.time = Patience BY <1>2, LastPart DEF Current, Await
  <2>3. QED BY <1>3, <1>4, <1>6, <2>1, <2>2
<1>9. d # -1 /\ c >= d
  <2>1. c >= IF d = -1 THEN c + n ELSE d
    BY <1>5, <1>8 DEF TimeOut, TimedOut, Deadline, Never
  <2>2. QED BY <1>5, <1>8, <2>1
<1>10. c <= w
  <2>1. k \notin {24, 25} BY <1>3, <1>6
  <2>2. QED BY <1>1, <1>2, <1>5, <2>1 DEF ScriptInv, Times
<1>11. CASE k = 2
  <2>1. w < d /\ c <= w
    BY <1>1, <1>2, <1>5, <1>9, <1>10, <1>11 DEF ScriptInv, BrokerInv, Never
  <2>2. QED BY <1>5, <1>9, <2>1
<1>12. CASE k = 22
  <2>1. PICK z \in Int : device.relayOnSince = z BY <1>1 DEF ScriptInv, ScriptTypes
  <2>2. w < z + (MaxRuntime + Poll) /\ d >= z + (MaxRuntime + Patience)
    BY <1>1, <1>2, <1>5, <1>9, <1>12, <2>1 DEF ScriptInv, CutoffInv, Never
  <2>3. QED BY <1>3, <1>4, <1>5, <1>9, <1>10, <2>1, <2>2
<1>13. CASE k = 27 BY <1>1, <1>2, <1>5, <1>7, <1>9, <1>13 DEF ScriptInv, StoppedInv, Never
<1>14. CASE k = 11 \/ k = 18 \/ k = 21 \/ k = Last + 5
  <2>1. s = d - Patience BY <1>2, <1>3, <1>5, <1>9, <1>14 DEF Sent, Never
  <2>2. k = 11 => w <= s + (2 * MaxDelay + Poll)
    BY <1>1, <1>2, <1>5 DEF ScriptInv, RiseInv
  <2>3. k = 18 => w <= s + (2 * MaxDelay + Poll)
    BY <1>1, <1>2, <1>5 DEF ScriptInv, FallInv
  <2>4. k = 21 => w <= s + (MaxDelay + StaleTimeout + Poll)
    BY <1>1, <1>2, <1>5 DEF ScriptInv, CutoffInv
  <2>5. k = Last + 5 => w <= s + (2 * MaxDelay + Poll)
    BY <1>1, <1>2, <1>5 DEF ScriptInv, RecoveryInv
  <2>6. QED BY <1>3, <1>4, <1>5, <1>9, <1>10, <1>14, <2>1, <2>2, <2>3, <2>4, <2>5
<1>15. QED BY <1>6, <1>11, <1>12, <1>13, <1>14

\* What the script asserts it finds.
LEMMA AssertsHold ==
  ASSUME DemoTimings, DemoTypes, ScriptInv, InScript, AssertFound
  PROVE  Found(log)[Current.want]
<1>1. ScriptInv BY DEF ScriptInv
<1>2. PICK k \in Nat : demo.step = k BY StepTypes, ProgramShape
<1>3. /\ Last \in Nat /\ Last >= 27 /\ StaleTimeout \in Nat /\ SampleInterval \in Nat
      /\ MaxDelay \in Nat /\ Poll \in Nat /\ Second \in Nat /\ clock \in Nat
      /\ log.lastOnAt \in Int
  BY <1>1, Numbers DEF DemoTypes, ScriptInv, ScriptTypes
<1>4. k = 23 \/ k = Last + 1 \/ k = Last + 6 \/ k = Last + 7
  BY <1>2, AtStep, WhereIs DEF AssertFound
<1>5. /\ k = 23 => Current = Expect("cutoff")
      /\ k = Last + 1 => Current = Expect("safe_state")
      /\ k = Last + 6 => Current = Expect("quiet")
      /\ k = Last + 7 => Current = Expect("observed")
  BY <1>2, FirstPart, LastPart DEF Current
<1>11. /\ Found(log)["cutoff"] = (log.lastReason = "max_runtime_cutoff")
       /\ Found(log)["safe_state"]
            = (~log.on /\ log.reason = "sensor_invalid_safe_state")
       /\ Found(log)["quiet"] = (log.lastOnAt <= clock - 3 * SampleInterval)
       /\ Found(log)["observed"] = ({"on", "off", "local_fallback"} \subseteq log.seen)
  BY DEF Found
<1>6. CASE k = 23
  <2>1. Current.want = "cutoff" BY <1>5, <1>6 DEF Expect
  <2>2. log.lastReason = "max_runtime_cutoff" BY <1>1, <1>2, <1>6 DEF ScriptInv, LogInv
  <2>3. QED BY <1>11, <2>1, <2>2
<1>7. CASE k = Last + 1
  <2>1. Current.want = "safe_state" BY <1>5, <1>7 DEF Expect
  <2>2. ~log.on /\ log.reason = "sensor_invalid_safe_state"
    BY <1>1, <1>2, <1>3, <1>7 DEF ScriptInv, LogInv
  <2>3. QED BY <1>11, <2>1, <2>2
<1>8. CASE k = Last + 6
  <2>1. Current.want = "quiet" BY <1>5, <1>8 DEF Expect
  <2>2. log.lastOnAt + (StaleTimeout + 2 * SampleInterval) <= clock
    BY <1>1, <1>2, <1>3, <1>8 DEF ScriptInv, LogInv
  <2>3. 2 * SampleInterval + 2 * MaxDelay + Poll + Second <= StaleTimeout + 1 /\ Poll > 0
    BY Numbers DEF DemoTimings
  <2>4. log.lastOnAt <= clock - 3 * SampleInterval BY <1>3, <2>2, <2>3
  <2>5. QED BY <1>11, <2>1, <2>4
<1>9. CASE k = Last + 7
  <2>1. Current.want = "observed" BY <1>5, <1>9 DEF Expect
  <2>2. {"on", "off", "local_fallback"} \subseteq log.seen
    BY <1>1, <1>2, <1>3, <1>9 DEF ScriptInv, SeenInv
  <2>3. QED BY <1>11, <2>1, <2>2
<1>10. QED BY <1>4, <1>6, <1>7, <1>8, <1>9

\* How the script can fail without a fault.
LEMMA Failures ==
  ASSUME DemoTypes, TickInv, DemoNext, Fine', demo.code # "failed", demo'.code = "failed"
  PROVE  /\ InScript
         /\ \/ TimeOut
            \/ AssertFound /\ ~Found(log)[Current.want]
            \/ FinishDemoTick /\ demo' # Continued /\ demo' # Again
<1>1. Record(demo, {"step", "wake", "deadline", "code"}) BY DEF DemoTypes
<1>2. Continued.code = demo.code /\ Again.code = demo.code
  BY <1>1 DEF Continued, Again, Record
<1>3. demo' # demo /\ demo' # Continued /\ demo' # Again BY <1>2
<1>4. ~LaunchDemo BY <1>1 DEF LaunchDemo, Record
<1>5. ~GoToSleep
  <2>1. [Continued EXCEPT !.wake = clock + Current.time].code = Continued.code
    BY Moves, DemoTypes DEF Record
  <2>2. QED BY <1>2, <2>1 DEF GoToSleep
<1>6. ~Succeed
  <2>1. [Continued EXCEPT !.code = "ok"].code = "ok" BY Moves, DemoTypes DEF Record
  <2>2. QED BY <2>1 DEF Succeed
<1>7. ~(LookAtDevice \/ Terminate)
  BY <1>1 DEF LookAtDevice, Terminate, Record
<1>8. ~(SendReading \/ CheckDemoFresh \/ Network \/ BrokerReady \/ ServiceReady
        \/ ServiceRefused \/ ServiceHandles \/ ObserverSubscribed \/ DemoTimePasses
        \/ CrashService \/ ServiceExits)
  BY <1>3 DEF SendReading, CheckDemoFresh, Network, BrokerReady, ServiceReady,
     ServiceRefused, ServiceHandles, ObserverSubscribed, DemoTimePasses, CrashService,
     ServiceExits
<1>9. ~(ConnectDevice \/ StopDevice \/ StartObserver \/ StopObserver \/ StartBroker
        \/ LookForBroker \/ StopBroker \/ StartService \/ ServiceStopped
        \/ ReportReturned(TRUE) \/ ReportReturned(FALSE))
  BY <1>3 DEF ConnectDevice, StopDevice, StartObserver, StopObserver, StartBroker,
     LookForBroker, StopBroker, StartService, ServiceStopped, ReportReturned, Fine
<1>10. \/ TimeOut
       \/ AssertFound /\ ~Found(log)[Current.want]
       \/ FinishDemoTick
  <2>1. TimeOut \/ AssertFound \/ FinishDemoTick
    BY <1>4, <1>5, <1>6, <1>7, <1>8, <1>9 DEF DemoNext, ScriptStep, WorldStep
  <2>2. AssertFound => ~Found(log)[Current.want] BY <1>3 DEF AssertFound
  <2>3. QED BY <2>1, <2>2
<1>11. InScript
  <2>1. InDemo /\ Current.op \in {"wait_for_broker", "await", "assert", "send", "check"}
    <3>1. CASE TimeOut \/ AssertFound BY <3>1, AtOnce DEF TimeOut, AssertFound
    <3>2. CASE FinishDemoTick BY <3>2 DEF TickInv, FinishDemoTick, FinishTick
    <3>3. QED BY <1>10, <3>1, <3>2
  <2>2. Current.op \notin Stops BY <2>1 DEF Stops
  <2>3. QED BY <2>1, <2>2, CleanUpIsLast DEF InScript
<1>12. QED BY <1>3, <1>10, <1>11

\* It does so at first.
LEMMA SucceedingAtFirst ==
  ASSUME DemoTimings, FullInit
  PROVE  Succeeding
<1>1. /\ DemoInit /\ SimInit /\ demo = NoDemo /\ log = EmptyLog /\ broker = "none"
      /\ service = NoService /\ telemetry = <<>> /\ observer = "none"
  BY DEF FullInit, DemoInit
<1>2. /\ device = NewController /\ main = MainIdle /\ net = NetIdle
      /\ inbox = <<>> /\ brokerDesired = NoMessage /\ clock = 0
      /\ machine.epoch \in Nat
  <2>1. DemoTypes BY DemoInvInit DEF DemoInv
  <2>2. brokerDesired = NoMessage BY <1>1 DEF SimInit, DemoTimings
  <2>3. QED BY <1>1, <2>1, <2>2 DEF SimInit, DemoTypes
<1>3. /\ demo.step = 0 /\ demo.wake = 0 /\ demo.deadline = -1 /\ demo.code = "none"
      /\ log.lastOnAt = -1 /\ Record(log, DOMAIN EmptyLog)
  BY <1>1 DEF NoDemo, EmptyLog, Never, Record
<1>4. /\ device.relayOn = FALSE /\ device.mqttReceived = FALSE
      /\ device.mqttDesiredOn = FALSE /\ device.hasValidReading = FALSE
      /\ device.lastChangeTime = 0 /\ device.relayOnSince = -1
      /\ device.lastHumidity = 0 /\ device.failures = 0
  BY <1>2 DEF NewController, Never
<1>5. /\ main.fresh = FALSE /\ main.pc = "idle" /\ net.pc = "idle"
      /\ net.message.on = FALSE /\ brokerDesired.on = FALSE
  BY <1>2 DEF MainIdle, NetIdle, NoMessage
<1>6. /\ Record(service.rule, DOMAIN R!NewRule) /\ service.rule.relayOn = FALSE
      /\ service.rule.lastChangeTime = 0 /\ service.rule.relayOnSince = -1
      /\ service.rule = R!NewRule
  BY <1>1 DEF NoService, R!NewRule, R!Never, Record
<1>7. Last \in Nat /\ Last >= 27 BY Numbers
<1>8. Sent = 0 /\ ~Busy /\ ~Deciding BY <1>2, <1>3, <1>5, <1>7 DEF Sent, Busy, Deciding
<1>9. Clear /\ Says(FALSE) /\ Reported(40)
  BY <1>1, <1>2, <1>5 DEF Clear, Says, Reported
<1>10. ScriptTypes
  <2>1. /\ demo.wake \in Nat /\ demo.deadline \in Int
        /\ device.lastChangeTime \in Int /\ device.relayOnSince \in Int
        /\ device.lastHumidity \in Int /\ device.failures \in Nat
        /\ service.rule.lastChangeTime \in Int /\ service.rule.relayOnSince \in Int
        /\ log.lastOnAt \in Int
    BY <1>3, <1>4, <1>6
  <2>2. /\ device.relayOn \in BOOLEAN /\ device.mqttReceived \in BOOLEAN
        /\ device.mqttDesiredOn \in BOOLEAN /\ device.hasValidReading \in BOOLEAN
        /\ main.fresh \in BOOLEAN /\ service.rule.relayOn \in BOOLEAN
        /\ Record(log, DOMAIN EmptyLog) /\ Record(service.rule, DOMAIN R!NewRule)
    BY <1>3, <1>4, <1>5, <1>6, Zenon
  <2>3. /\ net.pc \in {"idle", "received", "desired", "issued"}
        /\ net.message.on \in BOOLEAN /\ brokerDesired.on \in BOOLEAN
        /\ telemetry = <<>> /\ inbox = <<>>
    BY <1>1, <1>2, <1>5
  <2>4. QED BY <2>1, <2>2, <2>3 DEF ScriptTypes
<1>11. Times BY <1>2, <1>3, <1>7, <1>8 DEF Times
<1>12. BrokerInv /\ RiseInv /\ HoldInv /\ FallInv
  BY <1>3, <1>7 DEF BrokerInv, RiseInv, HoldInv, FallInv
<1>13. ServiceInv BY <1>1, <1>3, <1>6, <1>7 DEF ServiceInv
<1>14. QueueInv BY <1>1, <1>2, <1>3, <1>5, <1>7, <1>9 DEF QueueInv
<1>15. FreshInv /\ CutoffInv /\ StoppedInv /\ RecoveryInv
  <2>1. FreshInv /\ CutoffInv BY <1>3 DEF FreshInv, CutoffInv
  <2>2. StoppedInv BY <1>3, <1>7, <1>8 DEF StoppedInv
  <2>3. RecoveryInv BY <1>3, <1>7 DEF RecoveryInv
  <2>4. QED BY <2>1, <2>2, <2>3
<1>16. OffInv BY <1>3, <1>4, <1>6, <1>9 DEF OffInv
<1>17. LogInv /\ SeenInv BY <1>2, <1>3, <1>7 DEF LogInv, SeenInv
<1>18. QED
  BY <1>3, <1>10, <1>11, <1>12, <1>13, <1>14, <1>15, <1>16, <1>17 DEF Succeeding, ScriptInv

\* A step that leaves the demonstration alone leaves it so.
LEMMA SucceedingKept ==
  ASSUME Succeeding, UNCHANGED demoVars
  PROVE  Succeeding'
<1>1. UNCHANGED <<device, main, net, connected, lastFallback, inbox, brokerDesired,
                  brokerActual, brokerMode, clock, demo, log, broker, service, telemetry,
                  observer, machine, faulty>>
  BY DEF demoVars, simVars, worldVars, brokerVars
<1>2. Fine' = Fine /\ InScript' = InScript
  BY <1>1 DEF Fine, ServiceConfig, ServiceEnvironment, InScript
<1>3. Sent' = Sent /\ Busy' = Busy /\ Deciding' = Deciding /\ Clear' = Clear
      /\ Stale' = Stale
  BY <1>1 DEF Sent, Busy, Deciding, Clear, Stale
<1>4. ASSUME ScriptInv PROVE ScriptInv'
  <2>1. /\ Times' /\ QueueInv' /\ FreshInv' /\ OffInv' /\ RiseInv' /\ HoldInv'
        /\ FallInv' /\ CutoffInv' /\ RecoveryInv'
    BY <1>1, <1>4, Kept
  <2>2. ScriptTypes' /\ BrokerInv' /\ ServiceInv'
    BY <1>1, <1>3, <1>4 DEF ScriptInv, ScriptTypes, BrokerInv, ServiceInv
  <2>3. StoppedInv' /\ LogInv' /\ SeenInv'
    BY <1>1, <1>3, <1>4 DEF ScriptInv, StoppedInv, LogInv, SeenInv
  <2>4. QED BY <2>1, <2>2, <2>3 DEF ScriptInv
<1>5. QED BY <1>1, <1>2, <1>4 DEF Succeeding

\* And after every step.
LEMMA SucceedingNext ==
  ASSUME DemoTimings, DemoInv, Succeeding, DemoNext
  PROVE  Succeeding'
<1> SUFFICES ASSUME Fine' PROVE demo'.code # "failed" /\ (InScript' => ScriptInv')
  BY DEF Succeeding
<1>1. DemoTypes /\ TickInv /\ WordInv BY DEF DemoInv
<1>2. Fine /\ (InScript' => InScript /\ FineNext /\ demo' # Failed) BY FineSteps
<1>3. demo.code # "failed" /\ (InScript => ScriptInv) BY <1>2 DEF Succeeding
<1>4. demo'.code # "failed"
  <2>1. SUFFICES ASSUME demo'.code = "failed" PROVE FALSE OBVIOUS
  <2>2. /\ InScript
        /\ \/ TimeOut
           \/ AssertFound /\ ~Found(log)[Current.want]
           \/ FinishDemoTick /\ demo' # Continued /\ demo' # Again
    BY <1>1, <1>3, <2>1, Failures
  <2>3. ScriptInv BY <1>3, <2>2
  <2>4. QED BY <1>1, <2>2, <2>3, NoTimeOut, AssertsHold, FineTick
<1>5. ASSUME InScript' PROVE ScriptInv'
  <2>1. InScript /\ FineNext /\ demo' # Failed /\ ScriptInv BY <1>2, <1>3, <1>5
  <2>2. CASE GoToSleep BY <1>1, <2>1, <2>2, FineSleep
  <2>3. CASE SendReading BY <1>1, <2>1, <2>3, FineSend
  <2>4. CASE LookAtDevice BY <1>1, <2>1, <2>4, FineLook
  <2>5. CASE CheckDemoFresh BY <1>1, <2>1, <2>5, FineCheckFresh
  <2>6. CASE FinishDemoTick BY <1>1, <2>1, <2>6, FineTick
  <2>7. CASE LookForBroker /\ broker # "ready" BY <1>1, <2>1, <2>7, FineLookAgain
  <2>8. CASE Terminate BY <1>1, <2>1, <2>8, FineTerminate
  <2>9. CASE \/ LaunchDemo \/ AssertFound \/ ReportEndedWell \/ StartBroker
             \/ LookForBroker /\ broker = "ready"
             \/ StartService \/ ServiceStopped \/ StartObserver \/ ConnectDevice
    BY <1>1, <2>1, <2>9, FineScript
  <2>10. CASE Network
    <3>1. UNCHANGED <<demo, log, worldVars>> BY <2>10 DEF Network
    <3>2. CASE OnMessage BY <1>1, <2>1, <3>1, <3>2, FineOnMessage
    <3>3. CASE SetReceived BY <1>1, <2>1, <3>1, <3>3, FineSetReceived
    <3>4. CASE SetDesired BY <1>1, <2>1, <3>1, <3>4, FineSetDesired
    <3>5. CASE SetIssuedAt BY <1>1, <2>1, <3>1, <3>5, FineSetIssuedAt
    <3>6. QED BY <2>10, <3>2, <3>3, <3>4, <3>5 DEF Network
  <2>11. CASE BrokerReady \/ ServiceReady \/ ServiceExits \/ ObserverSubscribed
    BY <1>1, <2>1, <2>11, FineWorld
  <2>12. CASE ServiceHandles BY <1>1, <2>1, <2>12, FineAnswer
  <2>13. CASE DemoTimePasses BY <1>1, <2>1, <2>13, FineTime
  <2>14. QED
    BY <2>1, <2>2, <2>3, <2>4, <2>5, <2>6, <2>7, <2>8, <2>9, <2>10, <2>11, <2>12, <2>13
    DEF FineNext
<1>6. QED BY <1>4, <1>5

\* With the timings of demo.yaml and the delays they stand the demonstration fails only
\* after a fault.
THEOREM OnlyFaultsFailTheDemo == DemoTimings => (FullSpec => []FailsOnlyAfterFault)
<1>1. DemoTimings /\ FullInit => Succeeding BY SucceedingAtFirst
<1>2. DemoTimings /\ DemoInv /\ Succeeding /\ [FullNext]_fullVars => Succeeding'
  <2> SUFFICES ASSUME DemoTimings, DemoInv, Succeeding, [FullNext]_fullVars
               PROVE  Succeeding'
    OBVIOUS
  <2>1. CASE DemoNext BY <2>1, SucceedingNext
  <2>2. CASE UNCHANGED demoVars BY <2>2, SucceedingKept
  <2>3. QED BY <2>1, <2>2, Steps
<1>3. Succeeding => FailsOnlyAfterFault
  BY DEF Succeeding, Fine, FailsOnlyAfterFault
<1>4. SUFFICES ASSUME DemoTimings PROVE FullSpec => []FailsOnlyAfterFault OBVIOUS
<1>5. QED BY <1>1, <1>2, <1>3, <1>4, DemoInvHolds, PTL DEF FullSpec

=============================================================================
