------------------------------ MODULE SimDevice ------------------------------
(***************************************************************************)
(* SimulatedDevice of simulator/simulator/device_simulator.py: one         *)
(* DeviceController shared without a lock by two threads.  The main thread *)
(* reads the sensor and ticks; paho's network thread delivers fan/desired  *)
(* messages to on_mqtt_desired.  The steps below are the moments between   *)
(* which the other thread may run; what a thread does to fields only it    *)
(* uses is joined to a neighbouring step.                                  *)
(*                                                                         *)
(* The connection is lost and regained only by the main thread's own       *)
(* disconnect() and reconnect(), as in the end-to-end demonstration.       *)
(* Telemetry changes no state of the device and is left out.               *)
(***************************************************************************)
EXTENDS DeviceController, Sequences

CONSTANTS
  Readings,     \* what the main thread is given as a reading
  PastMessage,  \* what the broker retained before the device started, or none
  PastTopics,   \* the same for what an earlier life of the device published
  ReadLag,      \* longest time between the two clocks read for one message
  InboxMax,     \* bound on the messages under way
  Horizon       \* bound on the time that passes

ASSUME SimAssumption ==
  /\ {ReadLag, InboxMax, Horizon} \subseteq Nat
  /\ PastMessage \subseteq [on : BOOLEAN, sentAt : {time \in Int : time <= 0}]

\* A mode that an earlier life left is told apart from the same mode published now.
ASSUME PastAssumption ==
  \A past \in PastTopics :
    /\ past.actual \in {"none", "on", "off"}
    /\ past.mode \notin {"automatic", "local_fallback"}

VARIABLES
  device,         \* the DeviceController
  main,           \* where the main thread is, and its local variables
  net,            \* the same for the network thread
  connected,      \* _connected
  lastFallback,   \* _last_fallback_active
  inbox,          \* fan/desired messages on their way to the device
  brokerDesired,  \* retained message of fan/desired
  brokerActual,   \* retained state on fan/actual
  brokerMode,     \* retained operating_mode on mode
  clock,          \* the device's clock(), zero when it started
  valueSentAt     \* history: when the message in mqtt_desired_on was issued

brokerVars == <<brokerDesired, brokerActual, brokerMode>>
simVars == <<device, main, net, connected, lastFallback, inbox, brokerVars,
             clock, valueSentAt>>

NoMessage == [on |-> FALSE, sentAt |-> Never]

MainIdle == [pc |-> "idle", now |-> 0, fresh |-> FALSE]
NetIdle  == [pc |-> "idle", message |-> NoMessage, age |-> 0, issuedAt |-> Never]

SimInit ==
  /\ device = NewController
  /\ main = MainIdle
  /\ net = NetIdle
  /\ connected = FALSE
  /\ lastFallback = TRUE
  /\ inbox = <<>>
  /\ brokerDesired \in PastMessage
  /\ \E past \in PastTopics : brokerActual = past.actual /\ brokerMode = past.mode
  /\ clock = 0
  /\ valueSentAt = 0

-----------------------------------------------------------------------------
(* The main thread *)

\* publish_reading, up to the call of tick.
PublishSample(reading) ==
  /\ main.pc = "idle"
  /\ device' = OnSensorReading(device, reading)
  /\ main' = [pc |-> "tick", now |-> clock, fresh |-> FALSE]
  /\ UNCHANGED <<net, connected, lastFallback, inbox, brokerVars, clock, valueSentAt>>

PublishReading == \E reading \in Readings : PublishSample(reading)

\* tick_once, up to the call of tick.
TickOnce ==
  /\ main.pc = "idle"
  /\ main' = [pc |-> "tick", now |-> clock, fresh |-> FALSE]
  /\ UNCHANGED <<device, net, connected, lastFallback, inbox, brokerVars, clock,
                 valueSentAt>>

\* _mqtt_fresh: a first look at what the network thread writes.
CheckFresh ==
  /\ main.pc = "tick"
  /\ main' = [main EXCEPT !.pc = "decide", !.fresh = MqttFresh(device, main.now)]
  /\ UNCHANGED <<device, net, connected, lastFallback, inbox, brokerVars, clock,
                 valueSentAt>>

Mode == IF main.fresh THEN "automatic" ELSE "local_fallback"

\* Mutant: the mode taken for published although there is no connection.
MutantPublishStateUpdates(changed, on) ==
  /\ lastFallback' = ~main.fresh
  /\ brokerMode' = IF connected /\ lastFallback' # lastFallback
                     THEN Mode ELSE brokerMode
  /\ brokerActual' = IF connected /\ changed
                       THEN IF on THEN "on" ELSE "off" ELSE brokerActual

\* _publish_state_updates: without a connection nothing is remembered.
PublishStateUpdates(changed, on) ==
  IF ~connected THEN UNCHANGED <<lastFallback, brokerMode, brokerActual>>
  ELSE /\ lastFallback' = ~main.fresh
       /\ brokerMode' = IF lastFallback' # lastFallback THEN Mode ELSE brokerMode
       /\ brokerActual' = IF ~changed THEN brokerActual
                          ELSE IF on THEN "on" ELSE "off"

\* The rest of tick: a second look, at mqtt_desired_on, and the publications.
FinishTick ==
  /\ main.pc = "decide"
  /\ device' = Ticked(device, main.fresh, main.now)
  /\ PublishStateUpdates(device'.relayOn # device.relayOn, device'.relayOn)
  /\ main' = MainIdle
  /\ UNCHANGED <<net, connected, inbox, brokerDesired, clock, valueSentAt>>

\* disconnect: the session is clean, what was on its way is lost.
Disconnect ==
  /\ main.pc = "idle"
  /\ connected
  /\ connected' = FALSE
  /\ inbox' = <<>>
  /\ UNCHANGED <<device, main, net, lastFallback, brokerVars, clock, valueSentAt>>

\* connect and reconnect, with the subscription that brings the retained message.
Reconnect ==
  /\ main.pc = "idle"
  /\ ~connected
  /\ connected' = TRUE
  /\ inbox' = IF brokerDesired = NoMessage THEN <<>> ELSE <<brokerDesired>>
  /\ UNCHANGED <<device, main, net, lastFallback, brokerVars, clock, valueSentAt>>

-----------------------------------------------------------------------------
(* The network thread *)

AtLeastZero(n) == IF n > 0 THEN n ELSE 0

\* Mutant: the age of the message forgotten.
MutantAgeOf(message) == 0

\* How old a message is by the wall clock.
AgeOf(message) == AtLeastZero(clock - message.sentAt)

\* When it was issued on the device's own clock: never before its start.
IssuedOnClock(age) == AtLeastZero(clock - age)

\* _on_message, up to the age.
TakeMessage ==
  /\ net.pc = "idle"
  /\ inbox # <<>>
  /\ net' = [pc |-> "aged", message |-> Head(inbox), age |-> AgeOf(Head(inbox)),
             issuedAt |-> Never]
  /\ inbox' = Tail(inbox)
  /\ UNCHANGED <<device, main, connected, lastFallback, brokerVars, clock, valueSentAt>>

\* Its last line reads the device's own clock and calls on_mqtt_desired, which subtracts
\* the age from that time.
CallOnMqttDesired ==
  /\ net.pc = "aged"
  /\ net' = [net EXCEPT !.pc = "received", !.issuedAt = IssuedOnClock(net.age)]
  /\ UNCHANGED <<device, main, connected, lastFallback, inbox, brokerVars, clock,
                 valueSentAt>>

\* Mutant: the issue time written before the value it belongs to.
MutantSetReceived ==
  /\ net.pc = "received"
  /\ device' = [device EXCEPT !.mqttReceived = TRUE, !.mqttIssuedAt = net.issuedAt]
  /\ net' = [net EXCEPT !.pc = "desired"]
  /\ UNCHANGED <<main, connected, lastFallback, inbox, brokerVars, clock, valueSentAt>>

SetReceived ==
  /\ net.pc = "received"
  /\ device' = [device EXCEPT !.mqttReceived = TRUE]
  /\ net' = [net EXCEPT !.pc = "desired"]
  /\ UNCHANGED <<main, connected, lastFallback, inbox, brokerVars, clock, valueSentAt>>

SetDesired ==
  /\ net.pc = "desired"
  /\ device' = [device EXCEPT !.mqttDesiredOn = net.message.on]
  /\ valueSentAt' = net.message.sentAt
  /\ net' = [net EXCEPT !.pc = "issued"]
  /\ UNCHANGED <<main, connected, lastFallback, inbox, brokerVars, clock>>

SetIssuedAt ==
  /\ net.pc = "issued"
  /\ device' = [device EXCEPT !.mqttIssuedAt = net.issuedAt]
  /\ net' = NetIdle
  /\ UNCHANGED <<main, connected, lastFallback, inbox, brokerVars, clock, valueSentAt>>

-----------------------------------------------------------------------------
(* The world around the device *)

\* The service publishes a retained message.
ServicePublish ==
  /\ Len(inbox) < InboxMax
  /\ \E on \in BOOLEAN :
       /\ brokerDesired' = [on |-> on, sentAt |-> clock]
       /\ inbox' = IF connected THEN Append(inbox, brokerDesired') ELSE inbox
  /\ UNCHANGED <<device, main, net, connected, lastFallback, brokerActual, brokerMode,
                 clock, valueSentAt>>

\* When the age of the message at hand was read.
AgedAt == net.message.sentAt + net.age

TimePasses ==
  /\ clock < Horizon
  /\ net.pc = "aged" => clock + 1 - AgedAt <= ReadLag
  /\ clock' = clock + 1
  /\ UNCHANGED <<device, main, net, connected, lastFallback, inbox, brokerVars,
                 valueSentAt>>

SimNext ==
  \/ PublishReading \/ TickOnce \/ CheckFresh \/ FinishTick
  \/ Disconnect \/ Reconnect
  \/ TakeMessage \/ CallOnMqttDesired \/ SetReceived \/ SetDesired \/ SetIssuedAt
  \/ ServicePublish \/ TimePasses

SimSpec == SimInit /\ [][SimNext]_simVars

-----------------------------------------------------------------------------
(* Properties *)

Messages == [on : BOOLEAN, sentAt : Int]

\* The types of both threads' variables; a disconnected device receives nothing.
SimTypeOK ==
  /\ main.pc \in {"idle", "tick", "decide"} /\ main.now \in 0 .. clock
  /\ net.pc \in {"idle", "aged", "received", "desired", "issued"}
  /\ net.message \in Messages /\ net.age \in Nat /\ net.issuedAt \in {Never} \cup 0 .. clock
  /\ device.mqttIssuedAt \in {Never} \cup 0 .. clock
  /\ device.lastChangeTime \in 0 .. clock
  /\ device.relayOn <=> device.relayOnSince # Never
  /\ device.failures \in 0 .. FailureLimit
  /\ inbox \in Seq(Messages)
  /\ ~connected => inbox = <<>>
  /\ brokerActual \in {"none", "on", "off"}
  /\ brokerMode \in {"automatic", "local_fallback"} \cup {past.mode : past \in PastTopics}

\* Wherever the network thread interrupts a tick or is itself interrupted, and whatever
\* the broker kept, the value a tick obeys is that of a message that was fresh when the
\* tick began, up to the time between the two clocks read for it, once the clock has
\* passed the stale timeout by as much (_on_message, on_mqtt_desired, _mqtt_fresh).
ObeyedIsFresh ==
  [][FinishTick /\ main.fresh /\ main.now > StaleTimeout + ReadLag =>
       main.now - valueSentAt <= StaleTimeout + ReadLag]_simVars

\* After a tick with a connection, the retained mode is that of this tick, also when
\* the mode changed while there was none.  What an earlier life retained, be it
\* "automatic", stays until the device has left local fallback for the first time:
\* _last_fallback_active starts True (_publish_state_updates).
ModeInStep ==
  [][FinishTick /\ connected =>
       \/ brokerMode' = Mode
       \/ ~main.fresh /\ \E past \in PastTopics : brokerMode' = past.mode]_simVars

\* The relay keeps its dwell times from tick to tick, through outages and
\* interrupted ticks (docs/testing.md, scenario 11).
SimDwellKept ==
  [][device'.relayOn # device.relayOn =>
       main.now - device.lastChangeTime >=
         IF ~device.relayOn THEN MinFanOff
         ELSE IF MinFanOn < MaxRuntime THEN MinFanOn ELSE MaxRuntime]_simVars

=============================================================================
