------------------------------ MODULE Firmware ------------------------------
(***************************************************************************)
(* The firmware's main loop (firmware/src/main.cpp) around the controller, *)
(* and the broker topics it reads and writes (mqtt_client.h).  One pass of *)
(* loop() reads millis() once, looks after the connection, handles at most *)
(* one incoming message, and, when a sample is due, reads the sensor and   *)
(* ticks the controller with the time read at the start of the pass.  Time *)
(* moves on during a pass: a connection attempt blocks.                    *)
(*                                                                         *)
(* A reset is not an action: it is a new initial state, whose broker still *)
(* holds what an earlier life of the device and the service left there.    *)
(* Wi-Fi and MQTT connectivity are one flag.  Telemetry is left out: it    *)
(* reads the state and changes none of it.                                 *)
(***************************************************************************)
EXTENDS Controller

CONSTANTS SampleInterval,  \* kSensorSampleIntervalSeconds
          LoopLag,         \* longest time from one start of loop() to the next
          InboxMax,        \* bound on the messages others have under way
          Second,          \* what the clock of the model counts in a second (1000)
          BootTime,        \* the POSIX time at which the device booted
          SyncedAtBoot,    \* may the wall clock be known at boot (RTC kept)?
          PastLives        \* what the broker may have retained before this boot

ASSUME FirmwareAssumption ==
  /\ SampleInterval \in UInt32 \ {0}
  /\ LoopLag \in Nat \ {0}
  /\ InboxMax \in Nat
  /\ Second \in Nat \ {0}
  /\ BootTime \in Nat
  /\ SyncedAtBoot \subseteq BOOLEAN

VARIABLES
  pc,             \* where the pass of loop() is
  loopStart,      \* real time at which the pass read millis()
  lastSample,     \* g_last_sample_ms
  lastFallback,   \* g_last_fallback_active
  connected,      \* client_.connected()
  synced,         \* TimeIsSynced()
  pin,            \* the relay GPIO is at its active level
  inbox,          \* messages the broker has on their way to the device
  brokerDesired,  \* retained message of fan/desired
  brokerActual,   \* retained state on fan/actual
  brokerMode,     \* retained operating_mode on mode
  held            \* history: the fan/desired message last handled

loopVars   == <<pc, loopStart, lastSample, lastFallback>>
brokerVars == <<brokerDesired, brokerActual, brokerMode>>
linkVars   == <<connected, inbox>>
firmwareVars ==
  <<vars, loopVars, brokerVars, linkVars, synced, pin, held>>

controllerButTime == <<relayVars, sensorVars, mqttVars, overrideVars, tickVars>>

NoMessage == [topic |-> "none"]

Switches == {"on", "off"}
Sources == {"automation", "local_fallback"}

\* What was published before this boot was published at a time before zero, and
\* stamped by a clock that may not have been set.
ASSUME PastAssumption ==
  PastLives \subseteq
    [desired : {NoMessage} \cup [topic : {"desired"}, on : BOOLEAN, source : Sources,
                                issuedAt : Int, sentAt : {time \in Int : time <= 0}],
     actual : Switches \cup {"none"},
     mode : Modes \cup {"none"}]

NothingHeld == [message |-> NoMessage]

\* POSIX time counts whole seconds.
Seconds(time) == (BootTime + time) \div Second

\* time(nullptr): until NTP has answered the seconds since the boot, as in 1970.
WallClock(time) == IF synced THEN Seconds(time) ELSE time \div Second

\* A message carries the stamp of its sender's clock; sentAt is a history of the time
\* it was really sent.
Desired(on, source, issuedAt) ==
  [topic |-> "desired", on |-> on, source |-> source, issuedAt |-> issuedAt,
   sentAt |-> uptime]

Command(type, duration, issuedAt) ==
  [topic |-> "command", type |-> type, duration |-> duration, issuedAt |-> issuedAt,
   sentAt |-> uptime]

\* setup() has opened the relay; only the broker remembers anything.
FirmwareInit ==
  /\ Init
  /\ pc = "idle"
  /\ loopStart = 0
  /\ lastSample = 0
  /\ lastFallback = TRUE
  /\ connected = FALSE
  /\ synced \in SyncedAtBoot
  /\ pin = FALSE
  /\ inbox = <<>>
  /\ held = NothingHeld
  /\ \E past \in PastLives :
       /\ brokerDesired = past.desired
       /\ brokerActual = past.actual
       /\ brokerMode = past.mode

-----------------------------------------------------------------------------
(* One pass of loop() *)

LoopNow == Millis(loopStart)

StartPass ==
  /\ pc = "idle"
  /\ loopStart' = uptime
  /\ pc' = "network"
  /\ UNCHANGED <<vars, lastSample, lastFallback, brokerVars, linkVars, synced,
                 pin, held>>

\* EnsureConnected: no attempt is due, or the attempt fails.
StayOffline ==
  /\ pc = "network"
  /\ ~connected
  /\ pc' = "sample"
  /\ UNCHANGED <<vars, loopStart, lastSample, lastFallback, brokerVars, linkVars,
                 synced, pin, held>>

StayOnline ==
  /\ pc = "network"
  /\ connected
  /\ pc' = "receive"
  /\ UNCHANGED <<vars, loopStart, lastSample, lastFallback, brokerVars, linkVars,
                 synced, pin, held>>

\* EnsureConnected succeeds and subscribes: the broker sends what it retained.
Reconnect ==
  /\ pc = "network"
  /\ ~connected
  /\ connected' = TRUE
  /\ inbox' = IF brokerDesired = NoMessage THEN <<>> ELSE <<brokerDesired>>
  /\ pc' = "receive"
  /\ UNCHANGED <<vars, loopStart, lastSample, lastFallback, brokerVars, synced,
                 pin, held>>

\* Mutant: the age of a message ignored.
MutantNoAge(message, time) == 0

\* HandleMessage: the age is told in whole seconds, and only once the wall clock is
\* set; age_s * 1000 is 32 bits wide.
AgeOf(message, time) ==
  LET seconds == WallClock(time) - message.issuedAt
  IN  IF synced /\ seconds > 0 THEN (seconds * Second) % ClockModulus ELSE 0

\* Loop() hands at most one message to its callback, which reads millis() again, a
\* while after the wall clock was read in this pass.  The history keeps both times,
\* and whether the age was known.
HandleMessage ==
  /\ pc = "receive"
  /\ connected
  /\ inbox # <<>>
  /\ LET message == Head(inbox)
     IN  \E readAt \in {time \in loopStart .. uptime : message.sentAt <= time} :
           \/ /\ message.topic = "desired"
              /\ OnMqttDesired(message.on, AgeOf(message, readAt), Now)
              /\ held' = [message |-> message, readAt |-> readAt, at |-> uptime,
                          aged |-> synced]
           \/ /\ message.topic = "command"
              /\ OnCommand(message.type, message.duration, AgeOf(message, readAt), Now)
              /\ UNCHANGED held
  /\ inbox' = Tail(inbox)
  /\ pc' = "sample"
  /\ UNCHANGED <<loopStart, lastSample, lastFallback, brokerVars, connected,
                 synced, pin>>

NoMessageYet ==
  /\ pc = "receive"
  /\ pc' = "sample"
  /\ UNCHANGED <<vars, loopStart, lastSample, lastFallback, brokerVars, linkVars,
                 synced, pin, held>>

\* Mutant: a sample only when more than the interval has passed.
MutantSampleLate == Sub32(LoopNow, lastSample) > SampleInterval

SampleDue == Sub32(LoopNow, lastSample) >= SampleInterval

SkipSample ==
  /\ pc = "sample"
  /\ ~SampleDue
  /\ pc' = "idle"
  /\ UNCHANGED <<vars, loopStart, lastSample, lastFallback, brokerVars, linkVars,
                 synced, pin, held>>

Sample ==
  /\ pc = "sample"
  /\ SampleDue
  /\ lastSample' = LoopNow
  /\ \E reading \in Readings : OnSensorReading(reading, LoopNow)
  /\ pc' = "tick"
  /\ UNCHANGED <<loopStart, lastFallback, brokerVars, linkVars, synced, pin, held>>

\* The mode is published when the device enters or leaves local fallback.
PublishMode ==
  /\ lastFallback' = decision'.fallback
  /\ brokerMode' = IF decision'.fallback # lastFallback /\ connected
                     THEN decision'.mode ELSE brokerMode

\* A change of the relay is published; one decided locally is published on
\* fan/desired too, which the device itself subscribes to.
PublishChange ==
  /\ brokerActual' = IF decision'.changed /\ connected
                       THEN IF decision'.relayOn THEN "on" ELSE "off"
                       ELSE brokerActual
  /\ IF decision'.changed /\ connected /\ decision'.source = "local"
       THEN /\ brokerDesired' =
                 Desired(decision'.relayOn, "local_fallback", WallClock(uptime))
            /\ inbox' = Append(inbox, brokerDesired')
       ELSE UNCHANGED <<brokerDesired, inbox>>

TickAndPublish ==
  /\ pc = "tick"
  /\ Tick(LoopNow)
  /\ pin' = decision'.relayOn
  /\ PublishMode
  /\ PublishChange
  /\ pc' = "idle"
  /\ UNCHANGED <<loopStart, lastSample, connected, synced, held>>

Pass == \/ StartPass \/ StayOffline \/ StayOnline \/ Reconnect \/ HandleMessage
        \/ NoMessageYet \/ SkipSample \/ Sample \/ TickAndPublish

-----------------------------------------------------------------------------
(* The world around the device *)

\* The automation service publishes a retained fan/desired message; its clock, as an
\* operator's, is set.
ServicePublish ==
  /\ Len(inbox) < InboxMax
  /\ \E on \in BOOLEAN :
       /\ brokerDesired' = Desired(on, "automation", Seconds(uptime))
       /\ inbox' = IF connected THEN Append(inbox, brokerDesired') ELSE inbox
  /\ UNCHANGED <<vars, loopVars, brokerActual, brokerMode, connected, synced, pin,
                 held>>

\* An operator's command is not retained: a device that is away never sees it.
OperatorCommand ==
  /\ connected
  /\ Len(inbox) < InboxMax
  /\ \E type \in {"on", "off", "auto"}, duration \in Durations :
       inbox' = Append(inbox, Command(type, duration, Seconds(uptime)))
  /\ UNCHANGED <<vars, loopVars, brokerVars, connected, synced, pin, held>>

\* Mutant: a session that survives the connection.
MutantDisconnect ==
  /\ connected
  /\ connected' = FALSE
  /\ UNCHANGED <<vars, loopVars, brokerVars, inbox, synced, pin, held>>

\* The session is clean: what was on its way is lost.
Disconnect ==
  /\ connected
  /\ connected' = FALSE
  /\ inbox' = <<>>
  /\ UNCHANGED <<vars, loopVars, brokerVars, synced, pin, held>>

\* NTP answers.
Sync ==
  /\ ~synced
  /\ synced' = TRUE
  /\ UNCHANGED <<vars, loopVars, brokerVars, linkVars, pin, held>>

\* Real time passes, inside a pass as well as between two.
TimePasses ==
  /\ uptime < Horizon
  /\ uptime + 1 - loopStart <= LoopLag
  /\ uptime' = uptime + 1
  /\ UNCHANGED <<controllerButTime, loopVars, brokerVars, linkVars, synced, pin,
                 held>>

FirmwareNext ==
  \/ Pass \/ ServicePublish \/ OperatorCommand \/ Disconnect \/ Sync
  \/ TimePasses

FirmwareSpec == FirmwareInit /\ [][FirmwareNext]_firmwareVars

-----------------------------------------------------------------------------
(* Properties *)

DesiredMessages ==
  [topic : {"desired"}, on : BOOLEAN, source : Sources, issuedAt : Int, sentAt : Int]
Commands ==
  [topic : {"command"}, type : Switches \cup {"auto"}, duration : Durations,
   issuedAt : Int, sentAt : Int]

\* Every variable of the loop and of the broker has its type.
FirmwareTypeOK ==
  /\ TypeOK
  /\ pc \in {"idle", "network", "receive", "sample", "tick"}
  /\ loopStart \in 0 .. uptime
  /\ lastSample \in UInt32
  /\ {lastFallback, connected, synced, pin} \subseteq BOOLEAN
  /\ inbox \in Seq(DesiredMessages \cup Commands)
  /\ ~connected => inbox = <<>>
  /\ brokerDesired \in DesiredMessages \cup {NoMessage}
  /\ brokerActual \in Switches \cup {"none"}
  /\ brokerMode \in Modes \cup {"none"}
  /\ held = NothingHeld \/ held.message \in DesiredMessages

\* The contact itself keeps the dwell times, across passes that take long and
\* across resets: a change comes early by at most the lag of one pass, and
\* after a reset the minimum off-time counts from the boot (docs/safety.md).
ContactDwellKept ==
  [][pin' # pin =>
       uptime - switchedAt >=
         (IF pin THEN ShortestRun ELSE MinFanOff) - LoopLag]_firmwareVars

\* The contact is never closed for longer than the runtime limit plus the wait
\* for the next sample and the lag of two passes, whatever blocks the loop.
ContactRuntimeBounded ==
  pin => uptime - switchedAt <= MaxRuntime + SampleInterval + 2 * LoopLag - 2

\* The message carries the second it was really sent in: the clock of its sender was
\* set by then.
Dated(message) == message.issuedAt = Seconds(message.sentAt)

\* The device saw the age of the message it holds, up to a second: both clocks were
\* set, and the age in milliseconds had room in 32 bits.
AgeKnown ==
  /\ held.aged
  /\ Dated(held.message)
  /\ held.readAt - held.message.sentAt + Second <= ClockModulus

\* A message handled in an earlier pass is what governs while it is fresh by a second,
\* unless an override does (docs/architecture.md, "Control flow"): whole seconds may
\* make it nearly a second older than it is.  A stamp made before NTP answered and
\* read after it may make it stale at once, and is left out.
HeldCommandGoverns ==
  [][TickAndPublish /\ ~IsOverrideActive(LoopNow) /\ held # NothingHeld
     /\ (held.aged => Dated(held.message))
     /\ uptime - held.message.sentAt + Second - 1 <= StaleTimeout
     /\ held.at <= loopStart =>
       decision'.mode = "automatic"]_firmwareVars

\* The same for every message the device holds, even one handled in this pass.
FreshCommandGoverns ==
  [][TickAndPublish /\ ~IsOverrideActive(LoopNow) /\ held # NothingHeld
     /\ (held.aged => Dated(held.message))
     /\ uptime - held.message.sentAt + Second - 1 <= StaleTimeout =>
       decision'.mode = "automatic"]_firmwareVars

\* Once the device has been up for the stale timeout, no message decides that is stale
\* by a second and the lag of two passes, wherever the broker kept it, if its age was
\* known: with the wall clock not set, or a stamp made before it was, the message has
\* any age, and MessageLapses is all there is (docs/mqtt-api.md, HandleMessage).
StaleMessageIgnoredIfAged ==
  [][TickAndPublish /\ decision'.mode = "automatic" /\ uptime > StaleTimeout + LoopLag
     /\ AgeKnown =>
       uptime - held.message.sentAt < StaleTimeout + 2 * LoopLag + Second]_firmwareVars

\* Whatever the wall clock knows, a message decides only for the stale timeout after
\* it came in: when the service or the connection is gone, or when the age of a
\* retained message is unknown, the device is back on its own hysteresis by then
\* (HandleMessage, IsMqttFresh; docs/architecture.md, "Control flow").
MessageLapses ==
  [][TickAndPublish /\ decision'.mode = "automatic" =>
       uptime - held.at <= StaleTimeout + LoopLag]_firmwareVars

\* The device's own message of this life, come back from the broker with its age
\* known, never moves the relay: it can only ask for the state the relay is in, or
\* finds a dwell time running (PublishLocalFanDesired).  Without the wall clock an
\* echo that was long on its way counts as new, and can move the relay.
EchoNeutral ==
  [][TickAndPublish /\ decision'.mode = "automatic" /\ AgeKnown
     /\ held.message.source = "local_fallback" /\ held.message.sentAt > 0 =>
       relayOn' = relayOn \/ decision'.reason = "max_runtime_cutoff"]_firmwareVars

\* After a decision taken online, what the broker retains on fan/actual is the
\* state of the contact, and not that of an earlier life (docs/safety.md,
\* "Restart behavior").
ActualReported ==
  [][TickAndPublish /\ connected /\ brokerActual' # "none" =>
       (brokerActual' = "on") = pin']_firmwareVars

=============================================================================
