-------------------------------- MODULE Demo --------------------------------
(***************************************************************************)
(* The end-to-end demonstration, simulator/simulator/run_e2e_demo.py: a    *)
(* script that starts a broker and the automation service, drives a        *)
(* simulated device through a day's events, and fails with the first       *)
(* expectation that does not come true.  The device is SimDevice, its main *)
(* thread the script's; the service decides with HysteresisRule.           *)
(*                                                                         *)
(* The script is a table.  Computing takes no time: time passes while the  *)
(* script sleeps or waits, and no message takes more than MaxDelay of it.  *)
(* Sequence numbers only grow here, so no telemetry is a duplicate.        *)
(***************************************************************************)
EXTENDS SimDevice, Configuration

CONSTANTS
  SampleInterval,                    \* sensor_sample_interval_seconds
  ServicePause,                      \* sleep after starting the service
  Patience,                          \* timeout of most wait_until calls
  BrokerPatience,                    \* timeout of wait_for_broker
  StopPatience,                      \* timeout of proc.wait
  Poll,                              \* sleep between two attempts
  Second,                            \* a second, to which issued_at is cut off
  Epochs,                            \* POSIX times of the start
  Settings,                          \* environments of a shell, contents of a .env
  MaxDelay,                          \* bound on the delay of a message
  StartupMax                         \* bound on the service's start-up

ASSUME DemoAssumption ==
  /\ {SampleInterval, ServicePause, Patience, BrokerPatience, StopPatience,
      MaxDelay, StartupMax} \subseteq Nat
  /\ {Poll, Second} \subseteq Nat \ {0}
  /\ Epochs \subseteq Nat

\* demo.yaml switches the rise detector off; temperatures are always the same.
R == INSTANCE HysteresisRule WITH
       TemperatureMin <- 0, TemperatureMax <- 0, RiseEnabled <- FALSE,
       RiseThreshold <- 0, RiseWindow <- 0, RiseMinSamples <- 1, Minute <- 1,
       RuleBufferSize <- 1

VARIABLES
  demo,       \* the script's step, when it goes on, its deadline, its exit code
  log,        \* the last decision, the last transitions, and what was observed
  broker,     \* the container
  service,    \* the service's process, since when it is as it is, and its rule
  telemetry,  \* telemetry on its way to the service
  observer,   \* the observer's connection
  machine,    \* POSIX time of the start, the shell's environment and the .env file
  faulty      \* the one fault of the run has happened

worldVars == <<broker, service, telemetry, observer, machine, faulty>>
demoVars  == <<simVars, demo, log, worldVars>>

-----------------------------------------------------------------------------
(* The script *)

Do(op)           == [op |-> op]
Sleep(time)      == [op |-> "sleep", time |-> time]
Send(humidity)   == [op |-> "send", reading |-> [valid |-> humidity \in 0 .. 100,
                                                 humidity |-> humidity,
                                                 temperature |-> 0]]
Check(want)      == [op |-> "check", want |-> want, time |-> 0]
Await(want, max) == [op |-> "await", want |-> want, time |-> max]
Expect(want)     == [op |-> "assert", want |-> want]

\* main(), from the start of the broker to the fallback of step 11.
UntilFallback ==
  << Do("start_broker"), [op |-> "wait_for_broker", time |-> BrokerPatience],
     Do("start_service"), Sleep(ServicePause), Do("start_observer"),
     Do("connect_device"),
     Send(40), Sleep(2 * SampleInterval), Check("off"),                   \* 3
     Send(80), Await("on", Patience), Check("automatic"),                 \* 4
     Send(65), Sleep(2 * SampleInterval), Check("on"),                    \* 5
     Sleep(MinFanOn), Send(50), Await("off", Patience),                   \* 6-7
     Sleep(MinFanOff), Send(85), Await("on", Patience),                   \* 8
     Await("off", MaxRuntime + Patience), Expect("cutoff"),
     Do("stop_service"), Sleep(StaleTimeout + 2 * SampleInterval),        \* 11
     Send(50), Await("local_fallback", Patience) >>

\* Step 9, after step 11.
InvalidReadings ==
  [i \in 1 .. 2 * FailureLimit |->
     IF i % 2 = 1 THEN Send(999) ELSE Sleep(SampleInterval)]

\* The rest of the `try`.
Recovery ==
  << Expect("safe_state"), Do("start_service"), Sleep(ServicePause),      \* 12
     Send(40), Await("automatic", Patience), Expect("quiet"),
     Expect("observed"), Do("report"), Do("succeed") >>                   \* 13-14

Script == UntilFallback \o InvalidReadings \o Recovery

\* `finally`.
CleanUp ==
  <<Do("stop_device"), Do("stop_observer"), Do("stop_service"), Do("stop_broker")>>

Program == Script \o CleanUp

NoDemo   == [step |-> 0, wake |-> 0, deadline |-> Never, code |-> "none"]
EmptyLog == [on |-> FALSE, mode |-> "none", reason |-> "none",
             lastReason |-> "none", lastOnAt |-> Never, seen |-> {}]
NoService == [state |-> "none", since |-> 0, rule |-> R!NewRule]

DemoInit ==
  /\ SimInit
  /\ demo = NoDemo
  /\ log = EmptyLog
  /\ broker = "none"
  /\ service = NoService
  /\ telemetry = <<>>
  /\ observer = "none"
  /\ machine \in [epoch : Epochs, shell : Settings, dotenv : Settings]
  /\ faulty = FALSE

InDemo == demo.step \in DOMAIN Program
Exited == demo.step > Len(Program)

\* The script is at this operation and neither asleep nor inside a tick.
At(op) ==
  /\ InDemo
  /\ Program[demo.step].op = op
  /\ clock >= demo.wake
  /\ main.pc = "idle"

Current == Program[demo.step]

Continued == [demo EXCEPT !.step = @ + 1, !.deadline = Never]

\* Mutant: the clean-up only after a success.
MutantFailed == [demo EXCEPT !.step = Len(Program) + 1, !.code = "failed"]

\* StepFailure.
Failed ==
  [demo EXCEPT !.step = Len(Script) + 1, !.deadline = Never, !.code = "failed"]

\* The rounds of a waiting loop.
Deadline == IF demo.deadline = Never THEN clock + Current.time ELSE demo.deadline
TimedOut == clock >= Deadline
Again    == [demo EXCEPT !.deadline = Deadline, !.wake = clock + Poll]

\* What the script asks of the last decision, of the transitions and messages.
Found(found) ==
  [on |-> found.on, off |-> ~found.on,
   automatic |-> found.mode = "automatic",
   local_fallback |-> found.mode = "local_fallback",
   cutoff |-> found.lastReason = "max_runtime_cutoff",
   safe_state |-> ~found.on /\ found.reason = "sensor_invalid_safe_state",
   quiet |-> found.lastOnAt <= clock - 3 * SampleInterval,
   observed |-> {"on", "off", "local_fallback"} \subseteq found.seen]

LaunchDemo ==
  /\ demo.step = 0
  /\ demo' = [demo EXCEPT !.step = 1]
  /\ UNCHANGED <<simVars, log, worldVars>>

GoToSleep ==
  /\ At("sleep")
  /\ demo' = [Continued EXCEPT !.wake = clock + Current.time]
  /\ UNCHANGED <<simVars, log, worldVars>>

AssertFound ==
  /\ At("assert")
  /\ demo' = IF Found(log)[Current.want] THEN Continued ELSE Failed
  /\ UNCHANGED <<simVars, log, worldVars>>

\* Mutant: a wait without an end for the broker.
MutantTimeOut ==
  /\ At("await")
  /\ TimedOut
  /\ demo' = Failed
  /\ UNCHANGED <<simVars, log, worldVars>>

TimeOut ==
  /\ At("wait_for_broker") \/ At("await")
  /\ TimedOut
  /\ demo' = Failed
  /\ UNCHANGED <<simVars, log, worldVars>>

-----------------------------------------------------------------------------
(* The script and the device *)

SendReading ==
  /\ At("send")
  /\ PublishSample(Current.reading)
  /\ UNCHANGED <<demo, log, worldVars>>

\* tick_once, in a check or a round of wait_until.
LookAtDevice ==
  /\ At("check") \/ (At("await") /\ ~TimedOut)
  /\ TickOnce
  /\ demo' = [demo EXCEPT !.deadline = Deadline]
  /\ UNCHANGED <<log, worldVars>>

CheckDemoFresh ==
  /\ InDemo
  /\ CheckFresh
  /\ UNCHANGED <<demo, log, worldVars>>

\* The telemetry of a reading reaches the service if that has subscribed.
Report ==
  IF Current.op = "send" /\ service.state = "up"
    THEN Append(telemetry, [reading |-> Current.reading, queuedAt |-> clock])
    ELSE telemetry

\* The end of the tick, its publications, and what the script makes of it.
FinishDemoTick ==
  /\ InDemo
  /\ FinishTick
  /\ log' = [on |-> device'.relayOn, mode |-> Mode,
             reason |-> Outcome(device, main.fresh, main.now).reason,
             lastReason |-> IF device'.relayOn = device.relayOn THEN log.lastReason
                            ELSE Outcome(device, main.fresh, main.now).reason,
             lastOnAt |-> IF device'.relayOn /\ ~device.relayOn THEN clock
                          ELSE log.lastOnAt,
             seen |-> log.seen \cup IF observer = "on" THEN {brokerActual', brokerMode'}
                                    ELSE {}]
  /\ telemetry' = Report
  /\ demo' = IF Current.op = "send" \/ Found(log')[Current.want] THEN Continued
             ELSE IF Current.op = "check" THEN Failed ELSE Again
  /\ UNCHANGED <<broker, service, observer, machine, faulty>>

ConnectDevice ==
  /\ At("connect_device")
  /\ Reconnect
  /\ demo' = Continued
  /\ UNCHANGED <<log, worldVars>>

\* stop: loop_stop joins the network thread.
StopDevice ==
  /\ At("stop_device")
  /\ net.pc = "idle"
  /\ connected' = FALSE
  /\ inbox' = <<>>
  /\ demo' = Continued
  /\ UNCHANGED <<device, main, net, lastFallback, brokerVars, clock, valueSentAt, log,
                 worldVars>>

\* Both clocks of _on_message read in one moment: computing takes no time here.
OnMessage ==
  /\ net.pc = "idle"
  /\ inbox # <<>>
  /\ LET message == Head(inbox)
         age     == AgeOf(message)
     IN  net' = [pc |-> "received", message |-> message, age |-> age,
                 issuedAt |-> IssuedOnClock(age)]
  /\ inbox' = Tail(inbox)
  /\ UNCHANGED <<device, main, connected, lastFallback, brokerVars, clock, valueSentAt>>

Network ==
  /\ InDemo
  /\ OnMessage \/ SetReceived \/ SetDesired \/ SetIssuedAt
  /\ UNCHANGED <<demo, log, worldVars>>

-----------------------------------------------------------------------------
(* The script and the processes *)

\* docker run fails, or the container never becomes ready, or it will.
StartBroker ==
  /\ At("start_broker")
  /\ \/ /\ broker' = "starting"
        /\ demo' = Continued
        /\ UNCHANGED faulty
     \/ /\ ~faulty
        /\ faulty' = TRUE
        /\ \/ broker' = "broken" /\ demo' = Continued
           \/ broker' = "none" /\ demo' = Failed
  /\ UNCHANGED <<simVars, log, service, telemetry, observer, machine>>

BrokerReady ==
  /\ broker = "starting"
  /\ broker' = "ready"
  /\ UNCHANGED <<simVars, demo, log, service, telemetry, observer, machine, faulty>>

LookForBroker ==
  /\ At("wait_for_broker")
  /\ ~TimedOut
  /\ demo' = IF broker = "ready" THEN Continued ELSE Again
  /\ UNCHANGED <<simVars, log, worldVars>>

\* The files of the repository; a value of the rule stands for all of them.
ConfigFiles ==
  [path \in {"config/defaults.yaml", "config/demo.yaml"} |->
     IF path = "config/demo.yaml"
       THEN [rule |-> "demo", host |-> "localhost", port |-> "18830",
             deviceId |-> "bathroom-vent-e2e-demo"]
       ELSE [rule |-> "defaults", host |-> "localhost", port |-> "1883",
             deviceId |-> "bathroom-vent-01"]]

\* The environment the script gives the service.
ServiceEnvironment ==
  LET own    == [BATHROOM_VENT_CONFIG_PATH |-> "config/demo.yaml",
                 MQTT_HOST |-> "localhost", MQTT_PORT |-> "18830",
                 MQTT_DEVICE_ID |-> "bathroom-vent-e2e-demo"]
      popped == {"MQTT_AUTOMATION_USERNAME", "MQTT_AUTOMATION_PASSWORD"}
  IN  Over(own, [name \in DOMAIN machine.shell \ popped |-> machine.shell[name]])

ServiceConfig ==
  LoadConfig(Environment(ServiceEnvironment, machine.dotenv), ConfigFiles)

StartService ==
  /\ At("start_service")
  /\ service' = [NoService EXCEPT !.state = "starting", !.since = clock]
  /\ demo' = Continued
  /\ UNCHANGED <<simVars, log, broker, telemetry, observer, machine, faulty>>

\* Connected and subscribed (main.py, _on_connect).
ServiceReady ==
  /\ service.state = "starting"
  /\ ~ServiceConfig.useTls
  /\ service' = [service EXCEPT !.state = "up", !.since = clock]
  /\ UNCHANGED <<simVars, demo, log, broker, telemetry, observer, machine, faulty>>

\* Mutant: a time stamp cut off to the minute.
MutantIssuedAt == clock - ((machine.epoch + clock) % (60 * Second))

\* The time the service stamps on a message, cut off to the second.
IssuedAt == clock - ((machine.epoch + clock) % Second)

\* _handle_telemetry and _publish_fan_desired.
ServiceHandles ==
  /\ service.state = "up"
  /\ telemetry # <<>>
  /\ telemetry' = Tail(telemetry)
  /\ LET now  == machine.epoch + clock
         rule == R!Evaluated(R!OnReading(service.rule, Head(telemetry).reading, now), now)
     IN  /\ service' = [service EXCEPT !.rule = rule]
         /\ brokerDesired' = [on |-> rule.relayOn, sentAt |-> IssuedAt, queuedAt |-> clock]
  /\ inbox' = IF connected THEN Append(inbox, brokerDesired') ELSE inbox
  /\ UNCHANGED <<device, main, net, connected, lastFallback, brokerActual, brokerMode,
                 clock, valueSentAt, demo, log, broker, observer, machine, faulty>>

Alive == service.state \in {"starting", "up", "stopping"}

\* What is on its way to the service goes with its session.
Died == [service EXCEPT !.state = "dead", !.since = clock]

\* The demonstration's broker does not speak TLS: connect raises an exception.
ServiceRefused ==
  /\ service.state = "starting"
  /\ ServiceConfig.useTls
  /\ service' = Died
  /\ UNCHANGED <<simVars, demo, log, broker, telemetry, observer, machine, faulty>>

CrashService ==
  /\ Alive
  /\ ~faulty
  /\ faulty' = TRUE
  /\ service' = Died
  /\ telemetry' = <<>>
  /\ UNCHANGED <<simVars, demo, log, broker, observer, machine>>

\* stop_automation_service: terminate, then wait.  The interpreter takes a signal before
\* its next instruction, so a message that the service was about to handle counts as
\* handled before the signal or as lost with the connection.
Terminate ==
  /\ At("stop_service")
  /\ service.state \in {"starting", "up"}
  /\ service' = [service EXCEPT !.state = "stopping", !.since = clock]
  /\ telemetry' = <<>>
  /\ demo' = [demo EXCEPT !.deadline = clock + StopPatience]
  /\ UNCHANGED <<simVars, log, broker, observer, machine, faulty>>

ServiceExits ==
  /\ service.state = "stopping"
  /\ service' = Died
  /\ UNCHANGED <<simVars, demo, log, broker, telemetry, observer, machine, faulty>>

\* It has ended, or never ran, or does not end and is killed.
ServiceStopped ==
  /\ At("stop_service")
  /\ \/ ~Alive /\ UNCHANGED service
     \/ service.state = "stopping" /\ TimedOut /\ service' = Died
  /\ demo' = Continued
  /\ UNCHANGED <<simVars, log, broker, telemetry, observer, machine, faulty>>

StartObserver ==
  /\ At("start_observer")
  /\ observer' = "connecting"
  /\ demo' = Continued
  /\ UNCHANGED <<simVars, log, broker, service, telemetry, machine, faulty>>

\* The subscription brings what is retained.
ObserverSubscribed ==
  /\ observer = "connecting"
  /\ observer' = "on"
  /\ log' = [log EXCEPT !.seen = @ \cup {brokerActual, brokerMode}]
  /\ UNCHANGED <<simVars, demo, broker, service, telemetry, machine, faulty>>

StopObserver ==
  /\ At("stop_observer")
  /\ observer' = "none"
  /\ demo' = Continued
  /\ UNCHANGED <<simVars, log, broker, service, telemetry, machine, faulty>>

StopBroker ==
  /\ At("stop_broker")
  /\ broker' = "none"
  /\ demo' = Continued
  /\ UNCHANGED <<simVars, log, service, telemetry, observer, machine, faulty>>

\* Step 14, when the report's process has ended; its failure is a fault.
ReportReturned(ok) ==
  /\ At("report")
  /\ ~ok => ~faulty
  /\ faulty' = (faulty \/ ~ok)
  /\ demo' = IF ok THEN Continued ELSE Failed
  /\ UNCHANGED <<simVars, log, broker, service, telemetry, observer, machine>>

Succeed ==
  /\ At("succeed")
  /\ demo' = [Continued EXCEPT !.code = "ok"]
  /\ UNCHANGED <<simVars, log, worldVars>>

-----------------------------------------------------------------------------
(* Time *)

Blocked ==
  /\ InDemo
  /\ \/ clock < demo.wake
     \/ At("stop_service") /\ service.state = "stopping" /\ ~TimedOut

Overdue(queue) == queue # <<>> /\ clock - Head(queue).queuedAt >= MaxDelay

DemoTimePasses ==
  /\ Blocked
  /\ clock < Horizon
  /\ main.pc = "idle"
  /\ net.pc = "idle"
  /\ ~Overdue(inbox) /\ ~Overdue(telemetry)
  /\ observer # "connecting"
  /\ service.state = "starting" => clock - service.since < StartupMax
  /\ broker = "starting" => clock + 1 + Poll < demo.deadline
  /\ clock' = clock + 1
  /\ UNCHANGED <<device, main, net, connected, lastFallback, inbox, brokerVars,
                 valueSentAt, demo, log, worldVars>>

ScriptStep ==
  \/ GoToSleep \/ AssertFound \/ TimeOut \/ Succeed
  \/ SendReading \/ LookAtDevice \/ CheckDemoFresh \/ FinishDemoTick
  \/ ConnectDevice \/ StopDevice \/ StartObserver \/ StopObserver
  \/ StartBroker \/ LookForBroker \/ StopBroker
  \/ StartService \/ Terminate \/ ServiceStopped

WorldStep ==
  \/ Network \/ BrokerReady \/ ServiceReady \/ ServiceRefused \/ ServiceHandles
  \/ ObserverSubscribed \/ DemoTimePasses

-----------------------------------------------------------------------------
(* Properties *)

\* The script fails only after a fault: none of its waits, dwell times and
\* timeouts is too short for a delay within the bounds.  It fails, too, where the
\* developer's settings ask for TLS, which the script does not take back.
FailsOnlyAfterFault == demo.code = "failed" => faulty \/ ServiceConfig.useTls

\* Whatever installation the developer's settings are for, the service the script
\* starts, and with it every command it gives, goes to the script's own broker and
\* decides with the compressed timers (start_automation_service, load_config).
InstallationLeftAlone ==
  Alive => /\ ServiceConfig.host = "localhost" /\ ServiceConfig.port = "18830"
           /\ ServiceConfig.rule = "demo"

\* Whatever fails, at whatever step, nothing is left running: not the broker, not
\* the service of either start, not the connections (run_e2e_demo.py, finally).
CleanedUp ==
  ~InDemo => /\ broker = "none"
             /\ ~Alive
             /\ ~connected
             /\ observer = "none"

\* The device obeys a service that died for the stale timeout at most, although
\* its last messages were still on their way (_mqtt_fresh, issued_at).
DeadServiceNotObeyed ==
  [][FinishDemoTick /\ main.fresh /\ service.state = "dead" =>
       main.now - service.since <= StaleTimeout]_demoVars

=============================================================================
