----------------------------- MODULE DemoScript -----------------------------
(***************************************************************************)
(* Why the end-to-end demonstration succeeds when nothing fails: where the *)
(* last reading, its answer and the device are at every step of the script *)
(* (run_e2e_demo.py, main), so that none of its waits is too short.        *)
(***************************************************************************)
EXTENDS FullCheck

\* A record with these fields, whatever they hold.
Record(r, fields) == r = [field \in fields |-> r[field]]

\* The last of the steps with which the script provokes a failure of the sensor.
Last == 27 + 2 * FailureLimit

-----------------------------------------------------------------------------
(* Why the demonstration succeeds *)

\* The values with which it can: those of demo.yaml, and the delays it stands.
DemoTimings ==
  /\ PastMessage = {NoMessage}
  /\ PastTopics = {[actual |-> "none", mode |-> "none"]}
  /\ {40, 50, 65, 80, 85} \subseteq HumidityMin .. HumidityMax
  /\ 50 <= FanOffPercent /\ FanOffPercent < 65
  /\ 65 < FanOnPercent /\ FanOnPercent <= 80
  /\ FailureLimit >= 1
  /\ Poll < BrokerPatience
  /\ StartupMax < ServicePause
  /\ MaxDelay < SampleInterval
  /\ 2 * MaxDelay < MinFanOff
  /\ MinFanOff <= ServicePause + 2 * SampleInterval
  /\ 2 * SampleInterval + 2 * MaxDelay + Poll + Second <= StaleTimeout + 1
  /\ MinFanOff + 2 * MaxDelay + Second <= StaleTimeout + 2
  /\ StaleTimeout + MaxDelay + Poll < Patience
  /\ 2 * SampleInterval < MaxRuntime
  /\ 3 * MaxDelay + Poll < MaxRuntime

\* No fault so far, and no settings that ask for TLS.
Fine == ~faulty /\ ~ServiceConfig.useTls

\* A tick of the device is under way; it has read its message and is about to decide.
Busy     == main.pc # "idle"
Deciding == main.pc = "decide"

\* Nothing is under way, in either direction.
Clear == telemetry = <<>> /\ inbox = <<>> /\ net.pc = "idle"

\* When the script sent its last reading, or a time since.
Sent ==
  IF demo.step \in {9, 15} THEN demo.wake - 2 * SampleInterval
  ELSE IF demo.step = 20 THEN demo.wake - MinFanOff
  ELSE IF demo.step = 26 THEN demo.wake - (StaleTimeout + 2 * SampleInterval)
  ELSE IF demo.step \in {11, 18, 21, Last + 5} /\ demo.deadline # Never
    THEN demo.deadline - Patience
  ELSE IF demo.step = 22 /\ demo.deadline # Never
    THEN demo.deadline - (MaxRuntime + Patience)
  ELSE clock

\* The types of what the script relies on.
ScriptTypes ==
  /\ demo.wake \in Nat /\ demo.deadline \in Int
  /\ device.relayOn \in BOOLEAN /\ device.mqttReceived \in BOOLEAN
  /\ device.mqttDesiredOn \in BOOLEAN /\ device.hasValidReading \in BOOLEAN
  /\ device.lastChangeTime \in Int /\ device.relayOnSince \in Int
  /\ device.lastHumidity \in Int /\ device.failures \in Nat
  /\ main.fresh \in BOOLEAN
  /\ Record(service.rule, DOMAIN R!NewRule)
  /\ service.rule.relayOn \in BOOLEAN
  /\ service.rule.lastChangeTime \in Int /\ service.rule.relayOnSince \in Int
  /\ net.pc \in {"idle", "received", "desired", "issued"}
  /\ net.message.on \in BOOLEAN /\ brokerDesired.on \in BOOLEAN
  /\ telemetry # <<>> =>
       /\ telemetry = <<Head(telemetry)>>
       /\ Head(telemetry).queuedAt \in Int
       /\ \E h \in {40, 50, 65, 80, 85} : Head(telemetry).reading = Send(h).reading
  /\ inbox # <<>> => inbox = <<brokerDesired>> /\ brokerDesired.queuedAt \in Int
  /\ Record(log, DOMAIN EmptyLog) /\ log.lastOnAt \in Int

\* When the script is where.
Times ==
  /\ demo.step \notin {24, 25} => clock <= demo.wake
  /\ Busy => main.now = clock /\ demo.wake <= clock
  /\ demo.step = 5 => demo.wake >= ServicePause
  /\ demo.step \in 6 .. 9 => clock >= ServicePause
  /\ demo.step = 9 => demo.wake >= ServicePause + 2 * SampleInterval
  /\ demo.step >= 10 => clock >= ServicePause + 2 * SampleInterval
  /\ demo.step \in {0, 4, 6, 7, 8, 10, 12, 13, 14, 16, 19, Last + 3} =>
       demo.wake <= clock
  /\ demo.step \in {11, 18, 21, 22, 27, Last + 5} /\ demo.deadline = Never =>
       demo.wake <= clock
  /\ Sent <= clock

\* The broker is ready before the script gives up on it.
BrokerInv ==
  demo.step = 2 =>
    /\ broker \in {"starting", "ready"}
    /\ demo.deadline # Never =>
         /\ demo.wake < demo.deadline
         /\ broker = "starting" => clock + Poll < demo.deadline

\* The service is up when the script needs it, and new whenever it has been started.
ServiceInv ==
  /\ demo.step \in 0 .. 3 => service = NoService
  /\ demo.step \in {4, Last + 3} =>
       /\ service.state \in {"starting", "up"}
       /\ service.state = "starting" => service.since = clock
  /\ demo.step \in {5, Last + 4} /\ ~Busy =>
       /\ service.state \in {"starting", "up"}
       /\ service.state = "starting" =>
            /\ service.since + ServicePause = demo.wake
            /\ clock <= service.since + StartupMax
  /\ demo.step \in 6 .. 23 \cup Last + 5 .. Last + 9 => service.state = "up"
  /\ demo.step = Last + 4 /\ Busy => service.state = "up"
  /\ demo.step = 24 =>
       /\ service.state \in {"up", "stopping", "dead"}
       /\ service.state # "up" => telemetry = <<>>
  /\ demo.step \in 25 .. Last + 2 => service.state = "dead"
  /\ demo.step \in 0 .. 7 \cup {Last + 3, Last + 4} => service.rule = R!NewRule

\* Where the last reading and its answer are, so long after the reading was sent.
QueueInv ==
  /\ telemetry # <<>> =>
       /\ Head(telemetry).queuedAt <= Sent
       /\ clock <= Head(telemetry).queuedAt + MaxDelay
       /\ inbox = <<>>
  /\ inbox # <<>> =>
       /\ brokerDesired.queuedAt <= Sent + MaxDelay
       /\ clock <= brokerDesired.queuedAt + MaxDelay
  /\ net.pc # "idle" => clock <= Sent + 2 * MaxDelay
  /\ demo.step \in 0 .. 7 \cup {10, 16, 17} \cup 27 .. Last + 4 => Clear
  /\ demo.step \in 0 .. 6 => brokerDesired = NoMessage
  /\ demo.step \in {20, 26} /\ Busy => Clear
  /\ demo.step >= 25 /\ demo.step <= Last + 4 => telemetry = <<>>

\* What the device is about to learn, and what it knows, of the time of a message's issue.
Underway(t) ==
  /\ inbox # <<>> => brokerDesired.sentAt >= t
  /\ net.pc # "idle" => net.issuedAt >= t /\ net.issuedAt >= 0
  /\ net.pc \in {"desired", "issued"} => device.mqttReceived
Known(t) == device.mqttReceived /\ device.mqttIssuedAt >= t /\ device.mqttIssuedAt >= 0

\* What the messages under way say.
Says(on) ==
  /\ inbox # <<>> => brokerDesired.on = on
  /\ net.pc # "idle" => net.message.on = on

\* The reading that is on its way is this one, and so is the device's last one.
Reported(h) == telemetry # <<>> => Head(telemetry).reading = Send(h).reading
Humid(h) == device.hasValidReading /\ device.failures = 0 /\ device.lastHumidity = h

\* The device knows a fresh message from the answer to the first reading on, until it is
\* asked for its mode.
FreshInv ==
  /\ demo.step \in {8, 9} =>
       /\ Underway((Sent - Second) + 1)
       /\ Clear => Known((Sent - Second) + 1)
  /\ demo.step \in {10, 11} =>
       /\ Underway((Sent - (2 * SampleInterval + Second)) + 1)
       /\ Known((Sent - (2 * SampleInterval + Second)) + 1)
  /\ demo.step = 12 => Underway(clock - StaleTimeout) /\ Known(clock - StaleTimeout)
  /\ demo.step \in {10, 11, 12} /\ Deciding => main.fresh

\* Until the script sends 80, nothing is on.
OffInv ==
  /\ demo.step \in 0 .. 11 => ~device.relayOn /\ device.lastChangeTime = 0
  /\ demo.step \in 0 .. 10 =>
       /\ ~service.rule.relayOn /\ service.rule.lastChangeTime = 0
       /\ ~device.mqttDesiredOn /\ Says(FALSE)
  /\ demo.step \in 0 .. 9 =>
       /\ device.hasValidReading => device.lastHumidity <= FanOffPercent
       /\ Reported(40)

\* The script sends 80: the service decides for on, and the device obeys.
RiseInv ==
  /\ demo.step = 10 /\ Busy => Humid(80)
  /\ demo.step = 11 =>
       /\ Humid(80) /\ Reported(80)
       /\ demo.wake <= Sent + (2 * MaxDelay + Poll)
       /\ telemetry # <<>> =>
            /\ ~service.rule.relayOn /\ service.rule.lastChangeTime = 0
            /\ ~device.mqttDesiredOn /\ net.pc = "idle"
       /\ telemetry = <<>> =>
            /\ service.rule.relayOn
            /\ service.rule.lastChangeTime = service.rule.relayOnSince
            /\ service.rule.relayOnSince >= machine.epoch + Sent
            /\ service.rule.relayOnSince <= machine.epoch + clock
            /\ Says(TRUE)
            /\ inbox # <<>> => net.pc = "idle"
            /\ Clear \/ net.pc = "issued" => device.mqttDesiredOn
       /\ device.mqttDesiredOn =>
            telemetry = <<>> /\ inbox = <<>> /\ net.pc \in {"idle", "issued"}

\* The script sends 65, inside the band: everything stays on.
HoldInv ==
  /\ demo.step \in 12 .. 17 =>
       /\ device.relayOn /\ device.mqttDesiredOn /\ service.rule.relayOn /\ Says(TRUE)
       /\ device.lastChangeTime = device.relayOnSince
       /\ service.rule.lastChangeTime = service.rule.relayOnSince
       /\ service.rule.relayOnSince <= machine.epoch + clock
  /\ demo.step \in 12 .. 16 =>
       /\ device.hasValidReading /\ device.failures = 0 /\ device.lastHumidity >= 65
  /\ demo.step \in {12, 13} => telemetry = <<>> /\ inbox = <<>>
  /\ demo.step \in 12 .. 15 =>
       /\ device.relayOnSince = Sent
       /\ service.rule.relayOnSince + (2 * MaxDelay + Poll) >= machine.epoch + Sent
       /\ Reported(65)
  /\ demo.step = 16 => device.relayOnSince <= clock

\* The answer to 50 says off, and in the end the device knows it.
FallAnswer ==
  /\ Reported(50)
  /\ telemetry # <<>> =>
       /\ service.rule.relayOn
       /\ service.rule.lastChangeTime + MinFanOn <= machine.epoch + clock
       /\ net.pc = "idle"
  /\ telemetry = <<>> =>
       /\ ~service.rule.relayOn
       /\ service.rule.lastChangeTime <= machine.epoch + clock
       /\ Says(FALSE)
       /\ inbox # <<>> => net.pc = "idle"
       /\ net.pc = "issued" => ~device.mqttDesiredOn
       /\ Underway((service.rule.lastChangeTime - (machine.epoch + Second)) + 1)
       /\ Clear =>
            /\ ~device.mqttDesiredOn
            /\ Known((service.rule.lastChangeTime - (machine.epoch + Second)) + 1)

\* The script sends 50, the fan has run for its minimum: the service decides for off, and
\* the device obeys it or its own rule.
FallInv ==
  /\ demo.step = 17 =>
       /\ device.lastChangeTime + MinFanOn <= demo.wake
       /\ service.rule.lastChangeTime + MinFanOn <= machine.epoch + demo.wake
       /\ Busy => Humid(50)
  /\ demo.step = 18 =>
       /\ Humid(50)
       /\ demo.wake <= Sent + (2 * MaxDelay + Poll)
       /\ device.relayOn => device.lastChangeTime + MinFanOn <= Sent
       /\ ~device.relayOn => device.lastChangeTime = clock /\ demo.wake <= clock
  /\ demo.step \in 18 .. 20 => FallAnswer
  /\ demo.step = 19 => ~device.relayOn /\ device.lastChangeTime <= clock
  /\ demo.step = 20 => ~device.relayOn /\ device.lastChangeTime + MinFanOff <= demo.wake

\* The device knows no message that is not stale; it runs, or is about to, by itself; the
\* service's minimum off-time is over.
Stale   == clock - device.mqttIssuedAt > StaleTimeout
Running == device.relayOn \/ (Deciding /\ ~main.fresh)
Ripe    == service.rule.lastChangeTime + MinFanOff <= machine.epoch + clock

\* The script has sent 85: the service decides for on, or its minimum off-time still holds.
\* The device goes on, by a message or by itself once the last one is stale, and then no
\* message that says off is or becomes a fresh one: only the cutoff takes it off again.
CutoffAnswer ==
  /\ Humid(85) /\ Reported(85)
  /\ Known(0)
  /\ net.pc # "idle" => net.issuedAt >= 0
  /\ device.relayOn /\ Deciding /\ main.fresh => device.mqttDesiredOn
  /\ Running /\ ~device.mqttDesiredOn => Stale
  /\ telemetry # <<>> =>
       /\ ~service.rule.relayOn /\ ~device.mqttDesiredOn /\ net.pc = "idle"
       /\ Known((service.rule.lastChangeTime - (machine.epoch + Second)) + 1)
       /\ Running => Ripe
  /\ telemetry = <<>> =>
       /\ Says(service.rule.relayOn)
       /\ inbox # <<>> => net.pc = "idle"
       /\ net.pc = "issued" => device.mqttDesiredOn = service.rule.relayOn
       /\ ~service.rule.relayOn =>
            /\ ~device.mqttDesiredOn
            /\ Running => Clear
            /\ ~Clear => Known((Sent - (MinFanOff + Second)) + 2)

\* The device has been off for long enough, goes on, and runs into the cutoff.
CutoffInv ==
  /\ demo.step = 20 /\ Deciding /\ ~main.fresh => Stale /\ Ripe
  /\ demo.step = 20 /\ Busy => Humid(85)
  /\ demo.step \in {21, 22} => CutoffAnswer
  /\ demo.step = 21 =>
       /\ demo.wake <= Sent + (MaxDelay + StaleTimeout + Poll)
       /\ device.relayOn => device.relayOnSince = clock /\ demo.wake <= clock
       /\ ~device.relayOn => device.lastChangeTime + MinFanOff <= clock
       /\ device.mqttIssuedAt <= Sent + MaxDelay
       /\ net.issuedAt <= Sent + MaxDelay
       /\ inbox # <<>> => brokerDesired.sentAt <= Sent + MaxDelay
       /\ Deciding /\ main.fresh => clock <= Sent + (MaxDelay + StaleTimeout)
  /\ demo.step = 22 =>
       /\ device.relayOn /\ device.relayOnSince # Never /\ device.relayOnSince <= clock
       /\ demo.wake < device.relayOnSince + (MaxRuntime + Poll)
       /\ demo.deadline # Never =>
            demo.deadline >= device.relayOnSince + (MaxRuntime + Patience)

\* The service is stopped: every message is stale, and the device stays off.
StoppedInv ==
  /\ demo.step \in 23 .. Last + 9 => ~device.relayOn
  /\ demo.step = 26 =>
       demo.wake >= service.since + (StaleTimeout + 2 * SampleInterval)
  /\ demo.step \in 27 .. Last + 4 => Stale
  /\ demo.step \in 26 .. Last + 4 /\ Deciding => ~main.fresh
  /\ demo.step = 27 /\ ~Busy => demo.deadline = Never
  /\ (demo.step = 26 /\ Busy) \/ demo.step \in 27 .. Last + 9 =>
       device.lastHumidity <= FanOffPercent
  /\ demo.step \in 28 .. Last + 1 =>
       demo.step + (IF Busy THEN 2 ELSE 0) <= 2 * device.failures + 28

\* The service is back, and its first answer says off.
RecoveryInv ==
  demo.step = Last + 5 =>
    /\ Reported(40)
    /\ demo.wake <= Sent + (2 * MaxDelay + Poll)
    /\ telemetry # <<>> => net.pc = "idle" /\ service.rule = R!NewRule
    /\ inbox # <<>> => net.pc = "idle"
    /\ ~service.rule.relayOn /\ Says(FALSE)
    /\ Stale \/ ~device.mqttDesiredOn
    /\ net.pc = "issued" => ~device.mqttDesiredOn
    /\ Deciding /\ main.fresh => ~device.mqttDesiredOn
    /\ Deciding /\ ~main.fresh => clock <= Sent + 2 * MaxDelay
    /\ Underway((Sent - Second) + 1)
    /\ Clear => Known((Sent - Second) + 1)

\* What the script has noted of the ticks.
LogInv ==
  /\ log.lastOnAt <= clock
  /\ demo.step = 23 => log.lastReason = "max_runtime_cutoff"
  /\ demo.step \in {Last, Last + 1} =>
       ~log.on /\ log.reason = "sensor_invalid_safe_state"
  /\ demo.step = 26 =>
       log.lastOnAt + (StaleTimeout + 2 * SampleInterval) <= demo.wake
  /\ demo.step \in 27 .. Last + 9 =>
       log.lastOnAt + (StaleTimeout + 2 * SampleInterval) <= clock

\* What the observer has seen.
SeenInv ==
  /\ demo.step \in 7 .. Last + 9 => connected
  /\ demo.step \in 6 .. Last + 9 => observer \in {"connecting", "on"}
  /\ demo.step = 9 /\ observer = "connecting" => clock = Sent
  /\ demo.step \in 10 .. Last + 9 => observer = "on"
  /\ demo.step \in 12 .. Last + 9 => "on" \in log.seen
  /\ demo.step \in 19 .. Last + 9 \/ (demo.step = 18 /\ ~device.relayOn) =>
       "off" \in log.seen
  /\ demo.step \in 13 .. Last + 9 /\ lastFallback => brokerMode = "local_fallback"
  /\ demo.step \in 28 .. Last + 9 => "local_fallback" \in log.seen

\* All of it, while the script proper lasts.
ScriptInv ==
  /\ ScriptTypes /\ Times /\ BrokerInv /\ ServiceInv /\ QueueInv
  /\ FreshInv /\ OffInv /\ RiseInv /\ HoldInv /\ FallInv /\ CutoffInv
  /\ StoppedInv /\ RecoveryInv /\ LogInv /\ SeenInv

\* The script proper lasts, and the clean-up has not begun.
InScript == demo.step <= Len(Script)

\* Without a fault the script does not fail, and all of the above holds while it lasts.
Succeeding == Fine => demo.code # "failed" /\ (InScript => ScriptInv)

=============================================================================
