-------------------------- MODULE AutomationService --------------------------
(***************************************************************************)
(* The automation service (mqtt_handler.py, state.py): it handles one      *)
(* telemetry message after another, keeps a rule for every device in       *)
(* memory only, and publishes each decision on the one retained topic      *)
(* fan/desired.                                                            *)
(*                                                                         *)
(* Telemetry reaches it over a broker that keeps the order.  The firmware  *)
(* publishes it once and forgets it; the simulated device (QoS 1) sends    *)
(* what was not acknowledged again when it reconnects.  The sequence       *)
(* number starts over with the device; the rules start over with the       *)
(* service.  What validate_telemetry refuses changes no state and is left  *)
(* out.                                                                    *)
(***************************************************************************)
EXTENDS HysteresisRule

CONSTANTS
  DeviceIds,
  Resending,    \* devices that publish at QoS 1
  Readings,     \* what a telemetry message may report
  Window,       \* messages a device of Resending leaves unacknowledged at most
  Epoch,        \* POSIX time at the start
  Horizon,      \* bound on the time that passes
  SeqMax,       \* bounds on the messages of each device between two resets
  BootMax,      \* bounds on the resets of each device
  InboxMax      \* bound on the messages on their way to the service

ASSUME ServiceAssumption ==
  /\ Resending \subseteq DeviceIds
  /\ Window \in Nat \ {0}
  /\ {Epoch, Horizon, InboxMax} \subseteq Nat
  /\ {SeqMax, BootMax} \subseteq [DeviceIds -> Nat]

VARIABLES
  clock,     \* POSIX time
  boot,      \* how often each device has been reset
  seq,       \* the next sequence number of each device
  unacked,   \* telemetry each device would send again
  reached,   \* how many of these, the oldest ones, the broker has
  inbox,     \* telemetry on its way to the service
  devices,   \* StateStore._devices
  desired,   \* the message retained on fan/desired
  handled,   \* history: telemetry this life of the service acted upon
  failing,   \* history: its failed readings since the last good one, by device
  asked      \* history: what it asked of each device last, and since when

deviceVars  == <<boot, seq, unacked, reached>>
historyVars == <<handled, failing, asked>>
serviceVars == <<devices, desired, historyVars>>
allVars     == <<clock, deviceVars, inbox, serviceVars>>

NoSeq == -1
NoRequest == [on |-> FALSE, since |-> Never]

\* get_or_create: a device not seen yet has a new rule and no last_seq.
NewDevice == [rule |-> NewRule, lastSeq |-> NoSeq]

ServiceInit ==
  /\ clock = Epoch
  /\ boot = [d \in DeviceIds |-> 0]
  /\ seq = [d \in DeviceIds |-> 0]
  /\ unacked = [d \in DeviceIds |-> <<>>]
  /\ reached = [d \in DeviceIds |-> 0]
  /\ inbox = <<>>
  /\ devices = [d \in DeviceIds |-> NewDevice]
  /\ desired = [device |-> "none"]
  /\ handled = {}
  /\ failing = [d \in DeviceIds |-> {}]
  /\ asked = [d \in DeviceIds |-> NoRequest]

-----------------------------------------------------------------------------
(* The devices *)

\* The message reaches the broker, or the connection breaks under it; then
\* nothing follows it before it is sent again.
PublishTelemetry(d) ==
  /\ seq[d] < SeqMax[d]
  /\ Len(unacked[d]) < Window
  /\ Len(inbox) < InboxMax
  /\ \E reading \in Readings, arrives \in BOOLEAN :
       LET telemetry == [device |-> d, boot |-> boot[d], seq |-> seq[d],
                         reading |-> reading]
       IN  /\ arrives => reached[d] = Len(unacked[d])
           /\ inbox' = IF arrives THEN Append(inbox, telemetry) ELSE inbox
           /\ IF d \in Resending
                THEN /\ unacked' = [unacked EXCEPT ![d] = Append(@, telemetry)]
                     /\ reached' = [reached EXCEPT ![d] = IF arrives THEN @ + 1 ELSE @]
                ELSE UNCHANGED <<unacked, reached>>
  /\ seq' = [seq EXCEPT ![d] = @ + 1]
  /\ UNCHANGED <<clock, boot, serviceVars>>

\* After a reconnect, all that is not acknowledged, in the old order.
Resend(d) ==
  /\ unacked[d] # <<>>
  /\ Len(inbox) + Len(unacked[d]) <= InboxMax
  /\ inbox' = inbox \o unacked[d]
  /\ reached' = [reached EXCEPT ![d] = Len(unacked[d])]
  /\ UNCHANGED <<clock, boot, seq, unacked, serviceVars>>

\* The broker's acknowledgement of the oldest message arrives.
Acknowledge(d) ==
  /\ reached[d] > 0
  /\ unacked' = [unacked EXCEPT ![d] = Tail(@)]
  /\ reached' = [reached EXCEPT ![d] = @ - 1]
  /\ UNCHANGED <<clock, boot, seq, inbox, serviceVars>>

\* Mutant: messages of the life before sent again.
MutantResetDevice(d) ==
  /\ boot[d] < BootMax[d]
  /\ boot' = [boot EXCEPT ![d] = @ + 1]
  /\ seq' = [seq EXCEPT ![d] = 0]
  /\ UNCHANGED <<clock, unacked, reached, inbox, serviceVars>>

ResetDevice(d) ==
  /\ boot[d] < BootMax[d]
  /\ boot' = [boot EXCEPT ![d] = @ + 1]
  /\ seq' = [seq EXCEPT ![d] = 0]
  /\ unacked' = [unacked EXCEPT ![d] = <<>>]
  /\ reached' = [reached EXCEPT ![d] = 0]
  /\ UNCHANGED <<clock, inbox, serviceVars>>

-----------------------------------------------------------------------------
(* The service *)

\* Mutants: no duplicate check, and one that expects numbers to grow.
MutantNeverDuplicate(device, n) == FALSE
MutantGrowing(device, n) == n <= device.lastSeq

IsDuplicate(device, n) == device.lastSeq # NoSeq /\ n = device.lastSeq

\* Mutant: the number is not kept.
MutantRemembered(device, telemetry) == device

Remembered(device, telemetry) == [device EXCEPT !.lastSeq = telemetry.seq]

\* _publish_fan_desired; the history follows what is asked of the device.
PublishFanDesired(d, on) ==
  /\ desired' = [device |-> d, on |-> on, issuedAt |-> clock]
  /\ asked' = IF asked[d].on = on THEN asked
              ELSE [asked EXCEPT ![d] = [on |-> on, since |-> clock]]

\* _handle_telemetry of a message that is no duplicate.
Decide(telemetry) ==
  LET d    == telemetry.device
      read == OnReading(devices[d].rule, telemetry.reading, clock)
      rule == Evaluated(read, clock)
  IN  /\ devices' = [devices EXCEPT
                       ![d] = [Remembered(@, telemetry) EXCEPT !.rule = rule]]
      /\ PublishFanDesired(d, rule.relayOn)
      /\ handled' = handled \cup {telemetry}
      /\ failing' = [failing EXCEPT ![d] = IF InRange(telemetry.reading) THEN {}
                                           ELSE @ \cup {telemetry}]

HandleTelemetry ==
  /\ inbox # <<>>
  /\ inbox' = Tail(inbox)
  /\ LET telemetry == Head(inbox)
     IN  IF IsDuplicate(devices[telemetry.device], telemetry.seq)
           THEN UNCHANGED serviceVars
           ELSE Decide(telemetry)
  /\ UNCHANGED <<clock, deviceVars>>

\* The session is clean: the broker drops what was on its way.
LoseConnection ==
  /\ inbox # <<>>
  /\ inbox' = <<>>
  /\ UNCHANGED <<clock, deviceVars, serviceVars>>

\* Nothing but the retained message survives.
RestartService ==
  /\ inbox' = <<>>
  /\ devices' = [d \in DeviceIds |-> NewDevice]
  /\ handled' = {}
  /\ failing' = [d \in DeviceIds |-> {}]
  /\ asked' = [d \in DeviceIds |-> NoRequest]
  /\ UNCHANGED <<clock, deviceVars, desired>>

TimePasses ==
  /\ clock < Epoch + Horizon
  /\ clock' = clock + 1
  /\ UNCHANGED <<deviceVars, inbox, serviceVars>>

ServiceNext ==
  \/ \E d \in DeviceIds :
       PublishTelemetry(d) \/ Resend(d) \/ Acknowledge(d) \/ ResetDevice(d)
  \/ HandleTelemetry \/ LoseConnection \/ RestartService \/ TimePasses

ServiceSpec == ServiceInit /\ [][ServiceNext]_allVars

-----------------------------------------------------------------------------
(* Properties *)

Telemetry == [device : DeviceIds, boot : Nat, seq : Nat, reading : Readings]

\* The types, and what a device may send again: messages of its own, of this
\* life, in the order of their numbers.
ServiceTypeOK ==
  /\ clock \in Epoch .. Epoch + Horizon
  /\ handled \subseteq Telemetry
  /\ inbox \in Seq(Telemetry)
  /\ \A d \in DeviceIds :
       /\ seq[d] \in Nat
       /\ devices[d].lastSeq \in {NoSeq} \cup Nat
       /\ reached[d] \in 0 .. Len(unacked[d])
       /\ \A i \in 1 .. Len(unacked[d]) :
            /\ unacked[d][i] \in [device : {d}, boot : {boot[d]},
                                  seq : 0 .. seq[d] - 1, reading : Readings]
            /\ i > 1 => unacked[d][i].seq = unacked[d][i - 1].seq + 1

\* Two messages of one life of a device that it may have sent again together.
Neighbours(a, b) ==
  /\ a.device = b.device /\ a.boot = b.boot
  /\ a.seq # b.seq
  /\ a.seq - b.seq < Window /\ b.seq - a.seq < Window

\* A message sent again is acted upon a second time in one life of the service only if
\* the device may have sent another one again with it, and that has been acted upon as
\* well: is_duplicate knows the last message only.  Where a device leaves one message
\* unacknowledged at a time, none is acted upon twice (docs/mqtt-api.md,
\* "Duplicate-message safety").
HandledOnce ==
  [][HandleTelemetry /\ Head(inbox) \in handled /\ ~UNCHANGED <<devices, desired>> =>
       \E other \in handled : Neighbours(other, Head(inbox))]_allVars

\* A message not seen before is ignored only when the device was reset and has
\* come back to the number it sent last (is_duplicate).
FreshTelemetryUsed ==
  [][HandleTelemetry /\ Head(inbox) \notin handled /\ UNCHANGED handled =>
       \E telemetry \in handled :
          /\ telemetry.device = Head(inbox).device
          /\ telemetry.seq = Head(inbox).seq
          /\ telemetry.boot < Head(inbox).boot]_allVars

\* The failures that make a rule distrust its sensor are failures of different
\* messages of that device, with no good reading between them, unless two of these may
\* have been sent again together: one failed reading, however often it is repeated,
\* counts once (rules.py, consecutive_failures).
FailuresAreDistinct ==
  \A d \in DeviceIds :
    \/ devices[d].rule.failures <= Cardinality(failing[d])
    \/ \E a, b \in failing[d] : Neighbours(a, b)

\* While the service lives, what it asks of a device keeps the dwell times,
\* however devices, repetitions and losses interleave (rules.py, evaluate).
RequestDwellKept ==
  [][\A d \in DeviceIds :
       asked'[d] # asked[d] /\ asked[d].since # Never /\ asked'[d].since # Never =>
       clock - asked[d].since >=
         IF ~asked[d].on THEN MinFanOff
         ELSE IF MaxRuntime < MinFanOn THEN MaxRuntime ELSE MinFanOn]_allVars

\* While the service lives, it never asks a device to be on that it has asked
\* to be on for the runtime limit already (rules.py, max_runtime_exceeded).
RequestBounded ==
  [][HandleTelemetry /\ ~UNCHANGED handled /\ desired'.on =>
       clock - asked'[desired'.device].since < MaxRuntime]_allVars

=============================================================================
