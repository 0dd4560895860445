------------------------------- MODULE Mirror -------------------------------
(***************************************************************************)
(* The firmware's controller, the service's rule and the simulator's       *)
(* controller side by side: the same policy written three times.  All are  *)
(* given the same readings at the same moments and decide right after each *)
(* of them.  The two controllers also get the same fan/desired messages,   *)
(* but no command, which the simulator does not know; without a message    *)
(* they decide in local fallback, as the rule always does.  rules.py and   *)
(* device_controller.py say that they mirror the firmware.                 *)
(***************************************************************************)
EXTENDS Controller

CONSTANTS RuleBufferSize,  \* maxlen of the rule's buffer (64, the device's is 16)
          Epoch,           \* POSIX time at which the device was powered up
          FirstReading     \* uptime of the first reading

ASSUME MirrorAssumption ==
  /\ RuleBufferSize \in Nat \ {0}
  /\ Epoch \in Nat
  /\ FirstReading \in Nat

VARIABLES rule,   \* the service's HysteresisRule for this device
          sim,    \* the simulator's DeviceController
          due,    \* a reading has come in and is to be decided upon
          alike   \* history: nothing has happened that the simulator does not know

mirrorVars == <<vars, rule, sim, due, alike>>

R == INSTANCE HysteresisRule
S == INSTANCE DeviceController

PosixTime == Epoch + uptime

MirrorInit ==
  /\ Init
  /\ rule = R!NewRule
  /\ sim = S!NewController
  /\ due = FALSE
  /\ alike = TRUE

\* Readings are at least one unit of time apart, and the first is not before its time.
ShareReading ==
  /\ ~due
  /\ uptime >= FirstReading
  /\ tickedAt < uptime \/ decision.reason = "startup_safe_state"
  /\ \E reading \in Readings :
       /\ OnSensorReading(reading, Now)
       /\ rule' = R!OnReading(rule, reading, PosixTime)
       /\ sim' = S!OnSensorReading(sim, reading)
       /\ alike' = (alike /\ (InRange(reading) <=> S!InRange(reading)))
  /\ due' = TRUE

\* Mutant: the clamp of the issue time at zero forgotten.
MutantTold(device, on, age, now) ==
  [device EXCEPT !.mqttReceived = TRUE, !.mqttDesiredOn = on, !.mqttIssuedAt = now - age]

\* on_mqtt_desired as a whole, for here nothing comes between its assignments.
Told(device, on, age, now) ==
  [device EXCEPT !.mqttReceived = TRUE, !.mqttDesiredOn = on,
                 !.mqttIssuedAt = IF age > now THEN 0 ELSE now - age]

ShareDesired ==
  /\ ~due
  /\ \E on \in BOOLEAN, age \in Ages :
       /\ OnMqttDesired(on, age, Now)
       /\ sim' = Told(sim, on, age, uptime)
  /\ UNCHANGED <<rule, due, alike>>

Decide ==
  /\ due
  /\ Tick(Now)
  /\ rule' = R!Evaluated(rule, PosixTime)
  /\ sim' = S!Ticked(sim, S!MqttFresh(sim, uptime), uptime)
  /\ alike' = (alike /\ ComputeCandidate(Now).reason # "rise_rate_trigger")
  /\ due' = FALSE

Elapse ==
  /\ ~due
  /\ uptime < Horizon
  /\ uptime' = uptime + 1
  /\ UNCHANGED <<relayVars, sensorVars, mqttVars, overrideVars, tickVars, rule, sim, due, alike>>

MirrorNext == ShareReading \/ ShareDesired \/ Decide \/ Elapse

MirrorSpec == MirrorInit /\ [][MirrorNext]_mirrorVars

\* From the same readings the firmware and the service decide the same, and
\* for the same reason, as long as no message has come (module docstring of rules.py).
SameDecision ==
  [][Decide /\ ~mqttReceived =>
       /\ relayOn' = rule'.relayOn
       /\ decision'.reason = R!RuleOutcome(rule, PosixTime).reason]_mirrorVars

\* From the same readings and messages the firmware and the simulator decide the
\* same, for the same reason, whichever of the two governs, until the rise detector
\* the simulator lacks asks for the fan or a reading with an impossible temperature
\* comes (module docstring of device_controller.py).
SimulatorAlike ==
  [][Decide /\ alike' =>
       /\ relayOn' = sim'.relayOn
       /\ decision'.reason = S!Outcome(sim, S!MqttFresh(sim, uptime), uptime).reason]_mirrorVars

=============================================================================
