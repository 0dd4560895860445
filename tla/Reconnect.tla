----------------------------- MODULE Reconnect -----------------------------
(***************************************************************************)
(* How the firmware comes back on line: WifiManager (wifi_manager.h), the  *)
(* connection half of MqttClient (mqtt_client.h) and the order in which    *)
(* loop() asks them (main.cpp).  Each doubles a back-off of its own; MQTT  *)
(* is looked after only while Wi-Fi is up, and its attempt blocks the loop.*)
(*                                                                         *)
(* Neither back-off reads the clock but as a difference now - last_attempt *)
(* on 32 bits, so only that difference is kept: it goes back to zero every *)
(* ClockModulus, and time need not end.  The two links of the world, the   *)
(* access point and the broker, come and go at any moment.                 *)
(***************************************************************************)
EXTENDS MillisClock

CONSTANTS BackoffInitial,  \* kMqttReconnectBackoffInitialSeconds, for both
          BackoffMax,      \* kMqttReconnectBackoffMaxSeconds, for both
          LoopLag,         \* longest pass of loop(), a connection attempt aside
          AssociationMax,  \* longest the radio takes to join a present network
          ConnectMax,      \* longest client_.connect blocks
          NoticeMax,       \* longest a dead session passes for an open one
          RecoveryMax      \* the time a recovery is claimed to take

\* A back-off is over before the clock comes round to hide it, and the longest
\* one leaves the radio the time to join.
ASSUME ReconnectAssumption ==
  /\ {BackoffInitial, BackoffMax, LoopLag, AssociationMax, ConnectMax,
      NoticeMax, RecoveryMax} \subseteq Nat \ {0}
  /\ BackoffInitial <= BackoffMax
  /\ AssociationMax + LoopLag < BackoffMax
  /\ BackoffMax + LoopLag + ConnectMax < ClockModulus

VARIABLES
  pc,         \* where the pass of loop() is
  passFor,    \* time spent in this pass, a connection attempt aside
  wifi,       \* WifiManager: backoff_ms_, millis() - last_attempt_ms_
  mqtt,       \* MqttClient: the same two
  station,    \* the radio: "down", "associating" or "up"
  joiningFor, \* time since WiFi.begin found the network
  session,    \* "none", "open", or "dead" and not yet noticed
  deadFor,    \* time the dead session has been looked after
  attempt,    \* client_.connect: how long, and was the path whole throughout
  present,    \* the access point and the broker answer
  stableFor   \* history: time since both have answered without a break

loopVars    == <<pc, passFor>>
stationVars == <<station, joiningFor>>
sessionVars == <<session, deadFor>>
worldVars   == <<present, stableFor>>
vars == <<loopVars, wifi, mqtt, stationVars, sessionVars, attempt, worldVars>>

Least(a, b) == IF a < b THEN a ELSE b

NoAttempt == [for |-> 0, whole |-> TRUE]

Fresh == [backoff |-> BackoffInitial, since |-> 0]

\* WiFi.begin: the network is found or it is not; a join under way starts anew.
Begin(network) ==
  /\ station' = IF network THEN "associating" ELSE "down"
  /\ joiningFor' = 0

\* setup() begins without noting when: last_attempt_ms_ stays 0.
Init ==
  /\ pc = "wifi"
  /\ passFor = 0
  /\ wifi = Fresh
  /\ mqtt = Fresh
  /\ present \in [accessPoint : BOOLEAN, broker : BOOLEAN]
  /\ station = IF present.accessPoint THEN "associating" ELSE "down"
  /\ joiningFor = 0
  /\ session = "none"
  /\ deadFor = 0
  /\ attempt = NoAttempt
  /\ stableFor = 0

-----------------------------------------------------------------------------
(* One pass of loop() *)

\* Mutants: the cap forgotten; no doubling at all.
MutantUncapped(link) == Least(link.backoff * 2, ClockModulus - 1)

MutantConstant(link) == link.backoff

Doubled(link) == Least(link.backoff * 2, BackoffMax)

Reset(link) == [link EXCEPT !.backoff = BackoffInitial]

Due(link) == link.since >= link.backoff

WifiUp ==
  /\ pc = "wifi"
  /\ station = "up"
  /\ wifi' = Reset(wifi)
  /\ pc' = "mqtt"
  /\ UNCHANGED <<passFor, mqtt, stationVars, sessionVars, attempt, worldVars>>

WifiAttempt ==
  /\ pc = "wifi"
  /\ station # "up"
  /\ Due(wifi)
  /\ Begin(present.accessPoint)
  /\ wifi' = [backoff |-> Doubled(wifi), since |-> 0]
  /\ pc' = "mqtt"
  /\ UNCHANGED <<passFor, mqtt, sessionVars, attempt, worldVars>>

WifiWait ==
  /\ pc = "wifi"
  /\ station # "up"
  /\ ~ Due(wifi)
  /\ pc' = "mqtt"
  /\ UNCHANGED <<passFor, wifi, mqtt, stationVars, sessionVars, attempt,
                 worldVars>>

\* loop() asks IsConnected once more before it turns to MQTT.
NoWifi ==
  /\ pc = "mqtt"
  /\ station # "up"
  /\ pc' = "rest"
  /\ UNCHANGED <<passFor, wifi, mqtt, stationVars, sessionVars, attempt,
                 worldVars>>

\* connected() is true of a session nobody has noticed to be dead.
MqttUp ==
  /\ pc = "mqtt"
  /\ station = "up"
  /\ session # "none"
  /\ deadFor < NoticeMax
  /\ mqtt' = Reset(mqtt)
  /\ pc' = "rest"
  /\ UNCHANGED <<passFor, wifi, stationVars, sessionVars, attempt, worldVars>>

\* The socket, or the keep-alive in Loop(), tells that the session is gone.
MqttLost ==
  /\ pc = "mqtt"
  /\ station = "up"
  /\ session = "dead"
  /\ session' = "none"
  /\ deadFor' = 0
  /\ UNCHANGED <<loopVars, wifi, mqtt, stationVars, attempt, worldVars>>

\* Mutant: last_attempt_ms_ = now above the early return.
MutantMqttWait ==
  /\ pc = "mqtt"
  /\ station = "up"
  /\ session = "none"
  /\ ~ Due(mqtt)
  /\ mqtt' = [mqtt EXCEPT !.since = 0]
  /\ pc' = "rest"
  /\ UNCHANGED <<passFor, wifi, stationVars, sessionVars, attempt, worldVars>>

MqttWait ==
  /\ pc = "mqtt"
  /\ station = "up"
  /\ session = "none"
  /\ ~ Due(mqtt)
  /\ pc' = "rest"
  /\ UNCHANGED <<passFor, wifi, mqtt, stationVars, sessionVars, attempt,
                 worldVars>>

\* last_attempt_ms_ is the start of the attempt.
MqttAttempt ==
  /\ pc = "mqtt"
  /\ station = "up"
  /\ session = "none"
  /\ Due(mqtt)
  /\ mqtt' = [mqtt EXCEPT !.since = 0]
  /\ attempt' = [for |-> 0, whole |-> present.broker]
  /\ pc' = "connecting"
  /\ UNCHANGED <<passFor, wifi, stationVars, sessionVars, worldVars>>

Connected ==
  /\ pc = "connecting"
  /\ station = "up"
  /\ present.broker
  /\ session' = "open"
  /\ mqtt' = Reset(mqtt)
  /\ attempt' = NoAttempt
  /\ pc' = "rest"
  /\ UNCHANGED <<passFor, wifi, stationVars, deadFor, worldVars>>

\* A broker that is there throughout the attempt accepts it.
ConnectFailed ==
  /\ pc = "connecting"
  /\ ~ attempt.whole
  /\ mqtt' = [mqtt EXCEPT !.backoff = Doubled(mqtt)]
  /\ attempt' = NoAttempt
  /\ pc' = "rest"
  /\ UNCHANGED <<passFor, wifi, stationVars, sessionVars, worldVars>>

EndPass ==
  /\ pc = "rest"
  /\ pc' = "wifi"
  /\ passFor' = 0
  /\ UNCHANGED <<wifi, mqtt, stationVars, sessionVars, attempt, worldVars>>

EnsureWifi == WifiUp \/ WifiAttempt \/ WifiWait

EnsureMqtt == NoWifi \/ MqttUp \/ MqttLost \/ MqttWait \/ MqttAttempt

Pass == EnsureWifi \/ EnsureMqtt \/ Connected \/ ConnectFailed \/ EndPass

-----------------------------------------------------------------------------
(* The world *)

Associated ==
  /\ station = "associating"
  /\ station' = "up"
  /\ joiningFor' = 0
  /\ UNCHANGED <<loopVars, wifi, mqtt, sessionVars, attempt, worldVars>>

\* Whatever breaks, breaks the session and the attempt under way with it: that
\* the socket might survive a short break is not counted on.
Break ==
  /\ session' = IF session = "open" THEN "dead" ELSE session
  /\ attempt' = [attempt EXCEPT !.whole = pc # "connecting"]
  /\ stableFor' = 0
  /\ UNCHANGED <<loopVars, wifi, mqtt, deadFor>>

AccessPointVanishes ==
  /\ present.accessPoint
  /\ present' = [present EXCEPT !.accessPoint = FALSE]
  /\ station' = "down"
  /\ joiningFor' = 0
  /\ Break

BrokerVanishes ==
  /\ present.broker
  /\ present' = [present EXCEPT !.broker = FALSE]
  /\ UNCHANGED stationVars
  /\ Break

Return ==
  /\ \E link \in {"accessPoint", "broker"} :
       /\ ~ present[link]
       /\ present' = [present EXCEPT ![link] = TRUE]
  /\ UNCHANGED <<loopVars, wifi, mqtt, stationVars, sessionVars, attempt,
                 stableFor>>

AllPresent == present.accessPoint /\ present.broker

\* What must happen by now has happened.
NothingOverdue ==
  /\ IF pc = "connecting" THEN attempt.for < ConnectMax ELSE passFor < LoopLag
  /\ station = "associating" => joiningFor < AssociationMax

Elapsed(link) == [link EXCEPT !.since = Add32(link.since, 1)]

TimePasses ==
  /\ NothingOverdue
  /\ wifi' = Elapsed(wifi)
  /\ mqtt' = Elapsed(mqtt)
  /\ IF pc = "connecting"
       THEN /\ attempt' = [attempt EXCEPT !.for = attempt.for + 1]
            /\ UNCHANGED passFor
       ELSE /\ passFor' = passFor + 1
            /\ UNCHANGED attempt
  /\ joiningFor' = IF station = "associating" THEN joiningFor + 1 ELSE joiningFor
  /\ deadFor' = IF session = "dead" /\ station = "up"
                  THEN Least(deadFor + 1, NoticeMax) ELSE deadFor
  /\ stableFor' = IF AllPresent THEN Least(stableFor + 1, RecoveryMax)
                                ELSE stableFor
  /\ UNCHANGED <<pc, station, session, present>>

World == Associated \/ AccessPointVanishes \/ BrokerVanishes \/ Return

Next == Pass \/ World \/ TimePasses

\* loop() is called again and again, a join and a connection attempt end, and
\* time goes on; nothing has to break, to be noticed early or to come back.
Fairness ==
  /\ WF_vars(Pass)
  /\ WF_vars(Associated)
  /\ WF_vars(TimePasses)

Spec == Init /\ [][Next]_vars /\ Fairness

-----------------------------------------------------------------------------
(* Properties *)

Link == [backoff : BackoffInitial .. BackoffMax, since : UInt32]

\* The types of the variables.  Neither back-off ever leaves the range between
\* its initial value and its cap (wifi_manager.h, mqtt_client.h).
ReconnectTypeOK ==
  /\ pc \in {"wifi", "mqtt", "connecting", "rest"}
  /\ passFor \in 0 .. LoopLag
  /\ wifi \in Link
  /\ mqtt \in Link
  /\ station \in {"down", "associating", "up"}
  /\ joiningFor \in 0 .. AssociationMax
  /\ session \in {"none", "open", "dead"}
  /\ deadFor \in 0 .. NoticeMax
  /\ attempt \in [for : 0 .. ConnectMax, whole : BOOLEAN]
  /\ present \in [accessPoint : BOOLEAN, broker : BOOLEAN]
  /\ stableFor \in 0 .. RecoveryMax

\* However long the outage was, in whatever order Wi-Fi and the broker failed
\* and came back, and however far each back-off had grown, the device holds a
\* live session once both have answered for RecoveryMax.
RecoveryBounded == stableFor >= RecoveryMax => session = "open"

\* When outages end for good the device ends up on line for good: no attempt of
\* either link goes on cutting short the one before it, and none is the last.
ComesBack == <>[]AllPresent => <>[](session = "open")

=============================================================================
