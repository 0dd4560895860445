---------------------------- MODULE MCFullCheck ----------------------------
(* Two instances of FullCheck for TLC: every script, and every report. *)
EXTENDS DemoScript

\* A fresh broker, with nothing retained.
NothingRetained == {NoMessage}
NothingPublished == {[actual |-> "none", mode |-> "none"]}

\* --duration-hours 1 --showers-per-day 1, in a day of 24 units.
OneHour == E!Arguments(1, 1, 13, 2, 1)

\* No period at all, parts of a day, a day and one and a half days; showers shorter
\* and longer than their plateau; runs that overlap; intervals that do not divide.
SomeReports ==
  {E!Arguments(total, showers, length, run, interval) :
     total \in {0, 12, 25, 36}, showers \in 0 .. 3, length \in {6, 13},
     run \in {2, 7}, interval \in {1, 3}}

\* Nothing set, and the variables of an installation whose broker speaks TLS.
SomeSettings ==
  {<<>>,
   [MQTT_HOST |-> "bathroom", MQTT_PORT |-> "8883", MQTT_USE_TLS |-> "true",
    MQTT_AUTOMATION_USERNAME |-> "automation"]}

\* The values of demo.yaml, and the delays of this instance, are among those with which
\* the demonstration is shown to succeed.
ASSUME DemoCanSucceed == DemoTimings

=============================================================================
