# Verification of the bathroom ventilation system

TLA+ models of the ESP32 controller, its main loop, its MQTT client and its way
back on line; of the automation service that shares its decisions; of the
simulated device; and of the scripts that put all of these together: the
end-to-end demonstration, the energy report and the full check. TLC checks them
on small instances; TLAPS proves most of what the runs check for every
configuration: of the controller, the main loop, the service, the simulated
device, the demonstration and the energy report, and that the three copies of the
decision procedure agree.

## 1. The system

A humidity sensor, a relay with a fan, an MQTT broker, and an automation
service. Every part that decides keeps its own state, and they talk only through
broker topics.

| Part | State | Operations | What makes it correct |
|---|---|---|---|
| `VentilationController` (`firmware/src/controller.cpp`) | relay and two relay time stamps, last valid humidity and failure counter, held `fan/desired` message, override and its expiry, ring buffer of the rise detector; all times are `uint32_t` milliseconds that wrap | `OnSensorReading`, `OnMqttDesired`, `OnCommand`, `Tick` | dwell times and runtime limit for every mix of sources, the priority override > message > sensor, staleness, fail-safe off, hysteresis |
| Main loop (`firmware/src/main.cpp`) | times of the last sample and telemetry, last fallback flag, the relay GPIO | `setup`, `loop`, two callbacks | the contact keeps the controller's promises although a pass blocks and `now` is read once; reports match the contact |
| MQTT client (`mqtt_client.h`) | connection, back-off, `seq_` | connect and subscribe, dispatch of a message, publications | a message is as old as it is; retained messages are not taken for new ones; back on line in bounded time |
| Wi-Fi manager (`wifi_manager.h`) | back-off, time of the last attempt | `Begin`, `EnsureConnected` | attempts do not cut each other short for ever |
| Relay, sensor driver, diagnostics | a GPIO; none; none | | |
| `HysteresisRule` (`rules.py`) | a copy of the controller's fallback state, in POSIX seconds | `on_reading`, `evaluate` | decides as the firmware does |
| `MqttHandler`, `StateStore` (`mqtt_handler.py`, `state.py`) | per device: a rule, the last `seq`; in memory only | a handler of telemetry that publishes `fan/desired` | repeated telemetry counts once; requests keep the timers; restarts are harmless |
| Automation configuration (`config.py`) | none: a YAML file, the process's environment, a `.env` file | `load_config` | each setting comes from the source its caller means |
| Simulated device (`simulator/`) | a Python port of the controller, shared by two threads | publish, tick, `on_message` | same as the firmware |
| End-to-end demo (`run_e2e_demo.py`, `humidity_profiles.py`) | a broker's container, the service's process, a device, an observer | start, send, wait, assert, clean up | fails only when something is wrong, ends, leaves nothing behind, touches no installation |
| Energy report (`energy_report.py`) | a controller fed with a synthetic day | `run_comparison` | the seconds it counts are the seconds the fan runs |
| Full check (`run_full_check.py`) | results of five child processes | steps, summary | ends, whatever a child does |
| Password script, broker configuration, CI | | | |

The firmware publishes telemetry; the service answers each message with a
retained `fan/desired`; an operator may publish a `command`, which is not
retained. In local fallback the device publishes `fan/desired` itself and, being
subscribed to that topic, gets it back. `fan/actual` and `mode` report.

What is hard here: several sources compete for one relay with timers; the
clock wraps; the callbacks and the loop use different readings of it; a pass of
the loop blocks; the broker keeps messages over resets and disconnections;
telemetry is lost, repeated and reordered against resets; a decision procedure
is written three times; two back-offs with different owners serve one link; a
script of sleeps and deadlines races four processes. The list with source lines is `hazards` in `PROJECT.json`.

## 2. The modules

| Module | Models |
|---|---|
| `MillisClock` | `millis()` and `uint32_t` arithmetic modulo `ClockModulus` (2^32 in the device), and `SaturatingSub` |
| `RiseRate` | the rise detector; the ring buffer is the sequence of its samples, newest first |
| `Controller` | the four methods, one operator each, that take `now` as the code does; a small environment calls them in any order |
| `AntiCyclingRelay` | the promise: a relay with a shortest ON and OFF stretch, a longest ON stretch and a count of starts |
| `ControllerProofs`, `FirmwareProofs`, `ReconnectProofs`, `AutomationServiceProofs`, `SimDeviceProofs` | the theorems about the module each is named for |
| `MirrorProofs` | the theorems that the three copies of the policy agree, with what the two rise detectors find in their buffers |
| `DemoProofs`, `EnergyReportProofs` | the theorems about the demonstration and the energy report, as parts of `FullCheck` |
| `Firmware` | extends `Controller` with the loop, the connection and the broker |
| `HysteresisRule` | the service's rule: an object is a record, a method an operator on it |
| `Mirror` | `Controller` and instances of `HysteresisRule` and `DeviceController`, the same policy three times, given the same readings and messages |
| `Reconnect` | the Wi-Fi manager, the connection half of the MQTT client and the order in which the loop asks them |
| `AutomationService` | the telemetry handler over `HysteresisRule`, with devices that reset and repeat themselves |
| `DeviceController` | the simulator's port of the controller, again a record and its operators |
| `SimDevice` | the simulated device: a main and a network thread that share a `DeviceController` |
| `Configuration` | `load_config`: an environment is a function from the names that are set |
| `HumidityProfiles` | the synthetic showers, one at a time and overlaid |
| `EnergyReport` | `run_comparison`, sample by sample, over `HumidityProfiles` and `DeviceController` |
| `Demo` | the demonstration: its script as a table, its processes, and `SimDevice`, `HysteresisRule` and `Configuration` put together |
| `FullCheck` | the five steps of the full check around `Demo`, and the `EnergyReport` that the demonstration, or a developer, runs |
| `DemoScript` | where the last reading, its answer and the device are at each step of the script: the invariant with which the demonstration is proved to succeed, and the values it needs (`DemoTimings`) |
| `MCController`, `MCFirmware`, `MCMirror`, `MCAutomationService`, `MCSimDevice`, `MCReconnect`, `MCFullCheck` | instances for TLC |

`Controller`. The variables up to `decision` are the fields of the class under
their names; those from `uptime` on (`switchedAt`, `tickedAt`, `starts`,
`missed`, `mqttSentAt`, `overrideSentAt`) are history. They record what really
happened on a clock that does not wrap, no action reads them except for the
caller's duty to tick within `TickPeriod`, and the properties compare the code's
wrapped stamps with them. Humidity and temperature are integers; the slope of
the rise detector is compared after multiplying out instead of dividing floats.
`Tick` is one action: candidate, cutoff, dwell, relay, expiry of the override
and the returned decision, in that order.

`Firmware`. A pass of `loop()` is a sequence of steps (`pc`): read `millis()`
(`StartPass`), the connection (`StayOffline`, `StayOnline`, `Reconnect`), at
most one message (`HandleMessage`, `NoMessageYet`), and, when due, sample, tick
and publish (`SkipSample`, `Sample`, `TickAndPublish`). `TimePasses` may fall
between any two of them, up to `LoopLag` from the start of one pass to the next,
so the callback's `millis()` may be later than the one `Tick` uses. `inbox` is
what the broker has under way, `brokerDesired`, `brokerActual` and `brokerMode`
what it retains. A reset is an initial state with a broker that remembers
(`PastLives`). `Sync` is NTP's answer, at any moment; before it the device's wall clock
counts from 1970 (`WallClock`), every age is 0 and the device's own messages carry
meaningless stamps, as in the client. A message carries the whole second of its
sender's clock (`issuedAt`); the history `sentAt` is when it was really sent. `AgeOf`
subtracts whole seconds and cuts the result to 32 bits, as `age_s * 1000UL` is: a
retained message of an earlier life may be so old that it looks new. A callback's
`millis()` may be read a while after the wall clock of the same pass (`readAt`).

`AutomationService`. `_devices` with `get_or_create` is a function that starts
at `NewDevice` everywhere. Telemetry travels in order; a device of `Resending`
(the simulator, QoS 1) keeps what is not acknowledged and sends it again in
order, the others (PubSubClient publishes at QoS 0) forget it. `boot` tells the
lives of a device apart, whose numbers start over. `handled`, `failing` and
`asked` are history.

`SimDevice`. `main` and `net` hold where each thread is and its local variables.
The fields the threads share are `mqtt_received`, `mqtt_desired_on` and
`mqtt_issued_at`; a tick reads them in `CheckFresh` and again in `FinishTick`,
`on_mqtt_desired` writes them in `SetReceived`, `SetDesired` and `SetIssuedAt`,
and the other thread or time may come between any two of these. `_on_message` reads the
wall clock in `TakeMessage` and the device's own in `CallOnMqttDesired`, up to `ReadLag`
apart; the model's clock stands for both, which go at the same rate. The broker starts
with what the service and an earlier life of the device retained (`PastTopics`); a mode
of an earlier life has a name of its own, to be told apart from the same mode
published now.

`HysteresisRule`, `DeviceController` and `Controller` were each translated from
their own source; nothing is shared, which is what gives `Mirror` its meaning.

`Reconnect`. Both `EnsureConnected` methods use the clock only in
`millis() - last_attempt_ms_`, so the model keeps that difference, modulo
`ClockModulus`, and time need not end. A pass asks Wi-Fi (`WifiUp`,
`WifiAttempt`, `WifiWait`), asks `IsConnected` again (`NoWifi`), and then MQTT
(`MqttUp`, `MqttLost`, `MqttWait`, `MqttAttempt`, and the blocking connect that
ends in `Connected` or `ConnectFailed`). `WiFi.begin` restarts a join that is
under way. A session that breaks stays unnoticed for up to `NoticeMax` of the
time the loop looks after it. `Firmware` abstracts all of this to one flag that
may change in any pass.

`Demo`. `Script` lists what `main` does from the first to the last line of its
`try`, `Program` adds the `finally`; `Failed` jumps there. Computing takes no
time, so that both clocks of `_on_message` are read in one moment (`OnMessage`); time
passes while the script sleeps, between two rounds of `wait_until`, and while it waits
for the service to end. The device ticks on the script's
thread, the network thread interleaves with it as in `SimDevice`. `machine` holds
what the script finds: the time of day, its shell's environment and the `.env`
file. At most one fault happens per run: the container does not start or never
becomes ready, the service dies, the report fails. `FullCheck` runs the script
as a child, and gives reports arguments of their own in other initial states.

## 3. What the runs check

Bounds are few time units. In `controller`, dwell times of 2 and 1, a limit of 3
and a horizon of 6 hold a complete on-off-on cycle with a cutoff, a hold of each
kind, and an override or a message that goes stale. In `firmware_timers` the
dwell times (3 and 4) exceed the lag of the loop (2), without which the bound on
the contact would be empty, and 11 units hold the start, the cutoff and the next
start. A second is two units there and in `firmware_messages`, and the device boots in
the middle of one (`BootTime = 101`), so that whole seconds make ages both too long and
too short. Each property has a
mutant of the code (an operator `Mutant...` beside the definition it replaces)
that breaks it under the same configuration, so the case it speaks of does
happen within the bounds.

| Run | Expected | What it shows |
|---|---|---|
| `controller` | pass | All inputs at once: good, failing and out-of-range readings, fresh and stale messages and commands, ticks up to two units apart. `DwellKept`, `StartsBounded`, `RuntimeBounded`, `HysteresisHolds`, `FailSafeOff`, `OnlyTimersOverrule`, `OverrideLapses`, `StaleCommandIgnoredAfterBoot`, and that the controller implements `AntiCyclingRelay` (`ImplementsRelay`) |
| `wrap_runtime` | violation | The runtime cutoff does not survive the wrap |
| `boot_stale` | violation | A stale message decides the first ticks after boot |
| `firmware_timers` | pass | Passes of up to 2 units, a connection that comes and goes, the device's own messages coming back: with the wall clock set at boot, later or never: `ContactDwellKept`, `ContactRuntimeBounded` and `EchoNeutral` |
| `firmware_messages` | pass | Service, operator, losses, a wall clock that is set late and a message of an earlier life in the broker: `StaleMessageIgnoredIfAged`, `HeldCommandGoverns`, and that a message lapses even if its age was never known (`MessageLapses`) |
| `late_message` | violation | A message handled in the pass of the tick is ignored by that tick |
| `actual_report` | violation | `fan/actual` of an earlier life stays after a reset |
| `reconnect` | pass | Access point and broker fail and return for ever: back-offs stay in range, the device is on line `RecoveryMax` after both are back (`RecoveryBounded`), and for good if they stay (`ComesBack`, liveness) |
| `mirror` | pass | Firmware and service decide the same from the same readings, reason included, with the rise detector on (`SameDecision`); firmware and simulator do from the same readings and messages (`SimulatorAlike`) |
| `service` | pass | Two devices, resets, restarts, losses and repetitions: `HandledOnce`, `FreshTelemetryUsed`, `FailuresAreDistinct`, `RequestDwellKept`, `RequestBounded` |
| `sim_device` | pass | The two threads interleaved at every access to a shared field, with outages and topics retained from an earlier life: `ObeyedIsFresh`, `ModeInStep`, `SimDwellKept` |
| `scripts` | pass | The check and its demonstration under any one fault: `FailsOnlyAfterFault`, `CleanedUp`, `InstallationLeftAlone`, `DeadServiceNotObeyed`, `EverythingEnds` (liveness); reports: `CountedTimeIsReal`, `FixedTimeIsReal`, `ShowersVentilated` |

Bounds worth knowing. `FailureMax` stands for 255 and equals the limit in
`controller`, so that the saturation is reached. `ClockModulus = 64` means no
wrap within the horizon; `wrap_runtime` has 8. That dwell times and the bound on
starts hold across wraps is proved (section 5), not run. In `mirror` the
device's buffer holds 3 samples and the service's 5, as 16 and 64 in the code;
both cover the window of 2, as the configured windows do at the sampling rate.
In `service` the device that repeats itself has up to two messages
unacknowledged (`Window = 2`) and sends three in each of two lives, the other sends
one: enough for n, n+1 to come again as n, n+1. Only the immediate repetition is
recognised, and both are acted upon twice. `HandledOnce` and `FailuresAreDistinct` say
that this is the only way: a repetition counts only beside another message that the
device may have sent again with it (`Neighbours`: less than `Window` apart in one life
of the device). Nothing in the code bounds how many there are; `Window` is any positive
number in the proofs. With one there are no neighbours, and no message counts twice.

In `sim_device` a horizon of 3 with dwell times of 1 and a stale timeout of 1 leaves
room for an old message to be taken, delayed between its two clocks (`ReadLag = 1`) and
obeyed by a tick of the third unit; the retained topics of an earlier life are a relay
that is on and a mode "automatic".

In `mirror` messages are new or as old as the timeout, so that one that comes before
uptime 2 is older than the device has been up. A minimum off-time of 2 lets a rise be
held back, and the horizon of 6 is enough for a message to govern, lapse and be
replaced between two starts of the fan.

In `reconnect` a unit of time is the initial back-off; the cap of 8 leaves three
doublings where the code has six, a join takes up to 2 units and a connect up to
3, so that several attempts of Wi-Fi cut a join short and several of MQTT follow
each other without a pause. `RecoveryMax = 26` is tight: with 25 TLC finds a
recovery that takes longer. In its trace an attempt of Wi-Fi has just missed the
access point at the full back-off; when Wi-Fi is up at last, the 32-bit age of
MQTT's last attempt, made before the outage, has just wrapped to zero, so that
MQTT waits a full back-off too; and the connect takes as long as it may.

In `scripts` a unit is half a second and the timers are those of `demo.yaml`.
A message takes at most one unit (`MaxDelay`), the service two to connect
(`StartupMax`); these two are assumptions the script makes. `BrokerPatience` is
cut from 20 s to one, `StopPatience` from 5 s to one: nothing happens in them but
waiting. One epoch, an odd one, makes the cut of `issued_at` to the second lose
time. `SomeReports` covers 128 combinations of arguments, showers that overlap and
intervals that do not divide the period included. `Horizon` is beyond the last
step of the script.

`CHECK_DEADLOCK FALSE` is in every configuration whose time, and with it the
behaviour, ends: at the horizon, or with the script. `reconnect` has no end and
is checked for deadlock.

Fairness. `Reconnect` assumes that passes of the loop are made (`loop()` is
called for ever), that a join under way ends (`Associated`) and that time goes
on; that anything comes back, or that a dead session is noticed early, is not
assumed. `FullCheck` assumes `Progress`: the processes run, and the
network delivers within `MaxDelay`. A fault is never assumed, nor that the service obeys
SIGTERM (`ServiceObeys`): the script kills it after its deadline. All other
specifications are safety only; what must happen after a service dies or an
override lapses is stated with a bound on the time (`MessageLapses`,
`OverrideLapses`), which is stronger than the eventuality.

## 4. Where code and documents disagree

Shown by the four violation runs, with the quoted lines in `findings`:

- *Wrap of the clock.* After the wrap, `SaturatingSub(now, relay_on_since_ms_)`
  is 0, and a fan that was on runs on without a cutoff.
- *First minute after boot.* `OnMqttDesired` clamps the issue time at 0, so a
  message older than the uptime is dated at boot and counts as fresh.
- *Message in the tick's future.* `loop()` reads `now` before the callback reads
  `millis()`; the difference wraps and the message is stale for that tick. The
  next pass sees it (`HeldCommandGoverns`).
- *`fan/actual`* is published on a change only, not at boot or on a reconnect.

Met while modelling, and without a run of their own:

- An override whose expiry lies between the last tick before a wrap and the
  wrap is in force again afterwards (`now < override_expires_at_ms_`); the
  theorem `OverridesLapse` therefore assumes that expiry times do not wrap.
- Until NTP answers every message has age 0 and a retained one is obeyed, and what the
  device publishes is stamped near 1970. Such a stamp read after NTP has answered gives
  an age of half a century, cut to 32 bits: the message is stale at once, or, by
  chance, new. The properties about ages speak of messages that were stamped and read
  by clocks that were set (`AgeKnown`, and the premise of `HeldCommandGoverns`);
  `MessageLapses` bounds all others. The clocks of the service and of operators are
  assumed to be set and to agree with the device's, and both writers give `issued_at`
  or `timestamp`; a message without either has age 0 for ever.
- Ages are differences of whole seconds. One sent at 40.00 and handled at 100.99 is 60 s
  old to the code and decides; one sent at 40.99 and handled at 100.00 is 60 s old too
  and goes stale a second early. Hence the second in `StaleMessageIgnoredIfAged` and
  `HeldCommandGoverns`.
- The device's own `local_fallback` message puts it into automatic mode for the
  stale timeout. In the life that sent it, with its age known, it never moves the relay
  (`EchoNeutral`). Without the wall clock it can: a device whose runtime cutoff opened the
  contact while it was off line gets its retained "on" back on reconnecting, with age 0,
  and starts the fan again after the minimum off-time. After a reset it can too: with a
  stale timeout beyond the minimum off-time (60 s and 30 s in `defaults.yaml`) a
  retained "on" of the life before, less than a minute old, starts the fan.
- `mode` is published on entering and leaving fallback only, so not between
  automatic and an override, and a change while offline is never sent.
- The simulator starts with `_last_fallback_active = True` and publishes its mode on a
  change only: an "automatic" retained by an earlier life stays, while the device is in
  fallback, until it has been in automatic mode once (`ModeInStep` names the case).
- The simulator dates a message by two clocks, read one after the other; what passes
  between them makes the message younger, and it is obeyed for that much longer
  (`ReadLag` in `ObeyedIsFresh`).
- `docs/safety.md` (line 100) asks for consecutive valid readings in the rise detector.
  Neither rise detector does: both take the valid readings of a time window, and an
  invalid one between them leaves no trace.
- With several telemetry messages unacknowledged, all but an immediate repetition are
  acted upon twice, so that a failure may count twice (section 3).
- The service's rule starts with `last_change_time = 0.0` on an epoch clock and
  does not wait for the minimum off-time at first; the firmware does. `mirror`
  therefore has its first reading after that time (`FirstReading`); with
  `FirstReading = 0` `SameDecision` fails.
- The service answers its first telemetry message also when that carries no valid
  reading, although `state.py` (lines 8-10) says that it publishes nothing before
  one; `test_mqtt_handler.py` expects the publication.
- A held message that is never replaced counts as fresh again every 2^32 ms, and a
  retained one whose age is a multiple of 2^32 ms counts as new
  (`AgeKnown` asks for younger ones).
- Attempts of MQTT follow each other without a pause while a connect blocks for
  longer than the back-off, for `last_attempt_ms_` is taken before it; and
  `setup` joins the network without noting when, so the first pass after a second
  starts the join anew. Neither keeps the device off line (`RecoveryBounded`).
- `kMqttKeepaliveSeconds` is never handed to the client.
- The demonstration fails without a fault if the service needs 1.5 s or more to
  start, or a message takes a second: with `StartupMax = 3` or `MaxDelay = 2`
  `FailsOnlyAfterFault` fails. Its step 5 cannot fail: the minimum on-time outlasts
  the wait. The early change that `docs/testing.md` asks for in item 7 is never
  forced. The service's output goes to a pipe that nobody reads. If
  `docker run` fails, the temporary configuration file stays.
- `start_automation_service` removes the credentials from the environment, and
  `load_dotenv` puts those of the `.env` file back. With `MQTT_USE_TLS=true` in
  either, the demonstration fails (`FailsOnlyAfterFault` says so); host, port,
  device and timers are safe (`InstallationLeftAlone`).
- A fixed timer's runtime counts showers that overlap twice (`FixedTimeIsReal`);
  half days are rounded to the even number, so a report of an hour has no
  shower; an interval of zero or less is not refused. In the full check a
  skipped step counts as success.
- A device reset exactly when its counter is back at the last number seen has
  its message ignored: `FreshTelemetryUsed` says that this is the only case.

## 5. What is proved

Every theorem holds for all values of the constants that satisfy the named
assumptions of the modules (widths, signs and types; nothing orders the
thresholds or the dwell times) and the further hypothesis in its row. `Horizon`
bounds the uptime, so `Horizon < ClockModulus` says: as long as the clock has not
wrapped. The lemmas carry the numbers; the theorems combine them.

| Theorem | States | Further hypothesis |
|---|---|---|
| **`ControllerProofs`** | | |
| `TypesHold` | `TypeOK` | none |
| `DwellTimesHold` | `DwellKept` | none: any number of wraps |
| `StartsAreBounded` | `StartsBounded` | none: any number of wraps |
| `RuntimeIsBounded` | `RuntimeBounded` | `Horizon < ClockModulus` |
| `RelayIsImplemented` | `ImplementsRelay` | `Horizon < ClockModulus` |
| `OverridesLapse` | `OverrideLapses` | `Horizon + OverrideMax < ClockModulus` |
| `StaleMessagesAreIgnored` | `StaleCommandIgnoredAfterBoot` | `Horizon + OverrideMax < ClockModulus` |
| `FailedSensorFailsSafe` | `FailSafeOff` | `Horizon < ClockModulus` |
| `HysteresisIsKept` | `HysteresisHolds` | `Horizon < ClockModulus` |
| `OnlyTimersOverruleHolds` | `OnlyTimersOverrule` | `Horizon < ClockModulus` |
| **`FirmwareProofs`** | | |
| `FirmwareTypesHold` | `FirmwareTypeOK` | none |
| `ContactKeepsDwell` | `ContactDwellKept` | none: any number of wraps |
| `ContactRunIsBounded` | `ContactRuntimeBounded` | `Horizon < ClockModulus` |
| `MessagesLapse` | `MessageLapses` | `Horizon < ClockModulus` |
| `FreshMessageGoverns` | `HeldCommandGoverns` | `Horizon < ClockModulus` |
| `StaleMessagesIgnoredIfAged` | `StaleMessageIgnoredIfAged` | `Horizon < ClockModulus` |
| `EchoesAreNeutral` | `EchoNeutral` | `Horizon < ClockModulus`, `StaleTimeout + 2 * LoopLag + Second <= ShortestRun + MinFanOff` |
| **`ReconnectProofs`** | | |
| `ReconnectTypesHold` | `ReconnectTypeOK` | none |
| `RecoveryIsBounded` | `RecoveryBounded` | `LapIsLong`, `RecoveryMax > RecoveryTime` |
| **`AutomationServiceProofs`** | | |
| `ServiceTypesHold` | `ServiceTypeOK` | none |
| `EachHandledOnce` | `HandledOnce` | none: any number of unacknowledged messages |
| `IgnoredOnlyAfterReset` | `FreshTelemetryUsed` | none |
| `FailuresAreOfDifferentMessages` | `FailuresAreDistinct` | none, likewise |
| `RequestsKeepDwell` | `RequestDwellKept` | none |
| `RequestsAreBounded` | `RequestBounded` | none |
| **`SimDeviceProofs`** | | |
| `SimTypesHold` | `SimTypeOK` | none |
| `ObeyedStaysFresh` | `ObeyedIsFresh` | none |
| `RetainedModeInStep` | `ModeInStep` | none |
| `SimKeepsDwell` | `SimDwellKept` | none |
| **`MirrorProofs`** | | |
| `SimulatorDecidesAlike` | `SimulatorAlike` | `Horizon < ClockModulus` |
| `RuleDecidesAlike` | `SameDecision` | `Horizon < ClockModulus`, `RiseEnabled => WindowCovered`, `MinFanOff <= FirstReading` |
| **`DemoProofs`** | | |
| `NothingLeftRunning` | `CleanedUp` | none |
| `DeadServiceIsNotObeyed` | `DeadServiceNotObeyed` | none |
| `InstallationIsLeftAlone` | `InstallationLeftAlone` | none |
| `OnlyFaultsFailTheDemo` | `FailsOnlyAfterFault` | `DemoTimings` |
| **`EnergyReportProofs`** | | |
| `ReportCountsRealTime` | `CountedTimeIsReal` | none |
| `EveryShowerVentilated` | `ShowersVentilated` | `PlateauIsHumid` |
| `FixedTimeCountsOverlapsTwice` | `FixedTimeIsReal` | none |

The hypotheses. `wrap_runtime` shows that `Horizon < ClockModulus` is needed.
The inequality of `EchoesAreNeutral` holds of `defaults.yaml` with a lag of up to 44 s
(60 + 2 lag + 1 <= 120 + 30); it is tight in the run: with `StaleTimeout = 2` there, TLC
finds `EchoNeutral` violated. `WindowCovered`: a window of the rise
detector holds no more samples, which are at least a unit of time apart, than either
buffer has room for; it matters only if the detector is on, which it is in neither
configuration file. With `defaults.yaml`, 60 s at a sample every 5 s, these are 13 at
most, and the device has room for 16. With the sample every second of `demo.yaml` they
are 61: the service's 64 hold them, but the device would take its slope over the last
16 only, and the two could see different rises. `MinFanOff <= FirstReading` is the
difference at boot of section 4. `PlateauIsHumid` says that the
readings of a shower's plateau, noise included, are valid and at or above the
upper threshold, and that the failure limit is positive; otherwise there is
nothing to ventilate. `DemoTimings` is what the script silently relies on: the broker
keeps nothing from an earlier run; the readings it sends lie on the right sides of the
thresholds; the service starts within the pause that follows (`StartupMax <
ServicePause`), a message arrives within a sample (`MaxDelay < SampleInterval`), and the
pauses, the waits, the minimum off-time, the stale timeout and the cutoff stand in eight
inequalities to each other. `MCFullCheck` assumes it, so that TLC evaluates it with the
values of `demo.yaml`; section 4 says what happens with `StartupMax = 3` or
`MaxDelay = 2`, for which it is false.

`LapIsLong` says that the longest back-off, two passes and a connect are shorter than
a wrap of the clock. `RecoveryTime` is an expression in the constants:

    (BackoffMax + ConnectMax + 4 LoopLag + AssociationMax)   Wi-Fi's last attempt
      + AssociationMax ((AssociationMax - BackoffInitial) div BackoffInitial + 1)
                                                             joins cut short before it
      + NoticeMax + 2 LoopLag                              the old session noticed
      + max(BackoffMax, ConnectMax) + 4 LoopLag + ConnectMax   MQTT's last attempt

(the second line only if a join can outlast the first back-off). With the device's
back-offs of 1 s to 60 s, a join of 5 s, a connect of 15 s, 20 s until a dead session
is noticed and passes of 1 s it is 210 s. It is not tight: for the constants of
the run `reconnect` it is 40, where TLC finds 26 to be enough, for not all that
it adds up can happen in one recovery. The theorem says that there is a bound, however far
both back-offs had grown and wherever both clocks stand; the run says how good
one is.

*The controller.* `TimersInv` ties each stored stamp to the real time it stands for
(`lastRelayChange` is `Millis(switchedAt)`, and equals `relayOnSince` while the
relay is on). The lemma `ElapsedNeverLate` says that the saturating difference
of two clock readings is never more than the real time between them, wraps or
not; a dwell the code considers over is then really over, which is
`DwellTimesHold`. `StartsInv` pays for every start with a whole cycle up to the
last change and follows from it. The cutoff needs the converse, that the
difference is not less than the real time, which holds only below the wrap
(`ElapsedExact`); `RuntimeInv` says that at the last tick the run was below the
limit. It is needed because `RuntimeBounded` alone says nothing about how far
the next tick may be. `MessagesInv` bounds the expiry by what the operator sent
and gives the issue time up to the clamp at 0. `RelayIsImplemented` maps `on`,
`since`, `time` to `relayOn`, `switchedAt`, `uptime` and shows each step to be
`TurnOn`, `TurnOff`, `Pass` or a stutter. What single decisions do follows from
`DecisionInv`, which adds that the failures really missed are the code's counter up
to the limit although that counter goes on to 255.

*The main loop.* Its proofs use the lemmas about `Tick` and the callbacks, which are
stated for whatever time a caller passes. `LoopInv` says that the contact
follows `relay_on_`, that a pass is never older than `LoopLag`, and that a tick due
has its sample. `ContactInv` gives the stamp the loop stores up to the lag, and
`RunInv` says that at the last sample the run was below the limit, and how far the
last sample may lie behind at each point of a pass; the properties are not inductive
by themselves, because a pass may have read the time and not yet have ticked. `HeldInv` ties the stored issue
time to the message the history knows and to its age in the code's arithmetic. What
that age says of real time is a matter of two roundings (`SecondsBetween`,
`AgeUpToSecond`): with both clocks set and room in 32 bits it is off by less than a
second (`AgedStamp`, `FreshStamp`); with the wall clock not set it is 0. `EchoInv` says when each of the device's own messages of this life was
sent: up to the lag after the last change of the relay, and a whole dwell earlier if the
relay has changed since.

*The reconnection.* `Remaining` is the time a recovery still takes at most, as a
function of the state: the time until each link is attempted (`Wait`, which allows for a
clock that comes round and hides that an attempt is due), the attempt itself, and for each
back-off still shorter than a join the join it may cut short (`Cuts`). `LinkInv` ties what it reads
together: a blocked loop to the age of MQTT's attempt, a join to the age of
Wi-Fi's. Once both links answer no step of a pass makes `Remaining` longer
(`PassNotLonger`; an attempt that cuts a join short pays for the next with the
doubling of its back-off, `CutPaid`), every unit of time makes it shorter
(`TimeShortens`), and it is never more than `RecoveryTime` (`RemainingBounded`). So
`stableFor + Remaining` never exceeds `RecoveryTime` (`BoundInv`), the invariant that
`RecoveryBounded`, which says nothing before the bound is reached, needs.

*The service.* `HandledOnce` is about numbers that repeat after a reset and messages
that repeat after a loss. `KnownInv` says that no number of one life of a device is
given twice, `SendersInv` that what may be sent again is the end of what was sent,
and `OrderInv` that the inbox continues what has been handled in order;
`LastInv` makes `lastSeq` the number of the last message handled. The order is one up to
the window (`NotAfter`): a message at the head of the inbox may be older than one
handled, but by less than `Window`, so that one acted upon again stands beside a
neighbour already handled (`RepeatedBeside`).
`FailuresInv` counts the failures of a rule as the cardinality of a set of
messages handled, unless two of them are neighbours. `RequestInv` ties the history of requests to the rule's timers.

*The simulated device.* The order of messages is the invariant: the value in use is
not younger than the one being written, that one not younger than those on their
way, and none younger than the one retained (`OrderInv`). `IssuedInv` says that the issue
time the device computes is later than the time the message was sent by `ReadLag` at
most (`DatedLate`). `FreshInv` then says that a
tick interrupted between reading the issue time and reading the value obeys a
value at least as young as the one it found fresh. `ModeInv` survives outages because
the mode remembered is changed only where the mode is published.

*The three copies.* `SimInv` says that the simulator's controller is a function of the
firmware's state (`Simulated`), for as long as nothing has happened that it does not
know; `RuledInv` says the same of the service's rule (`Ruled`), on its own clock, but
for the time of the last change, which the rule takes to be the epoch until the
first. Both are inductive only together with `CommonInv`: no time that is kept lies in
the future, so that neither a saturating nor a wrapping difference is cut. The
buffers are related by `Aligned`: each holds as many of the same samples as it has
room for, in opposite order and a unit of time apart. `FarBack` then says that what
one of them has room for and the other has not is out of the window, `SameWindow`
that the device's walk from the newest sample ends where the rule's selection
begins, and `RiseAgrees` that they see the same rise.

*The demonstration.* `LeftInv` says for each of the four steps of the clean-up that
what it stops is stopped once the script is past it; `TickInv` that the script does
not move while a tick lasts. `NothingLeftRunning` follows, since every way out of the
`try` leads to the first of the four. `WordInv` bounds every message, wherever it is,
and the device's issue time by the last moment at which the service lived
(`LastWord`); a tick that found a message fresh is then at most a stale timeout
after it. For `InstallationLeftAlone` no invariant is needed but the environment is
opened up: the theorem is about which of three sources wins.

That no wait is too short is one invariant, `ScriptInv` (`DemoScript`), with a part for
each thing that a step of the script relies on. `QueueInv` bounds where the last reading
and its answer are by the time since the reading was sent (`Sent`, which the invariant
reads off the script's own deadlines). `RiseInv`, `HoldInv`, `FallInv`, `CutoffInv` and
`RecoveryInv` follow one reading each, from the moment it is sent, over the service's
decision and the device's, to the check that looks for its effect; `FreshInv` says that
the device knows a fresh message for as long as the script asks for its mode, and
`StoppedInv` that after the service has been stopped it knows none. The hard part is the
cutoff (`CutoffAnswer`): the device may come on by the service's word or, once its last
message is stale, by its own, and in both cases no message that takes it off again may
become fresh before the cutoff does. `Succeeding` is then inductive: as long as nothing
has failed, the demonstration has not, and `ScriptInv` holds while the script lasts. The
proof has one lemma for each action of the processes, one for each operation of the
script, and one for time.

*The report.* `ReportInv` says that samples lie on the grid of the interval, so that
the samples of overlaid showers are no more than those of one grid (`TimesAreGrid`,
which rests on the rounding in `Start`), and that what has been counted is real as
long as another sample follows. `FanInv` says that a fan that is off changed one
interval after it last ran: a shower that starts while it is off finds the minimum
off-time over when its plateau has lasted that long (`ShowerVentilated`), and one
that starts while it runs is ventilated at once.

The runtime of the fixed timer is a sum over the showers, a recursive function as the
code's loop is. `CountedSeconds(n)` is the set of the seconds of the first n runs, each
with its shower; its cardinality satisfies the equation of the sum (`NextRunCounted`),
and by the least-number principle (`LeastNatural`, from the library's theorem that `<`
is well-founded on the natural numbers) only one function does (`FixedTimeCounts`):
induction without a theorem that takes an operator as a parameter. Forgetting
the shower maps the counted seconds onto those in which the fan runs, one to one
exactly if no two runs overlap (`SecondsCounted`). That two runs with
starts less than a run apart have a second in common needs the order of the starts,
which rests on rounding being monotone (`RoundedOrder`, `StartsInOrder`).

Model-checked only:

- Liveness (`ComesBack`, `EverythingEnds`), which is outside what the prover handles,
  as is `ENABLED`.

## 6. What is not modelled

JSON, payload sizes and field validation (a rejected payload changes no state);
QoS of the device's own publications; the last will and `device/status`; paho's
reconnect back-off in the service (external code, given two numbers); sensor and
GPIO drivers; calendar arithmetic of `time_utils.h` and the 32-bit conversion of
`duration_seconds` (a duration of any value stands for its result); malformed configuration files (the process ends);
kilowatt hours, cost and printing of the energy report; the password script, the
broker's configuration and the CI workflow.

## 7. Plan

1. `System`: `Firmware` with the real service in place of `ServicePublish`, two
   devices on one topic.
2. `TimeUtils`: the calendar arithmetic against a reference definition, and the
   32-bit conversion of durations.
