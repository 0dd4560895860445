---------------------------- MODULE EnergyReport ----------------------------
(***************************************************************************)
(* The energy comparison of energy/energy_report.py: a period with evenly  *)
(* spaced showers, and the time a fan runs in it continuously, for a fixed *)
(* time after each shower's start, and under the simulator's controller.   *)
(* One action is one round of the loop over the samples.  Times are whole  *)
(* units; energy is counted in units of time at the fan's power.           *)
(***************************************************************************)
EXTENDS DeviceController, HumidityProfiles

CONSTANT DayLength   \* day_seconds

\* What the parameters may be; a module that uses this one assumes it.
ReportParameters == ProfileParameters /\ DayLength \in Nat \ {0}

VARIABLES
  args,          \* arguments of run_comparison, or those of no report
  showerStarts,  \* shower_start_times
  sampleTime,    \* time of the last sample, Never before the first
  fan,           \* the DeviceController
  onTime,        \* on_seconds
  results,       \* the StrategyResults in the order of the list, once there
  realOnTime,    \* history: how long the fan has really run
  lastOnAt       \* history: the last sample at which it ran

Arguments(total, showers, length, fixedRun, interval) ==
  [total |-> total, showers |-> showers, length |-> length,
   fixedRun |-> fixedRun, interval |-> interval]

NoReport == Arguments(0, 0, 0, 0, 0)

\* round of Python 3: a half goes to the even neighbour.
Rounded(n, d) ==
  LET up == 2 * (n % d) > d \/ (2 * (n % d) = d /\ (n \div d) % 2 = 1)
  IN  n \div d + IF up THEN 1 ELSE 0

Days(a) == LET days == Rounded(a.total, DayLength) IN IF days > 1 THEN days ELSE 1

\* Mutant: starts not snapped to the sample grid.
MutantStart(a, day, i) == day * DayLength + (i * DayLength) \div (a.showers + 1)

\* Start of the i-th shower of a day, snapped to the sample grid.
Start(a, day, i) ==
  a.interval * Rounded((day * (a.showers + 1) + i) * DayLength,
                       (a.showers + 1) * a.interval)

\* The showers are numbered through the period.
StartOf(a, k) == Start(a, (k - 1) \div a.showers, ((k - 1) % a.showers) + 1)

\* Only those that start within the period count.
ShowerStarts(a) ==
  LET counted == {k \in 1 .. Days(a) * a.showers : StartOf(a, k) < a.total}
  IN  [k \in counted |-> StartOf(a, k)]

ReportInit(a) ==
  /\ args = a
  /\ showerStarts = IF a = NoReport THEN <<>> ELSE ShowerStarts(a)
  /\ sampleTime = Never
  /\ fan = NewController
  /\ onTime = 0
  /\ results = <<>>
  /\ realOnTime = 0
  /\ lastOnAt = Never

\* run_comparison begins in a process of its own.
StartReport(a) ==
  /\ args' = a
  /\ showerStarts' = ShowerStarts(a)
  /\ sampleTime' = Never
  /\ fan' = NewController
  /\ onTime' = 0
  /\ results' = <<>>
  /\ realOnTime' = 0
  /\ lastOnAt' = Never

Running  == args # NoReport /\ results = <<>>
Reported == args # NoReport /\ results # <<>>

-----------------------------------------------------------------------------
(* humidity_controlled_runtime_seconds *)

Times == SampleTimes(args.total, args.interval, showerStarts, args.length)
Remaining == {t \in Times : t > sampleTime}

NextSampleTime(t) == Min({args.total} \cup {u \in Times : u > t})

\* Nothing arrives over MQTT: every tick falls back on the sample.
TakeSample ==
  /\ Running
  /\ Remaining # {}
  /\ sampleTime' = Min(Remaining)
  /\ \E humidity \in Humidities(sampleTime', args.interval, showerStarts, args.length) :
       fan' = Ticked(OnSensorReading(fan, [valid |-> TRUE, humidity |-> humidity]),
                     FALSE, sampleTime')
  /\ onTime' = onTime + IF fan'.relayOn THEN args.interval ELSE 0
  /\ realOnTime' = realOnTime +
       IF fan'.relayOn THEN NextSampleTime(sampleTime') - sampleTime' ELSE 0
  /\ lastOnAt' = IF fan'.relayOn THEN sampleTime' ELSE lastOnAt
  /\ UNCHANGED <<args, showerStarts, results>>

-----------------------------------------------------------------------------
(* The results *)

Less(m, n) == IF m < n THEN m ELSE n

\* Mutant: a run that goes on beyond the end of the period.
MutantFixedRun(i) == args.fixedRun

\* A start is before the end of the period.
FixedRun(i) == Less(args.fixedRun, args.total - showerStarts[i])

\* fixed_time_runtime_seconds: the runs are added up in the order of the showers.
FixedTime ==
  LET upTo[i \in Nat] ==
        IF i = 0 THEN 0
        ELSE upTo[i - 1] + IF i \in DOMAIN showerStarts THEN FixedRun(i) ELSE 0
  IN  upTo[Days(args) * args.showers]

\* make_result; the percentage is rounded down.
MakeResult(runtime) ==
  [runtime |-> runtime, saved |-> args.total - runtime,
   percent |-> IF args.total > 0 THEN (100 * runtime) \div args.total ELSE 0]

FinishReport ==
  /\ Running
  /\ Remaining = {}
  /\ results' = <<MakeResult(args.total), MakeResult(FixedTime), MakeResult(onTime)>>
  /\ UNCHANGED <<args, showerStarts, sampleTime, fan, onTime, realOnTime, lastOnAt>>

ReportNext == TakeSample \/ FinishReport

-----------------------------------------------------------------------------
(* Properties *)

\* The runtime counted in whole intervals is the time the fan runs, to within
\* the interval after the last sample (energy_report.py, on_seconds; the docstring
\* of generate_multi_shower_profile asks for starts on the grid).
CountedTimeIsReal ==
  /\ realOnTime <= onTime
  /\ onTime - realOnTime <= args.interval

\* The seconds in which a fan that runs fixedRun after each start would run.
FixedRunSeconds ==
  {t \in 0 .. args.total - 1 :
     \E i \in DOMAIN showerStarts : t - showerStarts[i] \in 0 .. args.fixedRun - 1}

Overlapping ==
  \E i, j \in DOMAIN showerStarts :
     i < j /\ showerStarts[j] - showerStarts[i] < args.fixedRun

\* The sum is the time a fan on such a timer runs, unless two of the runs
\* overlap: then the sum counts the common part twice (fixed_time_runtime_seconds).
FixedTimeIsReal ==
  results # <<>> =>
    IF Overlapping THEN results[2].runtime > Cardinality(FixedRunSeconds)
                   ELSE results[2].runtime = Cardinality(FixedRunSeconds)

\* The samples of shower i reach over its plateau, no later shower overwrites
\* them, and the plateau outlasts a minimum off-time.
Undisturbed(i) ==
  /\ args.length >= PlateauEnd
  /\ Plateau >= MinFanOff + args.interval
  /\ \A j \in DOMAIN showerStarts :
       j > i => showerStarts[j] - showerStarts[i] >= PlateauEnd

\* The fan runs in every such shower before its plateau is over: whatever the
\* cutoffs and holds of earlier showers, the comparison ventilates them all.
ShowersVentilated ==
  \A i \in DOMAIN showerStarts :
    Undisturbed(i) /\ sampleTime >= showerStarts[i] + PlateauEnd =>
      lastOnAt >= showerStarts[i]

=============================================================================
