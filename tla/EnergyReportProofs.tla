------------------------- MODULE EnergyReportProofs -------------------------
(***************************************************************************)
(* What holds of an energy report, run by hand or by the script, for every *)
(* profile, every interval between samples and every reading.              *)
(***************************************************************************)
EXTENDS FullCheck, TLAPS, FiniteSetTheorems, WellFoundedInduction

-----------------------------------------------------------------------------
(* The inductive invariants *)

\* Arguments with which a report is run.
ReportArguments ==
  [total : Nat, showers : Nat, length : Nat, fixedRun : Nat, interval : Nat \ {0}]

\* A record with these fields, whatever they hold.
Record(r, fields) == r = [field \in fields |-> r[field]]

\* The multiples of the interval.
Multiple(t, n) == \E k \in Int : t = n * k

\* The times at which a report with these arguments can take a sample.
SampleGrid(a) == {t \in 0 .. a.total : Multiple(t, a.interval)}

\* There is a sample after this one.
Continues == sampleTime = Never \/ sampleTime + args.interval <= args.total

\* Samples are taken on the grid, and each but the last counts for what it is.
ReportInv ==
  /\ args \in {E!NoReport, DemoReport} \cup Reports
  /\ args = E!NoReport =>
       showerStarts = <<>> /\ results = <<>> /\ onTime = 0 /\ realOnTime = 0
  /\ args # E!NoReport =>
       /\ showerStarts = E!ShowerStarts(args)
       /\ sampleTime \in {Never} \cup SampleGrid(args)
       /\ Continues => onTime = realOnTime
  /\ onTime \in Nat /\ realOnTime \in Nat
  /\ realOnTime <= onTime
  /\ onTime - realOnTime <= args.interval

\* The fan has been off since the sample after the last one at which it ran, and it
\* ran in every undisturbed shower that has been humid for a minimum off-time.
FanInv ==
  args # E!NoReport =>
    /\ Record(fan, DOMAIN NewController)
    /\ fan.relayOn \in BOOLEAN
    /\ lastOnAt \in {Never} \cup SampleGrid(args)
    /\ IF fan.relayOn THEN lastOnAt = sampleTime /\ sampleTime # Never
       ELSE fan.lastChangeTime = IF lastOnAt = Never THEN 0 ELSE lastOnAt + args.interval
    /\ \A i \in DOMAIN showerStarts :
         /\ E!Undisturbed(i)
         /\ sampleTime >= showerStarts[i] + E!PlateauStart + ReportMinFanOff
         => lastOnAt >= showerStarts[i]

-----------------------------------------------------------------------------
(* The grid of a report's samples *)

\* The multiples are the numbers that the interval divides.
LEMMA MultipleMod ==
  ASSUME NEW n \in Nat \ {0}, NEW t \in Int
  PROVE  Multiple(t, n) <=> t % n = 0
<1>1. ASSUME t % n = 0 PROVE Multiple(t, n)
  <2>1. t = n * (t \div n) + (t % n) /\ t \div n \in Int OBVIOUS
  <2>2. QED BY <1>1, <2>1 DEF Multiple
<1>2. ASSUME Multiple(t, n) PROVE t % n = 0
  <2>1. PICK k \in Int : t = n * k BY <1>2 DEF Multiple
  <2>2. QED BY <2>1
<1>3. QED BY <1>1, <1>2

\* So are their sums and differences.
LEMMA MultipleSum ==
  ASSUME NEW n \in Nat \ {0}, NEW s \in Int, NEW t \in Int, Multiple(s, n), Multiple(t, n)
  PROVE  Multiple(s + t, n) /\ Multiple(s - t, n)
<1>1. PICK j \in Int : s = n * j BY DEF Multiple
<1>2. PICK k \in Int : t = n * k BY DEF Multiple
<1>3. s + t = n * (j + k) /\ s - t = n * (j - k) /\ j + k \in Int /\ j - k \in Int
  BY <1>1, <1>2
<1>4. QED BY <1>3 DEF Multiple

\* So is the divisor itself.
LEMMA MultipleSelf ==
  ASSUME NEW n \in Int
  PROVE  Multiple(n, n)
<1>1. n = n * 1 OBVIOUS
<1>2. QED BY <1>1 DEF Multiple

\* Two multiples are the same or an interval apart.
LEMMA MultipleGap ==
  ASSUME NEW n \in Nat \ {0}, NEW s \in Int, NEW t \in Int, Multiple(s, n), Multiple(t, n),
         s < t
  PROVE  s + n <= t
<1>1. PICK j \in Int : s = n * j BY DEF Multiple
<1>2. PICK k \in Int : t = n * k BY DEF Multiple
<1>3. j < k BY <1>1, <1>2
<1>4. n * (j + 1) <= n * k BY <1>3
<1>5. QED BY <1>1, <1>2, <1>4

\* Rounding gives a whole number, and none below zero.
LEMMA RoundedType ==
  ASSUME NEW n \in Nat, NEW d \in Nat \ {0}
  PROVE  E!Rounded(n, d) \in Nat
<1>1. n \div d \in Nat BY SMT
<1>2. QED BY <1>1 DEF E!Rounded

\* The type of a product.
LEMMA ProductType ==
  ASSUME NEW m \in Nat, NEW n \in Nat
  PROVE  m * n \in Nat /\ (m # 0 /\ n # 0 => m * n # 0)
  OBVIOUS

\* The showers of a report start on the grid and within the period.
LEMMA StartsOnGrid ==
  ASSUME NEW a \in ReportArguments, NEW i \in DOMAIN E!ShowerStarts(a)
  PROVE  /\ i \in Nat
         /\ E!ShowerStarts(a)[i] \in Nat
         /\ Multiple(E!ShowerStarts(a)[i], a.interval)
         /\ E!ShowerStarts(a)[i] < a.total
<1>0. /\ a.total \in Nat /\ a.showers \in Nat /\ a.interval \in Nat \ {0}
      /\ DayLength \in Nat \ {0}
  BY FullCheckAssumption DEF ReportArguments, E!ReportParameters
<1>1. E!Days(a) \in Nat BY <1>0, RoundedType DEF E!Days
<1>2. /\ i \in 1 .. E!Days(a) * a.showers
      /\ E!ShowerStarts(a)[i] = E!StartOf(a, i)
      /\ E!StartOf(a, i) < a.total
  BY DEF E!ShowerStarts
<1>3. E!Days(a) * a.showers \in Nat BY <1>0, <1>1, ProductType
<1>4. i \in Nat /\ i >= 1 BY <1>2, <1>3
<1>5. a.showers # 0
  <2>1. a.showers = 0 => E!Days(a) * a.showers = 0 BY <1>1
  <2>2. QED BY <1>2, <1>4, <2>1
<1> DEFINE day == (i - 1) \div a.showers
           nth == ((i - 1) % a.showers) + 1
           n   == (day * (a.showers + 1) + nth) * DayLength
           d   == (a.showers + 1) * a.interval
<1>6. day \in Nat /\ nth \in Nat
  <2>1. i - 1 \in Nat BY <1>4
  <2>2. a.showers \in Nat \ {0} BY <1>0, <1>5
  <2>3. QED BY <2>1, <2>2
<1>7. n \in Nat
  <2> HIDE DEF day, nth
  <2>1. a.showers + 1 \in Nat BY <1>0
  <2>2. day * (a.showers + 1) \in Nat BY <1>6, <2>1, ProductType
  <2>3. day * (a.showers + 1) + nth \in Nat BY <1>6, <2>2
  <2>4. QED BY <1>0, <2>3, ProductType
<1>8. d \in Nat \ {0}
  <2>1. a.showers + 1 \in Nat /\ a.showers + 1 # 0 BY <1>0
  <2>2. QED BY <1>0, <2>1, ProductType
<1>9. E!StartOf(a, i) = a.interval * E!Rounded(n, d) BY DEF E!StartOf, E!Start
<1> HIDE DEF n, d
<1>10. E!Rounded(n, d) \in Nat BY <1>7, <1>8, RoundedType
<1>11. a.interval * E!Rounded(n, d) \in Nat BY <1>0, <1>10, ProductType
<1>12. Multiple(a.interval * E!Rounded(n, d), a.interval) BY <1>10 DEF Multiple
<1>13. QED BY <1>2, <1>4, <1>9, <1>11, <1>12

\* Because they do, there are no samples but those of the grid.
LEMMA TimesAreGrid ==
  ASSUME NEW a \in ReportArguments
  PROVE  E!SampleTimes(a.total, a.interval, E!ShowerStarts(a), a.length) =
           SampleGrid(a)
<1>0. a.total \in Nat /\ a.length \in Nat /\ a.interval \in Nat \ {0}
  BY DEF ReportArguments
<1> DEFINE starts == E!ShowerStarts(a)
<1>1. ASSUME NEW t \in 0 .. a.total
      PROVE  t \in E!Grid(a.total, a.interval) <=> Multiple(t, a.interval)
  BY <1>0, <1>1, MultipleMod DEF E!Grid
<1>2. ASSUME NEW t \in 0 .. a.total, NEW i \in DOMAIN starts,
             t - starts[i] \in E!Grid(a.length, a.interval)
      PROVE  Multiple(t, a.interval)
  <2>1. starts[i] \in Int /\ Multiple(starts[i], a.interval) BY StartsOnGrid
  <2> HIDE DEF starts
  <2>2. t \in Int /\ t - starts[i] \in Int /\ (t - starts[i]) % a.interval = 0
    BY <1>0, <1>2, <2>1 DEF E!Grid
  <2>3. Multiple(t - starts[i], a.interval) BY <1>0, <2>2, MultipleMod
  <2>4. Multiple(starts[i] + (t - starts[i]), a.interval)
    BY <1>0, <2>1, <2>2, <2>3, MultipleSum
  <2>5. starts[i] + (t - starts[i]) = t BY <2>1, <2>2
  <2>6. QED BY <2>4, <2>5
<1>3. E!Grid(a.total, a.interval) \subseteq 0 .. a.total BY DEF E!Grid
<1> HIDE DEF starts
<1>4. E!SampleTimes(a.total, a.interval, starts, a.length) =
        {t \in 0 .. a.total : Multiple(t, a.interval)}
  BY <1>1, <1>2, <1>3 DEF E!SampleTimes
<1>5. QED BY <1>4 DEF starts, SampleGrid

\* The least of a set of numbers.
LEMMA LeastOf ==
  ASSUME NEW S, S \subseteq Int, NEW least \in S, \A m \in S : least <= m
  PROVE  E!Min(S) = least
<1>1. \A m \in S : (\A k \in S : m <= k) => m = least OBVIOUS
<1>2. QED BY <1>1 DEF E!Min

\* The arguments of a report that is run are those of one.
LEMMA ArgumentsOfReport ==
  /\ {DemoReport} \cup Reports \subseteq ReportArguments
  /\ E!NoReport \notin ReportArguments
<1>1. E!NoReport.interval = 0 BY DEF E!NoReport, E!Arguments
<1>2. QED BY <1>1, FullCheckAssumption DEF ReportArguments

\* The samples after one of them.
LEMMA NextOfGrid ==
  ASSUME NEW a \in ReportArguments, NEW s \in SampleGrid(a)
  PROVE  LET later == {t \in SampleGrid(a) : t > s}
         IN  IF s + a.interval <= a.total
               THEN E!Min(later) = s + a.interval /\ later # {}
                    /\ E!Min({a.total} \cup later) = s + a.interval
                    /\ s + a.interval \in SampleGrid(a)
               ELSE later = {} /\ E!Min({a.total} \cup later) = a.total
<1> DEFINE later == {t \in SampleGrid(a) : t > s}
<1>0. /\ a.total \in Nat /\ a.interval \in Nat \ {0}
      /\ s \in 0 .. a.total /\ s \in Int /\ Multiple(s, a.interval)
  BY DEF ReportArguments, SampleGrid
<1>1. later \subseteq Int BY <1>0 DEF SampleGrid
<1>2. \A t \in later : t \in Int /\ s + a.interval <= t /\ t <= a.total
  <2> TAKE t \in later
  <2>1. t \in 0 .. a.total /\ t > s /\ Multiple(t, a.interval) BY DEF SampleGrid
  <2>2. t \in Int BY <1>0, <2>1
  <2>3. s + a.interval <= t BY <1>0, <2>1, <2>2, MultipleGap
  <2>4. QED BY <1>0, <2>1, <2>2, <2>3
<1>3. a.interval \in Int /\ a.total \in Int BY <1>0
<1> HIDE DEF later
<1>4. CASE s + a.interval <= a.total
  <2>1. s + a.interval \in SampleGrid(a)
    <3>1. Multiple(s + a.interval, a.interval) BY <1>0, <1>3, MultipleSelf, MultipleSum
    <3>2. s + a.interval \in 0 .. a.total BY <1>0, <1>4
    <3>3. QED BY <3>1, <3>2 DEF SampleGrid
  <2>2. s + a.interval \in later BY <1>0, <2>1 DEF later
  <2>3. E!Min(later) = s + a.interval BY <1>1, <1>2, <2>2, LeastOf
  <2>4. E!Min({a.total} \cup later) = s + a.interval
    <3>1. {a.total} \cup later \subseteq Int BY <1>1, <1>3
    <3>2. s + a.interval \in {a.total} \cup later BY <2>2
    <3>3. \A m \in {a.total} \cup later : s + a.interval <= m BY <1>2, <1>4
    <3>4. QED BY <3>1, <3>2, <3>3, LeastOf
  <2>5. QED BY <1>4, <2>1, <2>2, <2>3, <2>4 DEF later
<1>5. CASE ~(s + a.interval <= a.total)
  <2>1. later = {} BY <1>2, <1>5, <1>0, <1>3
  <2>2. E!Min({a.total} \cup later) = a.total
    <3>1. {a.total} \cup later = {a.total} BY <2>1
    <3>2. E!Min({a.total}) = a.total BY <1>3, LeastOf
    <3>3. QED BY <3>1, <3>2
  <2>3. QED BY <1>5, <2>1, <2>2 DEF later
<1>6. QED BY <1>4, <1>5 DEF later

-----------------------------------------------------------------------------
(* The samples of a report *)

\* A sample is taken one interval after the last, and stands for the time up to the
\* next one or to the end of the period.
LEMMA SampleTaken ==
  ASSUME ReportInv, E!TakeSample
  PROVE  /\ args \in ReportArguments /\ showerStarts = E!ShowerStarts(args)
         /\ Continues
         /\ sampleTime' = IF sampleTime = Never THEN 0 ELSE sampleTime + args.interval
         /\ sampleTime' \in SampleGrid(args)
         /\ E!NextSampleTime(sampleTime') =
              IF sampleTime' + args.interval <= args.total
                THEN sampleTime' + args.interval ELSE args.total
<1> DEFINE Times == SampleGrid(args)
<1>1. args # E!NoReport /\ E!Remaining # {} /\ sampleTime' = E!Min(E!Remaining)
  BY DEF E!TakeSample, E!Running
<1>2. /\ args \in ReportArguments /\ showerStarts = E!ShowerStarts(args)
      /\ sampleTime \in {Never} \cup Times
  BY <1>1, ArgumentsOfReport DEF ReportInv
<1>3. /\ args.total \in Nat /\ args.interval \in Nat \ {0}
  BY <1>2 DEF ReportArguments
<1>4. E!Times = Times BY <1>2, TimesAreGrid DEF E!Times
<1>5. E!Remaining = {t \in Times : t > sampleTime} BY <1>4 DEF E!Remaining
<1>6. \A t : E!NextSampleTime(t) = E!Min({args.total} \cup {u \in Times : u > t})
  BY <1>4 DEF E!NextSampleTime
<1>7. /\ Continues /\ sampleTime' \in Times
      /\ sampleTime' = IF sampleTime = Never THEN 0 ELSE sampleTime + args.interval
  <2>1. CASE sampleTime = Never
    <3>1. \A t \in Times : t \in Int /\ 0 <= t BY <1>3 DEF SampleGrid
    <3>2. 0 \in Times
      <4>1. 0 = args.interval * 0 BY <1>3
      <4>2. QED BY <1>3, <4>1 DEF SampleGrid, Multiple
    <3> HIDE DEF Times
    <3>3. E!Remaining = Times BY <1>5, <2>1, <3>1 DEF Never
    <3>4. Times \subseteq Int BY <3>1
    <3>5. E!Min(Times) = 0 BY <3>1, <3>2, <3>4, LeastOf
    <3>6. QED BY <1>1, <2>1, <3>2, <3>3, <3>5 DEF Continues
  <2>2. CASE sampleTime # Never
    <3>1. sampleTime \in Times BY <1>2, <2>2
    <3> HIDE DEF Times
    <3>2. /\ IF sampleTime + args.interval <= args.total
               THEN /\ E!Min(E!Remaining) = sampleTime + args.interval
                    /\ sampleTime + args.interval \in Times
               ELSE E!Remaining = {}
      BY <1>2, <1>5, <3>1, NextOfGrid DEF Times
    <3>3. QED BY <1>1, <2>2, <3>2 DEF Continues
  <2>3. QED BY <2>1, <2>2
<1>8. E!NextSampleTime(sampleTime') =
        IF sampleTime' + args.interval <= args.total
          THEN sampleTime' + args.interval ELSE args.total
  BY <1>2, <1>6, <1>7, NextOfGrid
<1>9. QED BY <1>2, <1>7, <1>8

\* A sample counts for an interval; only the last may stand for less.
LEMMA SampleCounted == ReportInv /\ E!TakeSample => ReportInv'
<1> SUFFICES ASSUME ReportInv, E!TakeSample PROVE ReportInv'
  OBVIOUS
<1>1. /\ args \in ReportArguments /\ args # E!NoReport
      /\ args.total \in Nat /\ args.interval \in Nat \ {0}
      /\ UNCHANGED <<args, showerStarts, results>>
  BY SampleTaken, ArgumentsOfReport DEF ReportArguments, E!TakeSample
<1>2. /\ onTime \in Nat /\ realOnTime \in Nat /\ onTime = realOnTime
  BY <1>1, SampleTaken DEF ReportInv
<1> DEFINE now == sampleTime'
           next == E!NextSampleTime(now)
<1>3. now \in 0 .. args.total /\ now \in Int BY <1>1, SampleTaken DEF SampleGrid
<1>4. next = IF now + args.interval <= args.total THEN now + args.interval ELSE args.total
  BY SampleTaken
<1>5. /\ onTime' = onTime + IF fan'.relayOn THEN args.interval ELSE 0
      /\ realOnTime' = realOnTime + IF fan'.relayOn THEN next - now ELSE 0
  BY DEF E!TakeSample
<1>6. /\ Continues' <=> now + args.interval <= args.total
  BY <1>1, <1>3 DEF Continues, Never
<1> HIDE DEF now, next
<1>7. /\ next - now \in 0 .. args.interval
      /\ now + args.interval <= args.total => next - now = args.interval
  BY <1>1, <1>3, <1>4
<1>8. /\ onTime' \in Nat /\ realOnTime' \in Nat /\ realOnTime' <= onTime'
      /\ onTime' - realOnTime' <= args.interval
      /\ now + args.interval <= args.total => onTime' = realOnTime'
  <2>1. CASE fan'.relayOn
    <3>1. onTime' = onTime + args.interval /\ realOnTime' = realOnTime + (next - now)
      BY <1>5, <2>1
    <3>2. QED BY <1>1, <1>2, <1>7, <3>1
  <2>2. CASE ~fan'.relayOn
    <3>1. onTime' = onTime + 0 /\ realOnTime' = realOnTime + 0 BY <1>5, <2>2
    <3>2. QED BY <1>1, <1>2, <3>1
  <2>3. QED BY <2>1, <2>2
<1>9. QED BY <1>1, <1>6, <1>8, SampleTaken DEF ReportInv

\* Every step of the whole keeps what the report has counted.
LEMMA ReportInvHolds == FullSpec => []ReportInv
<1>1. FullInit => ReportInv
  <2> SUFFICES ASSUME FullInit PROVE ReportInv
    OBVIOUS
  <2>1. PICK a \in {E!NoReport} \cup Reports : E!ReportInit(a) BY DEF FullInit
  <2>2. /\ args = a /\ showerStarts = IF a = E!NoReport THEN <<>> ELSE E!ShowerStarts(a)
        /\ sampleTime = Never /\ onTime = 0 /\ results = <<>> /\ realOnTime = 0
    BY <2>1 DEF E!ReportInit, Never, E!Never
  <2>3. 0 - 0 <= a.interval
    <3>1. a.interval \in Nat
      BY <2>1, ArgumentsOfReport DEF ReportArguments, E!NoReport, E!Arguments
    <3>2. QED BY <3>1
  <2>4. QED BY <2>1, <2>2, <2>3 DEF ReportInv
<1>2. ReportInv /\ [FullNext]_fullVars => ReportInv'
  <2> SUFFICES ASSUME ReportInv, [FullNext]_fullVars PROVE ReportInv'
    OBVIOUS
  <2>1. CASE E!TakeSample BY <2>1, SampleCounted
  <2>2. CASE E!FinishReport
    BY <2>2 DEF E!FinishReport, E!Running, ReportInv, Continues
  <2>3. CASE E!StartReport(DemoReport)
    <3>1. /\ args' = DemoReport /\ showerStarts' = E!ShowerStarts(DemoReport)
          /\ sampleTime' = Never /\ onTime' = 0 /\ results' = <<>> /\ realOnTime' = 0
      BY <2>3 DEF E!StartReport, Never, E!Never
    <3>2. DemoReport # E!NoReport /\ DemoReport.interval \in Nat
      BY ArgumentsOfReport DEF ReportArguments
    <3>3. 0 - 0 <= DemoReport.interval BY <3>2
    <3>4. QED BY <3>1, <3>2, <3>3 DEF ReportInv
  <2>4. CASE UNCHANGED reportVars
    BY <2>4 DEF reportVars, ReportInv, Continues
  <2>5. QED
    BY <2>1, <2>2, <2>3, <2>4 DEF FullNext, Progress, Skip, RunTests, RunDemo, DemoEnded,
       Summarise, DemoStep, RunReport, ReportStep, ReportEnded, DemoFault, ServiceObeys,
       E!ReportNext, fullVars
<1>3. QED BY <1>1, <1>2, PTL DEF FullSpec

\* The runtime that a report counts in whole intervals is the time the fan runs, to
\* within the interval after the last sample (energy_report.py, on_seconds).
THEOREM ReportCountsRealTime == FullSpec => []CountedTimeIsReal
<1>1. ReportInv => CountedTimeIsReal
  BY DEF ReportInv, CountedTimeIsReal, E!CountedTimeIsReal
<1>2. QED BY <1>1, ReportInvHolds, PTL

-----------------------------------------------------------------------------
(* The fan of a report *)

\* What a shower's plateau asks of the configuration: its readings are valid, they call
\* for the fan, and one valid reading is enough for a decision.
PlateauIsHumid ==
  /\ FailureLimit > 0
  /\ HumidityMin <= E!Percent(Peak - Noise) /\ E!Percent(Peak + Noise) <= HumidityMax
  /\ FanOnPercent <= E!Percent(Peak - Noise)

\* The types of the constants of a report.
LEMMA ReportConstants ==
  /\ FanOnPercent \in Int /\ FanOffPercent \in Int
  /\ HumidityMin \in Int /\ HumidityMax \in Int
  /\ ReportMinFanOn \in Nat /\ ReportMinFanOff \in Nat /\ FailureLimit \in Nat
  /\ HoldLastState \in BOOLEAN
  /\ Baseline \in Nat /\ Peak \in Nat /\ Noise \in Nat
  /\ RiseStart \in Nat /\ RiseTime \in Nat \ {0} /\ Plateau \in Nat
<1>1. /\ {Baseline, RiseStart, Plateau, Noise} \subseteq Nat
      /\ {RiseTime, DecayTime} \subseteq Nat \ {0} /\ Peak \in Nat
  BY FullCheckAssumption DEF E!ReportParameters, E!ProfileParameters
<1>2. QED BY <1>1, FullCheckAssumption, DeviceAssumption

\* A reading does not touch the relay; a valid one ends a failure.
LEMMA FanReads ==
  ASSUME NEW d, Record(d, DOMAIN NewController), NEW humidity
  PROVE  LET new == E!OnSensorReading(d, [valid |-> TRUE, humidity |-> humidity])
         IN  /\ Record(new, DOMAIN NewController)
             /\ new.relayOn = d.relayOn
             /\ new.lastChangeTime = d.lastChangeTime
             /\ humidity \in HumidityMin .. HumidityMax =>
                  /\ new.failures = 0 /\ new.hasValidReading = TRUE
                  /\ new.lastHumidity = humidity
<1>1. DOMAIN NewController =
        {"relayOn", "lastChangeTime", "relayOnSince", "hasValidReading", "lastHumidity",
         "failures", "mqttReceived", "mqttDesiredOn", "mqttIssuedAt"}
  BY DEF NewController
<1>2. QED BY <1>1 DEF E!OnSensorReading, E!InRange, Record

\* A tick with nothing from MQTT switches the relay or leaves everything, and switches
\* it on when a valid reading asks for that and the minimum off-time is over.
LEMMA FanTicks ==
  ASSUME NEW d, Record(d, DOMAIN NewController), d.relayOn \in BOOLEAN, NEW now
  PROVE  LET new == E!Ticked(d, FALSE, now)
         IN  /\ Record(new, DOMAIN NewController)
             /\ new.relayOn \in BOOLEAN
             /\ new.lastChangeTime = IF new.relayOn = d.relayOn THEN d.lastChangeTime
                                     ELSE now
             /\ /\ FailureLimit > 0 /\ d.failures = 0 /\ d.hasValidReading = TRUE
                /\ d.lastHumidity \in Int /\ d.lastHumidity >= FanOnPercent
                /\ ~d.relayOn /\ ~(now - d.lastChangeTime < ReportMinFanOff)
                => new.relayOn
<1> DEFINE on  == E!Outcome(d, FALSE, now).on
           new == E!Ticked(d, FALSE, now)
<1>1. DOMAIN NewController =
        {"relayOn", "lastChangeTime", "relayOnSince", "hasValidReading", "lastHumidity",
         "failures", "mqttReceived", "mqttDesiredOn", "mqttIssuedAt"}
  BY DEF NewController
<1>2. on \in BOOLEAN
  <2>1. E!Candidate(d, FALSE).on \in BOOLEAN BY ReportConstants DEF E!Candidate
  <2>2. QED BY <2>1 DEF E!Outcome
<1>3. ASSUME FailureLimit > 0, d.failures = 0, d.hasValidReading = TRUE,
             d.lastHumidity \in Int, d.lastHumidity >= FanOnPercent,
             ~d.relayOn, ~(now - d.lastChangeTime < ReportMinFanOff)
      PROVE  on = TRUE
  <2>1. ~E!SensorFailed(d) BY <1>3, ReportConstants DEF E!SensorFailed
  <2>2. E!Candidate(d, FALSE).on = TRUE BY <1>3, <2>1 DEF E!Candidate
  <2>3. ~E!MaxRuntimeExceeded(d, now) BY <1>3 DEF E!MaxRuntimeExceeded
  <2>4. ~E!DwellHolds(d, now) BY <1>3 DEF E!DwellHolds
  <2>5. QED BY <2>2, <2>3, <2>4 DEF E!Outcome
<1>4. /\ Record(new, DOMAIN NewController)
      /\ new.relayOn = on
      /\ new.lastChangeTime = IF on = d.relayOn THEN d.lastChangeTime ELSE now
  <2>1. CASE on = d.relayOn
    <3>1. new = d BY <2>1 DEF E!Ticked
    <3>2. QED BY <2>1, <3>1
  <2>2. CASE on # d.relayOn
    <3>1. new = [d EXCEPT !.relayOn = on, !.lastChangeTime = now,
                          !.relayOnSince = IF on THEN now ELSE E!Never]
      BY <2>2 DEF E!Ticked
    <3> HIDE DEF on, new
    <3>2. QED BY <1>1, <2>2, <3>1 DEF Record
  <2>3. QED BY <2>1, <2>2
<1> HIDE DEF on, new
<1>5. /\ Record(new, DOMAIN NewController)
      /\ new.relayOn \in BOOLEAN
      /\ new.lastChangeTime = IF new.relayOn = d.relayOn THEN d.lastChangeTime ELSE now
  BY <1>2, <1>4
<1>6. /\ FailureLimit > 0 /\ d.failures = 0 /\ d.hasValidReading = TRUE
      /\ d.lastHumidity \in Int /\ d.lastHumidity >= FanOnPercent
      /\ ~d.relayOn /\ ~(now - d.lastChangeTime < ReportMinFanOff)
      => new.relayOn
  BY <1>3, <1>4
<1>7. QED BY <1>5, <1>6 DEF new

\* On the plateau of a shower that no later one overwrites the air is humid.
LEMMA PlateauHumidity ==
  ASSUME NEW a \in ReportArguments, NEW i \in DOMAIN E!ShowerStarts(a), NEW t \in Nat,
         Multiple(t, a.interval), a.length >= E!PlateauEnd,
         \A j \in DOMAIN E!ShowerStarts(a) :
           j > i => E!ShowerStarts(a)[j] - E!ShowerStarts(a)[i] >= E!PlateauEnd,
         t - E!ShowerStarts(a)[i] >= E!PlateauStart,
         t - E!ShowerStarts(a)[i] < E!PlateauEnd
  PROVE  E!Humidities(t, a.interval, E!ShowerStarts(a), a.length) =
           E!Percent(Peak - Noise) .. E!Percent(Peak + Noise)
<1> DEFINE starts == E!ShowerStarts(a)
           into   == t - starts[i]
           covering == E!Covering(t, a.interval, starts, a.length)
<1>0. /\ a.interval \in Nat \ {0} /\ a.length \in Nat
  BY DEF ReportArguments
<1>1. /\ RiseStart \in Nat /\ RiseTime \in Nat \ {0} /\ Plateau \in Nat
      /\ E!PlateauStart = RiseStart + RiseTime
      /\ E!PlateauEnd = RiseStart + RiseTime + Plateau
      /\ E!PlateauStart \in Nat /\ E!PlateauEnd \in Nat
  BY ReportConstants DEF E!PlateauStart, E!PlateauEnd
<1>2. \A j \in DOMAIN starts :
        j \in Nat /\ starts[j] \in Nat /\ Multiple(starts[j], a.interval)
  BY StartsOnGrid
<1>3. \A j \in DOMAIN starts : j > i => starts[j] - starts[i] >= E!PlateauEnd OBVIOUS
<1>4. into \in Int /\ into >= E!PlateauStart /\ into < E!PlateauEnd BY <1>2
<1>5. i \in covering
  <2>1. Multiple(into, a.interval) BY <1>0, <1>2, MultipleSum
  <2> HIDE DEF into
  <2>2. into \in 0 .. a.length BY <1>0, <1>1, <1>4
  <2>3. into \in E!Grid(a.length, a.interval)
    BY <1>0, <1>4, <2>1, <2>2, MultipleMod DEF E!Grid
  <2>4. QED BY <2>3 DEF E!Covering, into
<1>6. \A j \in covering : j \in Int /\ i >= j
  <2> TAKE j \in covering
  <2>1. j \in DOMAIN starts /\ t - starts[j] \in 0 .. a.length
    BY DEF E!Covering, E!Grid
  <2>2. j \in Nat /\ starts[j] \in Nat /\ i \in Nat /\ starts[i] \in Nat BY <1>2, <2>1
  <2>3. t - starts[j] >= 0 BY <1>0, <2>1
  <2>4. CASE j > i
    <3>1. starts[j] - starts[i] >= E!PlateauEnd BY <1>3, <2>1, <2>4
    <3> HIDE DEF starts
    <3>2. t - starts[i] < E!PlateauEnd BY <1>4 DEF into
    <3>3. QED BY <1>1, <2>2, <2>3, <3>1, <3>2
  <2>5. QED BY <2>2, <2>4
<1>7. E!Max(covering) = i
  <2> HIDE DEF covering
  <2>1. \A j \in covering : (\A k \in covering : j >= k) => j = i BY <1>5, <1>6
  <2>2. QED BY <1>5, <1>6, <2>1 DEF E!Max
<1> HIDE DEF covering, into, starts
<1>8. E!ShowerLow(into) = Peak
  <2>1. ~(into < RiseStart) /\ into \notin RiseStart .. E!PlateauStart - 1
    BY <1>1, <1>4
  <2>2. into \in E!PlateauStart .. E!PlateauEnd - 1 BY <1>1, <1>4
  <2>3. into - E!PlateauEnd \notin 0 .. DecayTime BY <1>1, <1>4
  <2>4. QED BY <2>1, <2>2, <2>3 DEF E!ShowerLow
<1>9. E!ShowerHumidities(into) = E!Percent(Peak - Noise) .. E!Percent(Peak + Noise)
  BY <1>4, <1>8 DEF E!ShowerHumidities, E!ShowerHigh
<1>10. E!Humidities(t, a.interval, starts, a.length) = E!ShowerHumidities(into)
  BY <1>5, <1>7 DEF E!Humidities, covering, into
<1>11. QED BY <1>9, <1>10 DEF starts

\* A shower that has been humid for a minimum off-time has been ventilated: the fan has
\* either run since its start or been off since before, and long enough to be started.
LEMMA ShowerVentilated ==
  ASSUME PlateauIsHumid, ReportInv, FanInv, E!TakeSample,
         NEW i \in DOMAIN showerStarts, E!Undisturbed(i),
         sampleTime' >= showerStarts[i] + E!PlateauStart + ReportMinFanOff
  PROVE  lastOnAt' >= showerStarts[i]
<1> DEFINE start == showerStarts[i]
           now   == sampleTime'
           due   == E!PlateauStart + ReportMinFanOff
<1>1. /\ args \in ReportArguments /\ args # E!NoReport
      /\ showerStarts = E!ShowerStarts(args)
      /\ now = IF sampleTime = Never THEN 0 ELSE sampleTime + args.interval
      /\ now \in SampleGrid(args)
  BY SampleTaken, ArgumentsOfReport
<1>2. /\ args.total \in Nat /\ args.interval \in Nat \ {0}
      /\ E!PlateauStart \in Nat /\ E!PlateauStart >= 1 /\ Plateau \in Nat
      /\ E!PlateauEnd = E!PlateauStart + Plateau /\ ReportMinFanOff \in Nat
  BY <1>1, ReportConstants DEF ReportArguments, E!PlateauStart, E!PlateauEnd
<1>3. /\ start \in Nat /\ Multiple(start, args.interval)
      /\ now \in Nat /\ Multiple(now, args.interval)
  BY <1>1, <1>2, StartsOnGrid DEF SampleGrid
<1>4. /\ args.length >= E!PlateauEnd /\ Plateau >= ReportMinFanOff + args.interval
      /\ \A j \in DOMAIN showerStarts :
           j > i => showerStarts[j] - showerStarts[i] >= E!PlateauEnd
  BY DEF E!Undisturbed
<1>5. /\ Record(fan, DOMAIN NewController) /\ fan.relayOn \in BOOLEAN
      /\ lastOnAt \in {Never} \cup SampleGrid(args)
      /\ fan.relayOn => lastOnAt = sampleTime /\ sampleTime # Never
      /\ ~fan.relayOn =>
           fan.lastChangeTime = IF lastOnAt = Never THEN 0 ELSE lastOnAt + args.interval
      /\ sampleTime >= start + E!PlateauStart + ReportMinFanOff => lastOnAt >= start
  BY <1>1 DEF FanInv
<1>6. lastOnAt' = IF fan'.relayOn THEN now ELSE lastOnAt BY DEF E!TakeSample
<1>7. sampleTime # Never
  <2>1. sampleTime = Never => now = 0 BY <1>1
  <2> HIDE DEF now, start
  <2>2. now >= start + E!PlateauStart + ReportMinFanOff BY DEF now, start
  <2>3. QED BY <1>2, <1>3, <2>1, <2>2
<1>8. sampleTime \in Nat /\ now = sampleTime + args.interval
  BY <1>1, <1>7 DEF ReportInv, SampleGrid
<1>9. /\ lastOnAt \in Int
      /\ lastOnAt # Never => lastOnAt \in Nat /\ Multiple(lastOnAt, args.interval)
  BY <1>2, <1>5 DEF SampleGrid, Never
<1>10. now >= start + E!PlateauStart + ReportMinFanOff OBVIOUS
<1>11. CASE lastOnAt >= start
  <2> HIDE DEF now, start
  <2>1. now >= start BY <1>2, <1>3, <1>10
  <2>2. QED BY <1>6, <1>11, <2>1 DEF start
<1>12. CASE ~(lastOnAt >= start)
  <2>1. now < start + E!PlateauEnd
    <3> HIDE DEF now, start
    <3>1. ~(sampleTime >= start + E!PlateauStart + ReportMinFanOff) BY <1>5, <1>12
    <3>2. QED BY <1>2, <1>3, <1>4, <1>8, <3>1
  <2>2. PICK humidity \in E!Humidities(now, args.interval, showerStarts, args.length) :
          fan' = E!Ticked(E!OnSensorReading(fan, [valid |-> TRUE, humidity |-> humidity]),
                          FALSE, now)
    BY DEF E!TakeSample
  <2> DEFINE read == E!OnSensorReading(fan, [valid |-> TRUE, humidity |-> humidity])
  <2>3. E!Humidities(now, args.interval, showerStarts, args.length) =
          E!Percent(Peak - Noise) .. E!Percent(Peak + Noise)
    <3> HIDE DEF now
    <3>1. now - start >= E!PlateauStart /\ now - start < E!PlateauEnd
      <4> HIDE DEF start
      <4>1. QED BY <1>2, <1>3, <1>10, <2>1
    <3>2. QED BY <1>1, <1>3, <1>4, <3>1, PlateauHumidity
  <2>4. /\ humidity \in Int /\ humidity >= FanOnPercent
        /\ humidity \in HumidityMin .. HumidityMax
    <3>1. /\ E!Percent(Peak - Noise) \in Int /\ E!Percent(Peak + Noise) \in Int
      BY ReportConstants DEF E!Percent
    <3>2. QED BY <2>2, <2>3, <3>1, ReportConstants DEF PlateauIsHumid
  <2>5. ~fan.relayOn
    <3>1. fan.relayOn => lastOnAt = now - args.interval BY <1>2, <1>5, <1>8
    <3> HIDE DEF now, start
    <3>2. start < now BY <1>2, <1>3, <1>10
    <3>3. start + args.interval <= now BY <1>2, <1>3, <3>2, MultipleGap
    <3>4. QED BY <1>2, <1>3, <1>12, <3>1, <3>3
  <2>6. fan.lastChangeTime \in Int /\ fan.lastChangeTime <= start
    <3> HIDE DEF start
    <3>1. CASE lastOnAt = Never BY <1>3, <1>5, <2>5, <3>1
    <3>2. CASE lastOnAt # Never
      <4>1. lastOnAt + args.interval <= start
        BY <1>2, <1>3, <1>9, <1>12, <3>2, MultipleGap
      <4>2. QED BY <1>2, <1>5, <1>9, <2>5, <3>2, <4>1
    <3>3. QED BY <3>1, <3>2
  <2>7. ~(now - fan.lastChangeTime < ReportMinFanOff)
    <3> HIDE DEF now, start
    <3>1. QED BY <1>2, <1>3, <1>10, <2>6
  <2>8. /\ Record(read, DOMAIN NewController)
        /\ read.relayOn = fan.relayOn /\ read.lastChangeTime = fan.lastChangeTime
        /\ read.failures = 0 /\ read.hasValidReading = TRUE /\ read.lastHumidity = humidity
    BY <1>5, <2>4, FanReads
  <2> HIDE DEF read, now, start
  <2>9. fan' = E!Ticked(read, FALSE, now) BY <2>2 DEF read
  <2>10. fan'.relayOn
    BY <1>5, <2>4, <2>5, <2>7, <2>8, <2>9, FanTicks DEF PlateauIsHumid
  <2>11. lastOnAt' = now /\ now >= start BY <1>2, <1>3, <1>6, <1>10, <2>10 DEF now
  <2>12. QED BY <2>11 DEF start
<1>13. QED BY <1>11, <1>12

\* A sample keeps the account of when the fan last ran.
LEMMA FanNext == PlateauIsHumid /\ ReportInv /\ FanInv /\ E!TakeSample => FanInv'
<1> SUFFICES ASSUME PlateauIsHumid, ReportInv, FanInv, E!TakeSample PROVE FanInv'
  OBVIOUS
<1> DEFINE now == sampleTime'
<1>1. /\ args \in ReportArguments /\ args # E!NoReport
      /\ now = IF sampleTime = Never THEN 0 ELSE sampleTime + args.interval
      /\ now \in SampleGrid(args) /\ now # Never
      /\ UNCHANGED <<args, showerStarts>>
  <2>1. /\ args \in ReportArguments /\ args # E!NoReport
        /\ now = IF sampleTime = Never THEN 0 ELSE sampleTime + args.interval
        /\ now \in SampleGrid(args)
    BY SampleTaken, ArgumentsOfReport
  <2>2. UNCHANGED <<args, showerStarts>> BY DEF E!TakeSample
  <2> HIDE DEF now
  <2>3. now # Never BY <2>1 DEF SampleGrid, ReportArguments, Never
  <2>4. QED BY <2>1, <2>2, <2>3
<1>2. /\ Record(fan, DOMAIN NewController) /\ fan.relayOn \in BOOLEAN
      /\ lastOnAt \in {Never} \cup SampleGrid(args)
      /\ fan.relayOn => lastOnAt = sampleTime /\ sampleTime # Never
      /\ ~fan.relayOn =>
           fan.lastChangeTime = IF lastOnAt = Never THEN 0 ELSE lastOnAt + args.interval
  BY <1>1 DEF FanInv
<1>3. lastOnAt' = IF fan'.relayOn THEN now ELSE lastOnAt BY DEF E!TakeSample
<1>4. PICK humidity :
        fan' = E!Ticked(E!OnSensorReading(fan, [valid |-> TRUE, humidity |-> humidity]),
                        FALSE, now)
  BY DEF E!TakeSample
<1> DEFINE read == E!OnSensorReading(fan, [valid |-> TRUE, humidity |-> humidity])
<1>5. /\ Record(read, DOMAIN NewController)
      /\ read.relayOn = fan.relayOn /\ read.lastChangeTime = fan.lastChangeTime
  BY <1>2, FanReads
<1> HIDE DEF read, now
<1>6. /\ Record(fan', DOMAIN NewController) /\ fan'.relayOn \in BOOLEAN
      /\ fan'.lastChangeTime =
           IF fan'.relayOn = fan.relayOn THEN fan.lastChangeTime ELSE now
  <2>1. fan' = E!Ticked(read, FALSE, now) BY <1>4 DEF read
  <2>2. read.relayOn \in BOOLEAN BY <1>2, <1>5
  <2> DEFINE ticked == E!Ticked(read, FALSE, now)
  <2>3. /\ Record(ticked, DOMAIN NewController) /\ ticked.relayOn \in BOOLEAN
        /\ ticked.lastChangeTime =
             IF ticked.relayOn = read.relayOn THEN read.lastChangeTime ELSE now
    BY <1>5, <2>2, FanTicks
  <2> HIDE DEF ticked
  <2>4. fan' = ticked BY <2>1 DEF ticked
  <2>5. QED BY <1>5, <2>3, <2>4
<1>7. lastOnAt' \in {Never} \cup SampleGrid(args) BY <1>1, <1>2, <1>3
<1>8. IF fan'.relayOn THEN lastOnAt' = now /\ now # Never
      ELSE fan'.lastChangeTime =
             IF lastOnAt' = Never THEN 0 ELSE lastOnAt' + args.interval
  <2>1. CASE fan'.relayOn BY <1>1, <1>3, <2>1
  <2>2. CASE ~fan'.relayOn /\ fan.relayOn
    <3>1. lastOnAt' = sampleTime /\ sampleTime # Never BY <1>2, <1>3, <2>2
    <3>2. fan'.lastChangeTime = now BY <1>6, <2>2
    <3>3. QED BY <1>1, <2>2, <3>1, <3>2
  <2>3. CASE ~fan'.relayOn /\ ~fan.relayOn
    <3>1. lastOnAt' = lastOnAt BY <1>3, <2>3
    <3>2. fan'.lastChangeTime = fan.lastChangeTime BY <1>2, <1>6, <2>3
    <3>3. QED BY <1>2, <2>3, <3>1, <3>2
  <2>4. QED BY <1>2, <2>1, <2>2, <2>3
<1>9. ASSUME NEW i \in DOMAIN showerStarts', E!Undisturbed(i)',
             sampleTime' >= showerStarts'[i] + E!PlateauStart + ReportMinFanOff
      PROVE  lastOnAt' >= showerStarts'[i]
  <2>1. E!Undisturbed(i) BY <1>1, <1>9 DEF E!Undisturbed
  <2>2. QED BY <1>1, <1>9, <2>1, ShowerVentilated
<1>10. QED BY <1>1, <1>6, <1>7, <1>8, <1>9 DEF FanInv, now

\* A report begins with the fan off.
LEMMA NewFan ==
  /\ Record(E!NewController, DOMAIN NewController)
  /\ E!NewController.relayOn = FALSE
  /\ E!NewController.lastChangeTime = 0
BY DEF Record, NewController, E!NewController

\* Before the first sample no shower has been humid.
LEMMA BeforeAnySample ==
  ASSUME NEW a \in ReportArguments, NEW i \in DOMAIN E!ShowerStarts(a)
  PROVE  ~(Never >= E!ShowerStarts(a)[i] + E!PlateauStart + ReportMinFanOff)
<1>1. E!PlateauStart \in Nat /\ E!PlateauStart >= 1 /\ ReportMinFanOff \in Nat
  BY ReportConstants DEF E!PlateauStart
<1>2. E!ShowerStarts(a)[i] \in Nat BY StartsOnGrid
<1>3. QED BY <1>1, <1>2 DEF Never

\* Every step of the whole keeps the account.
LEMMA FanInvHolds == PlateauIsHumid /\ FullSpec => []FanInv
<1> SUFFICES ASSUME PlateauIsHumid PROVE FullSpec => []FanInv
  OBVIOUS
<1>1. FullInit => FanInv
  <2> SUFFICES ASSUME FullInit, args # E!NoReport PROVE FanInv
    BY DEF FanInv
  <2>1. PICK a \in {E!NoReport} \cup Reports : E!ReportInit(a) BY DEF FullInit
  <2>2. /\ args = a /\ a \in ReportArguments /\ showerStarts = E!ShowerStarts(a)
        /\ sampleTime = Never /\ fan = E!NewController /\ lastOnAt = Never
    BY <2>1, ArgumentsOfReport DEF E!ReportInit, Never, E!Never
  <2>3. QED BY <2>2, NewFan, BeforeAnySample DEF FanInv
<1>2. ReportInv /\ FanInv /\ [FullNext]_fullVars => FanInv'
  <2> SUFFICES ASSUME ReportInv, FanInv, [FullNext]_fullVars PROVE FanInv'
    OBVIOUS
  <2>1. CASE E!TakeSample BY <2>1, FanNext
  <2>2. CASE E!FinishReport
    BY <2>2 DEF E!FinishReport, FanInv, E!Undisturbed
  <2>3. CASE E!StartReport(DemoReport)
    <3>1. /\ args' = DemoReport /\ showerStarts' = E!ShowerStarts(DemoReport)
          /\ sampleTime' = Never /\ fan' = E!NewController /\ lastOnAt' = Never
      BY <2>3 DEF E!StartReport, Never, E!Never
    <3>2. DemoReport \in ReportArguments BY ArgumentsOfReport
    <3>3. QED BY <3>1, <3>2, NewFan, BeforeAnySample DEF FanInv
  <2>4. CASE UNCHANGED reportVars
    BY <2>4 DEF reportVars, FanInv, E!Undisturbed
  <2>5. QED
    BY <2>1, <2>2, <2>3, <2>4 DEF FullNext, Progress, Skip, RunTests, RunDemo, DemoEnded,
       Summarise, DemoStep, RunReport, ReportStep, ReportEnded, DemoFault, ServiceObeys,
       E!ReportNext, fullVars
<1>3. QED BY <1>1, <1>2, ReportInvHolds, PTL DEF FullSpec

\* Whatever cutoffs and holds the showers before it have brought, a fan under the
\* simulator's controller runs in every shower whose plateau no other one disturbs and
\* outlasts a minimum off-time (energy_report.py, humidity_controlled_runtime_seconds).
THEOREM EveryShowerVentilated == PlateauIsHumid /\ FullSpec => []ShowersVentilated
<1> SUFFICES ASSUME PlateauIsHumid PROVE FullSpec => []ShowersVentilated
  OBVIOUS
<1>1. ReportInv /\ FanInv => ShowersVentilated
  <2> SUFFICES ASSUME ReportInv, FanInv, NEW i \in DOMAIN showerStarts,
                      E!Undisturbed(i), sampleTime >= showerStarts[i] + E!PlateauEnd
               PROVE  lastOnAt >= showerStarts[i]
    BY DEF ShowersVentilated, E!ShowersVentilated
  <2>1. args # E!NoReport BY DEF ReportInv
  <2>2. /\ args \in ReportArguments /\ showerStarts = E!ShowerStarts(args)
        /\ sampleTime \in {Never} \cup SampleGrid(args)
    BY <2>1, ArgumentsOfReport DEF ReportInv
  <2>3. /\ sampleTime \in Int /\ showerStarts[i] \in Nat /\ args.interval \in Nat
        /\ E!PlateauStart \in Nat /\ Plateau \in Nat /\ ReportMinFanOff \in Nat
        /\ E!PlateauEnd = E!PlateauStart + Plateau
    BY <2>2, StartsOnGrid, ReportConstants DEF SampleGrid, ReportArguments, Never,
       E!PlateauStart, E!PlateauEnd
  <2>4. Plateau >= ReportMinFanOff + args.interval BY DEF E!Undisturbed
  <2>5. sampleTime >= showerStarts[i] + E!PlateauStart + ReportMinFanOff
    BY <2>3, <2>4
  <2>6. QED BY <2>1, <2>5 DEF FanInv
<1>2. FullSpec => []FanInv BY FanInvHolds
<1>3. QED BY <1>1, <1>2, ReportInvHolds, PTL

-----------------------------------------------------------------------------
(* The order of the showers *)

\* A set of natural numbers that is not empty has a least member.
LEMMA LeastNatural ==
  ASSUME NEW S \in SUBSET Nat, S # {}
  PROVE  \E n \in S : \A m \in S : n <= m
<1> DEFINE Below == OpToRel(<, Nat)
<1>1. IsWellFoundedOn(Below, Nat) BY NatLessThanWellFounded
<1>2. \A m, n \in Nat : <<m, n>> \in Below <=> m < n BY DEF OpToRel
<1> HIDE DEF Below
<1>3. PICK n \in S : \A m \in S : <<m, n>> \notin Below BY <1>1, WFMin
<1>4. \A m \in S : ~(m < n)
  <2> TAKE m \in S
  <2>1. m \in Nat /\ n \in Nat OBVIOUS
  <2>2. <<m, n>> \notin Below BY <1>3
  <2>3. QED BY <1>2, <2>1, <2>2
<1>5. QED BY <1>4

\* A greater dividend has no smaller quotient, and with the same quotient no smaller
\* remainder.
LEMMA QuotientOrder ==
  ASSUME NEW m \in Nat, NEW n \in Nat, NEW d \in Nat \ {0}, m <= n
  PROVE  /\ m \div d \in Nat /\ n \div d \in Nat /\ m % d \in 0 .. d - 1 /\ n % d \in 0 .. d - 1
         /\ m \div d <= n \div d
         /\ m \div d = n \div d => (n % d) - (m % d) = n - m
<1>1. m = d * (m \div d) + (m % d) /\ m \div d \in Nat /\ m % d \in 0 .. d - 1 OBVIOUS
<1>2. n = d * (n \div d) + (n % d) /\ n \div d \in Nat /\ n % d \in 0 .. d - 1 OBVIOUS
<1>3. PICK p \in Nat, r \in 0 .. d - 1 : p = m \div d /\ r = m % d BY <1>1
<1>4. PICK q \in Nat, s \in 0 .. d - 1 : q = n \div d /\ s = n % d BY <1>2
<1>5. m = d * p + r /\ n = d * q + s BY <1>1, <1>2, <1>3, <1>4
<1>6. p <= q
  <2>1. SUFFICES ASSUME q + 1 <= p PROVE FALSE OBVIOUS
  <2>2. d * (q + 1) <= d * p BY <2>1
  <2>3. d * (q + 1) = d * q + d OBVIOUS
  <2>4. QED BY <1>5, <2>2, <2>3
<1>7. p = q => s - r = n - m BY <1>5
<1>8. QED BY <1>1, <1>2, <1>3, <1>4, <1>6, <1>7

\* The next multiple of a number.
LEMMA NextMultiple ==
  ASSUME NEW m \in Nat, NEW n \in Nat
  PROVE  (m + 1) * n = m * n + n
  OBVIOUS

\* A greater number is not rounded to a smaller one.
LEMMA RoundedOrder ==
  ASSUME NEW m \in Nat, NEW n \in Nat, NEW d \in Nat \ {0}, m <= n
  PROVE  E!Rounded(m, d) <= E!Rounded(n, d)
<1>1. PICK p \in Nat, r \in 0 .. d - 1 : p = m \div d /\ r = m % d BY QuotientOrder
<1>2. PICK q \in Nat, s \in 0 .. d - 1 : q = n \div d /\ s = n % d BY QuotientOrder
<1>3. p <= q /\ (p = q => s - r = n - m) BY <1>1, <1>2, QuotientOrder
<1> DEFINE up(a, b) == 2 * b > d \/ (2 * b = d /\ a % 2 = 1)
           less == p + (IF up(p, r) THEN 1 ELSE 0)
           more == q + (IF up(q, s) THEN 1 ELSE 0)
<1>4. E!Rounded(m, d) = less BY <1>1 DEF E!Rounded
<1>5. E!Rounded(n, d) = more BY <1>2 DEF E!Rounded
<1>6. less <= more
  <2>1. CASE p < q BY <2>1
  <2>2. CASE p = q
    <3>1. r <= s BY <1>3, <2>2
    <3>2. up(p, r) => up(q, s) BY <2>2, <3>1
    <3> HIDE DEF up
    <3>3. QED BY <2>2, <3>2
  <2>3. QED BY <1>3, <2>1, <2>2
<1>7. QED BY <1>4, <1>5, <1>6

\* No shower starts before an earlier one.
LEMMA StartsInOrder ==
  ASSUME NEW a \in ReportArguments, NEW i \in DOMAIN E!ShowerStarts(a),
         NEW j \in DOMAIN E!ShowerStarts(a), i <= j
  PROVE  E!ShowerStarts(a)[i] <= E!ShowerStarts(a)[j]
<1>0. /\ a.total \in Nat /\ a.showers \in Nat /\ a.interval \in Nat \ {0}
      /\ DayLength \in Nat \ {0}
  BY FullCheckAssumption DEF ReportArguments, E!ReportParameters
<1>1. E!Days(a) \in Nat BY <1>0, RoundedType DEF E!Days
<1>2. /\ i \in 1 .. E!Days(a) * a.showers /\ j \in 1 .. E!Days(a) * a.showers
      /\ E!ShowerStarts(a)[i] = E!StartOf(a, i) /\ E!ShowerStarts(a)[j] = E!StartOf(a, j)
  BY DEF E!ShowerStarts
<1>3. E!Days(a) * a.showers \in Nat BY <1>0, <1>1, ProductType
<1>4. i - 1 \in Nat /\ j - 1 \in Nat /\ i - 1 <= j - 1 BY <1>2, <1>3
<1>5. a.showers \in Nat \ {0}
  <2>1. a.showers = 0 => E!Days(a) * a.showers = 0 BY <1>1
  <2>2. QED BY <1>0, <1>2, <1>4, <2>1
<1> DEFINE s == a.showers
           d == (s + 1) * a.interval
           n(day, nth) == (day * (s + 1) + nth) * DayLength
<1>6. PICK p \in Nat, r \in 0 .. s - 1 : p = (i - 1) \div s /\ r = (i - 1) % s
  BY <1>4, <1>5, QuotientOrder
<1>7. PICK q \in Nat, t \in 0 .. s - 1 : q = (j - 1) \div s /\ t = (j - 1) % s
  BY <1>4, <1>5, QuotientOrder
<1>8. p <= q /\ (p = q => r <= t)
  <2>1. p = q => t - r = (j - 1) - (i - 1) BY <1>4, <1>5, <1>6, <1>7, QuotientOrder
  <2>2. p <= q BY <1>4, <1>5, <1>6, <1>7, QuotientOrder
  <2>3. QED BY <1>4, <1>6, <1>7, <2>1, <2>2
<1>9. d \in Nat \ {0}
  <2>1. s + 1 \in Nat /\ s + 1 # 0 BY <1>5
  <2>2. QED BY <1>0, <2>1, ProductType
<1>10. /\ E!StartOf(a, i) = a.interval * E!Rounded(n(p, r + 1), d)
       /\ E!StartOf(a, j) = a.interval * E!Rounded(n(q, t + 1), d)
  BY <1>6, <1>7 DEF E!StartOf, E!Start
<1>11. /\ n(p, r + 1) \in Nat /\ n(q, t + 1) \in Nat
       /\ n(p, r + 1) <= n(q, t + 1)
  <2>1. PICK w \in Nat \ {0} : w = s + 1 BY <1>5
  <2>2. p * w \in Nat /\ q * w \in Nat BY <2>1, ProductType
  <2>3. p * w + (r + 1) <= q * w + (t + 1)
    <3>1. CASE p = q BY <1>5, <1>8, <2>2, <3>1
    <3>2. CASE p + 1 <= q
      <4>1. (p + 1) * w <= q * w BY <2>1, <3>2
      <4>2. (p + 1) * w = p * w + w BY NextMultiple
      <4>3. QED BY <1>5, <2>1, <2>2, <4>1, <4>2
    <3>3. QED BY <1>8, <3>1, <3>2
  <2>4. PICK x \in Nat, y \in Nat : x = p * w + (r + 1) /\ y = q * w + (t + 1)
    BY <1>5, <2>2
  <2>5. x * DayLength \in Nat /\ y * DayLength \in Nat BY <1>0, ProductType
  <2>6. x * DayLength <= y * DayLength BY <1>0, <2>3, <2>4
  <2>7. QED BY <2>1, <2>4, <2>5, <2>6
<1> HIDE DEF d, n
<1>12. PICK x \in Nat, y \in Nat :
         x = E!Rounded(n(p, r + 1), d) /\ y = E!Rounded(n(q, t + 1), d)
  BY <1>9, <1>11, RoundedType
<1>13. x <= y BY <1>9, <1>11, <1>12, RoundedOrder
<1>14. a.interval * x <= a.interval * y BY <1>0, <1>13
<1>15. QED BY <1>2, <1>10, <1>12, <1>14

-----------------------------------------------------------------------------
(* The fixed timer *)

\* The seconds of the first n showers' runs, each with the shower it belongs to.
CountedSeconds(n) ==
  {p \in (1 .. n) \X (0 .. args.total - 1) :
     /\ p[1] \in DOMAIN showerStarts
     /\ p[2] - showerStarts[p[1]] \in 0 .. args.fixedRun - 1}

\* What the timer adds for the n-th.
TimeOf(n) == IF n \in DOMAIN showerStarts THEN E!FixedRun(n) ELSE 0

\* The arguments and the starts of a report that is run.
LEMMA ReportStarts ==
  ASSUME ReportInv, args # E!NoReport
  PROVE  /\ args \in ReportArguments /\ showerStarts = E!ShowerStarts(args)
         /\ args.total \in Nat /\ args.fixedRun \in Nat /\ args.showers \in Nat
         /\ E!Days(args) * args.showers \in Nat
         /\ \A i \in DOMAIN showerStarts :
              /\ i \in 1 .. E!Days(args) * args.showers
              /\ showerStarts[i] \in Nat /\ showerStarts[i] < args.total
<1>1. args \in ReportArguments /\ showerStarts = E!ShowerStarts(args)
  BY ArgumentsOfReport DEF ReportInv
<1>2. /\ args.total \in Nat /\ args.fixedRun \in Nat /\ args.showers \in Nat
      /\ DayLength \in Nat \ {0}
  BY <1>1, FullCheckAssumption DEF ReportArguments, E!ReportParameters
<1>3. E!Days(args) \in Nat BY <1>2, RoundedType DEF E!Days
<1>4. E!Days(args) * args.showers \in Nat BY <1>2, <1>3, ProductType
<1>5. \A i \in DOMAIN showerStarts : i \in 1 .. E!Days(args) * args.showers
  BY <1>1 DEF E!ShowerStarts
<1>6. \A i \in DOMAIN showerStarts : showerStarts[i] \in Nat /\ showerStarts[i] < args.total
  BY <1>1, StartsOnGrid
<1>7. QED BY <1>1, <1>2, <1>4, <1>5, <1>6

\* A run is counted by as many seconds as the timer adds for it, which are not those
\* of the runs before.
LEMMA NextRunCounted ==
  ASSUME ReportInv, args # E!NoReport, NEW n \in Nat \ {0}
  PROVE  /\ IsFiniteSet(CountedSeconds(n))
         /\ Cardinality(CountedSeconds(n)) \in Nat
         /\ TimeOf(n) \in Nat
         /\ Cardinality(CountedSeconds(n)) = Cardinality(CountedSeconds(n - 1)) + TimeOf(n)
<1>0. /\ args.total \in Nat /\ args.fixedRun \in Nat
      /\ n \in DOMAIN showerStarts => showerStarts[n] \in Nat /\ showerStarts[n] < args.total
  BY ReportStarts
<1>1. \A k \in Nat : /\ IsFiniteSet(CountedSeconds(k))
                     /\ Cardinality(CountedSeconds(k)) \in Nat
  <2> TAKE k \in Nat
  <2>1. IsFiniteSet((1 .. k) \X (0 .. args.total - 1))
    <3>1. 1 \in Int /\ k \in Int /\ 0 \in Int /\ args.total - 1 \in Int BY <1>0
    <3>2. IsFiniteSet(1 .. k) /\ IsFiniteSet(0 .. args.total - 1) BY <3>1, FS_Interval
    <3>3. QED BY <3>2, FS_Product
  <2>2. CountedSeconds(k) \in SUBSET ((1 .. k) \X (0 .. args.total - 1))
    BY DEF CountedSeconds
  <2>3. QED BY <2>1, <2>2, FS_Subset, FS_CardinalityType
<1> DEFINE before == CountedSeconds(n - 1)
           added  == {p \in CountedSeconds(n) : p[1] = n}
<1>2. /\ before \cup added = CountedSeconds(n)
      /\ before \cap added = {}
  <2>1. \A k : k \in 1 .. n <=> (k \in 1 .. n - 1 \/ k = n) OBVIOUS
  <2>2. n \notin 1 .. n - 1 OBVIOUS
  <2>3. QED BY <2>1, <2>2 DEF CountedSeconds
<1>3. /\ IsFiniteSet(added)
      /\ Cardinality(added) = TimeOf(n) /\ TimeOf(n) \in Nat
  <2>1. CASE n \notin DOMAIN showerStarts
    <3>1. added = {} BY <2>1 DEF CountedSeconds
    <3>2. QED BY <2>1, <3>1, FS_EmptySet DEF TimeOf
  <2>2. CASE n \in DOMAIN showerStarts
    <3>1. PICK start \in Nat : start = showerStarts[n] /\ start < args.total
      BY <1>0, <2>2
    <3>2. PICK run \in Nat : /\ run = E!Less(args.fixedRun, args.total - start)
                             /\ run <= args.fixedRun /\ start + run <= args.total
                             /\ run = args.fixedRun \/ start + run = args.total
      BY <1>0, <3>1 DEF E!Less
    <3>3. TimeOf(n) = run BY <2>2, <3>1, <3>2 DEF TimeOf, E!FixedRun
    <3> DEFINE seconds == start .. start + run - 1
               place == [t \in seconds |-> <<n, t>>]
    <3>4. IsFiniteSet(seconds) /\ Cardinality(seconds) = run BY FS_Interval
    <3>5. \A t : t \in seconds <=>
                   t \in 0 .. args.total - 1 /\ t - start \in 0 .. args.fixedRun - 1
      BY <1>0, <3>1, <3>2
    <3> HIDE DEF seconds
    <3>6. \A p : p \in added <=> \E t \in seconds : p = <<n, t>>
      BY <2>2, <3>1, <3>5 DEF CountedSeconds
    <3>7. place \in Bijection(seconds, added)
      BY <3>6 DEF Bijection, Injection, Surjection, IsInjective
    <3>8. ExistsBijection(seconds, added) BY <3>7 DEF ExistsBijection
    <3>9. QED BY <3>3, <3>4, <3>8, FS_Bijection
  <2>3. QED BY <2>1, <2>2
<1> HIDE DEF before, added
<1>4. n - 1 \in Nat OBVIOUS
<1>5. IsFiniteSet(before) /\ Cardinality(before) \in Nat BY <1>1, <1>4 DEF before
<1>6. Cardinality(before \cup added) =
        Cardinality(before) + Cardinality(added) - Cardinality(before \cap added)
  BY <1>3, <1>5, FS_Union
<1>7. Cardinality(before \cap added) = 0 BY <1>2, FS_EmptySet
<1>8. Cardinality(CountedSeconds(n)) = Cardinality(before) + TimeOf(n)
  <2>1. PICK b \in Nat, c \in Nat : b = Cardinality(before) /\ c = Cardinality(added)
    BY <1>3, <1>5
  <2>2. Cardinality(CountedSeconds(n)) = b + c - 0 BY <1>2, <1>6, <1>7, <2>1
  <2>3. b + c - 0 = b + c OBVIOUS
  <2>4. QED BY <1>3, <2>1, <2>2, <2>3
<1>9. QED BY <1>1, <1>3, <1>8 DEF before

\* So the sum is the number of all counted seconds: the count satisfies the equation
\* of the sum, and by the least-number principle it is the only function that does.
LEMMA FixedTimeCounts ==
  ASSUME ReportInv, args # E!NoReport
  PROVE  E!FixedTime = Cardinality(CountedSeconds(E!Days(args) * args.showers))
<1> DEFINE upTo[i \in Nat] == IF i = 0 THEN 0 ELSE upTo[i - 1] + TimeOf(i)
           counted == [i \in Nat |-> Cardinality(CountedSeconds(i))]
           last == E!Days(args) * args.showers
<1>1. E!FixedTime = upTo[last] BY DEF E!FixedTime, TimeOf
<1>2. CountedSeconds(0) = {}
  <2>1. 1 .. 0 = {} OBVIOUS
  <2>2. QED BY <2>1 DEF CountedSeconds
<1>3. Cardinality(CountedSeconds(0)) = 0 BY <1>2, FS_EmptySet
<1>4. \A i \in Nat :
        counted[i] = IF i = 0 THEN 0 ELSE counted[i - 1] + TimeOf(i)
  <2> TAKE i \in Nat
  <2>1. CASE i = 0 BY <1>3, <2>1
  <2>2. CASE i # 0
    <3>1. i - 1 \in Nat /\ i \in Nat \ {0} BY <2>2
    <3>2. Cardinality(CountedSeconds(i)) = Cardinality(CountedSeconds(i - 1)) + TimeOf(i)
      BY <3>1, NextRunCounted
    <3>3. QED BY <2>2, <3>1, <3>2
  <2>3. QED BY <2>1, <2>2
<1> HIDE DEF counted
<1>5. counted = [i \in Nat |-> IF i = 0 THEN 0 ELSE counted[i - 1] + TimeOf(i)]
  BY <1>4 DEF counted
<1>6. upTo = [i \in Nat |-> IF i = 0 THEN 0 ELSE upTo[i - 1] + TimeOf(i)]
  BY <1>5
<1> HIDE DEF upTo
<1>7. \A i \in Nat : upTo[i] = counted[i]
  <2> DEFINE differing == {i \in Nat : upTo[i] # counted[i]}
  <2>1. SUFFICES ASSUME differing # {} PROVE FALSE OBVIOUS
  <2>2. PICK i \in differing : \A m \in differing : i <= m BY <2>1, LeastNatural
  <2>3. upTo[i] = IF i = 0 THEN 0 ELSE upTo[i - 1] + TimeOf(i) BY <1>6
  <2>4. counted[i] = IF i = 0 THEN 0 ELSE counted[i - 1] + TimeOf(i) BY <1>4
  <2>5. i # 0 BY <2>2, <2>3, <2>4
  <2>6. i - 1 \in Nat /\ upTo[i - 1] = counted[i - 1] BY <2>2, <2>5
  <2>7. QED BY <2>2, <2>3, <2>4, <2>5, <2>6
<1>8. last \in Nat BY ReportStarts
<1>9. QED BY <1>1, <1>7, <1>8 DEF counted

\* The report counts as the library does.
LEMMA SameCardinality ==
  ASSUME NEW S
  PROVE  E!Cardinality(S) = Cardinality(S)
BY DEF E!Cardinality, Cardinality

\* Each second of a timer's run is counted, and none other: once if no two runs
\* overlap, and otherwise at least one of them more than once.
LEMMA SecondsCounted ==
  ASSUME ReportInv, args # E!NoReport
  PROVE  IF E!Overlapping THEN E!FixedTime > Cardinality(E!FixedRunSeconds)
                          ELSE E!FixedTime = Cardinality(E!FixedRunSeconds)
<1> DEFINE last == E!Days(args) * args.showers
           counted == CountedSeconds(last)
           seconds == E!FixedRunSeconds
           second == [p \in counted |-> p[2]]
<1>0. /\ args \in ReportArguments /\ showerStarts = E!ShowerStarts(args)
      /\ args.total \in Nat /\ args.fixedRun \in Nat /\ last \in Nat
      /\ \A i \in DOMAIN showerStarts :
           i \in 1 .. last /\ showerStarts[i] \in Nat /\ showerStarts[i] < args.total
  BY ReportStarts
<1>1. E!FixedTime = Cardinality(counted) BY FixedTimeCounts
<1>2. \A p : p \in counted <=>
        \E i \in DOMAIN showerStarts, t \in 0 .. args.total - 1 :
           p = <<i, t>> /\ t - showerStarts[i] \in 0 .. args.fixedRun - 1
  BY <1>0 DEF CountedSeconds
<1>3. \A t : t \in seconds <=>
        /\ t \in 0 .. args.total - 1
        /\ \E i \in DOMAIN showerStarts : t - showerStarts[i] \in 0 .. args.fixedRun - 1
  BY DEF E!FixedRunSeconds
<1>4. IsFiniteSet(counted)
  <2>1. IsFiniteSet((1 .. last) \X (0 .. args.total - 1))
    <3>1. 1 \in Int /\ last \in Int /\ 0 \in Int /\ args.total - 1 \in Int BY <1>0
    <3> HIDE DEF last
    <3>2. IsFiniteSet(1 .. last) /\ IsFiniteSet(0 .. args.total - 1) BY <3>1, FS_Interval
    <3>3. QED BY <3>2, FS_Product
  <2>2. counted \in SUBSET ((1 .. last) \X (0 .. args.total - 1)) BY DEF CountedSeconds
  <2>3. QED BY <2>1, <2>2, FS_Subset
<1> HIDE DEF counted, seconds, last
<1>5. second \in Surjection(counted, seconds)
  <2>1. \A p \in counted : p[2] \in seconds BY <1>2, <1>3
  <2>2. \A t \in seconds : \E p \in counted : p[2] = t
    <3> TAKE t \in seconds
    <3>1. PICK i \in DOMAIN showerStarts : t - showerStarts[i] \in 0 .. args.fixedRun - 1
      BY <1>3
    <3>2. <<i, t>> \in counted BY <1>2, <1>3, <3>1
    <3>3. QED BY <3>2
  <2>3. QED BY <2>1, <2>2 DEF Surjection
<1>6. /\ Cardinality(seconds) \in Nat /\ Cardinality(counted) \in Nat
      /\ Cardinality(seconds) <= Cardinality(counted)
      /\ Cardinality(seconds) = Cardinality(counted) <=> second \in Injection(counted, seconds)
  BY <1>4, <1>5, FS_Surjection, FS_CardinalityType
<1>7. E!Overlapping <=> ~(second \in Injection(counted, seconds))
  <2>1. ASSUME E!Overlapping
        PROVE  \E p, q \in counted : p # q /\ p[2] = q[2]
    <3>1. PICK i \in DOMAIN showerStarts, j \in DOMAIN showerStarts :
            i < j /\ showerStarts[j] - showerStarts[i] < args.fixedRun
      BY <2>1 DEF E!Overlapping
    <3>2. i \in Nat /\ j \in Nat BY <1>0 DEF last
    <3>3. showerStarts[i] <= showerStarts[j] BY <1>0, <3>1, <3>2, StartsInOrder
    <3>4. /\ showerStarts[j] \in 0 .. args.total - 1
          /\ showerStarts[j] - showerStarts[i] \in 0 .. args.fixedRun - 1
          /\ showerStarts[j] - showerStarts[j] \in 0 .. args.fixedRun - 1
      BY <1>0, <3>1, <3>3
    <3>5. <<i, showerStarts[j]>> \in counted /\ <<j, showerStarts[j]>> \in counted
      BY <1>2, <3>4
    <3>6. <<i, showerStarts[j]>> # <<j, showerStarts[j]>> BY <3>1, <3>2
    <3>7. QED BY <3>5, <3>6
  <2>2. ASSUME NEW p \in counted, NEW q \in counted, p # q, p[2] = q[2]
        PROVE  E!Overlapping
    <3>1. PICK i \in DOMAIN showerStarts, t \in 0 .. args.total - 1 :
            p = <<i, t>> /\ t - showerStarts[i] \in 0 .. args.fixedRun - 1
      BY <1>2
    <3>2. PICK j \in DOMAIN showerStarts :
            q = <<j, t>> /\ t - showerStarts[j] \in 0 .. args.fixedRun - 1
      BY <1>2, <2>2, <3>1
    <3>3. i # j /\ i \in Nat /\ j \in Nat BY <1>0, <2>2, <3>1, <3>2 DEF last
    <3>4. /\ showerStarts[j] - showerStarts[i] < args.fixedRun
          /\ showerStarts[i] - showerStarts[j] < args.fixedRun
      BY <1>0, <3>1, <3>2
    <3>5. i < j \/ j < i BY <3>3
    <3>6. QED BY <3>4, <3>5 DEF E!Overlapping
  <2>3. second \in Injection(counted, seconds) <=>
          \A p, q \in counted : p[2] = q[2] => p = q
    BY <1>5 DEF Injection, IsInjective, Surjection
  <2>4. QED BY <2>1, <2>2, <2>3
<1>8. QED BY <1>1, <1>6, <1>7 DEF seconds

\* The runtime a report gives for a fixed timer is the time the fan runs on it exactly
\* where no two runs overlap, and too long otherwise (energy_report.py,
\* fixed_time_runtime_seconds).
THEOREM FixedTimeCountsOverlapsTwice == FullSpec => []FixedTimeIsReal
<1>1. FullInit => FixedTimeIsReal
  BY DEF FullInit, E!ReportInit, FixedTimeIsReal, E!FixedTimeIsReal
<1>2. ReportInv /\ FixedTimeIsReal /\ [FullNext]_fullVars => FixedTimeIsReal'
  <2> SUFFICES ASSUME ReportInv, FixedTimeIsReal, [FullNext]_fullVars
               PROVE  FixedTimeIsReal'
    OBVIOUS
  <2>0. UNCHANGED <<args, showerStarts>> =>
          (E!Overlapping' <=> E!Overlapping) /\ E!FixedRunSeconds' = E!FixedRunSeconds
    BY DEF E!Overlapping, E!FixedRunSeconds
  <2>1. CASE E!TakeSample
    <3>1. results' = <<>> BY <2>1 DEF E!TakeSample, E!Running
    <3>2. QED BY <3>1 DEF FixedTimeIsReal, E!FixedTimeIsReal
  <2>2. CASE E!FinishReport
    <3>1. args # E!NoReport /\ UNCHANGED <<args, showerStarts>>
      BY <2>2 DEF E!FinishReport, E!Running
    <3>2. results'[2].runtime = E!FixedTime
      BY <2>2 DEF E!FinishReport, E!MakeResult
    <3>3. IF E!Overlapping' THEN results'[2].runtime > Cardinality(E!FixedRunSeconds')
                            ELSE results'[2].runtime = Cardinality(E!FixedRunSeconds')
      BY <2>0, <3>1, <3>2, SecondsCounted
    <3>4. QED BY <3>3, SameCardinality DEF FixedTimeIsReal, E!FixedTimeIsReal
  <2>3. CASE E!StartReport(DemoReport)
    <3>1. results' = <<>> BY <2>3 DEF E!StartReport
    <3>2. QED BY <3>1 DEF FixedTimeIsReal, E!FixedTimeIsReal
  <2>4. CASE UNCHANGED reportVars
    <3>1. UNCHANGED <<args, showerStarts, results>> BY <2>4 DEF reportVars
    <3>2. QED BY <2>0, <3>1 DEF FixedTimeIsReal, E!FixedTimeIsReal
  <2>5. QED
    BY <2>1, <2>2, <2>3, <2>4 DEF FullNext, Progress, Skip, RunTests, RunDemo, DemoEnded,
       Summarise, DemoStep, RunReport, ReportStep, ReportEnded, DemoFault, ServiceObeys,
       E!ReportNext, fullVars
<1>3. QED BY <1>1, <1>2, ReportInvHolds, PTL DEF FullSpec

=============================================================================
