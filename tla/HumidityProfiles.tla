-------------------------- MODULE HumidityProfiles --------------------------
(***************************************************************************)
(* The generators of simulator/simulator/humidity_profiles.py.  A profile  *)
(* is the set of its sample times and, for each of them, the humidities a  *)
(* sample may have.  The noise is any value up to its amplitude, and of    *)
(* the exponential only 1 - x <= exp(-x) <= 1 / (1 + x) is used.           *)
(* Temperatures are constant and every sample is valid.                    *)
(***************************************************************************)
EXTENDS Integers, Sequences, FiniteSetsExt

CONSTANTS
  Baseline, Peak,                \* humidity outside and inside a shower
  RiseStart, RiseTime, Plateau,  \* its stretches, counted from its start
  DecayTime,                     \* decay_time_constant_seconds
  Noise                          \* noise_amplitude_percent

\* What these parameters may be; a module that uses this one assumes it.
ProfileParameters ==
  /\ {Baseline, RiseStart, Plateau, Noise} \subseteq Nat
  /\ {RiseTime, DecayTime} \subseteq Nat \ {0}
  /\ Peak \in Nat /\ Peak >= Baseline

Percent(n) == IF n < 0 THEN 0 ELSE IF n > 100 THEN 100 ELSE n

\* `while t <= total_seconds` in steps of the interval.
Grid(total, interval) == {t \in 0 .. total : t % interval = 0}

PlateauStart == RiseStart + RiseTime
PlateauEnd   == PlateauStart + Plateau

\* What generate_shower_profile computes for time t before the noise.
ShowerLow(t) ==
  LET decayed == t - PlateauEnd
  IN  CASE t < RiseStart -> Baseline
        [] t \in RiseStart .. PlateauStart - 1 ->
             Baseline + ((t - RiseStart) * (Peak - Baseline)) \div RiseTime
        [] t \in PlateauStart .. PlateauEnd - 1 -> Peak
        [] decayed \in 0 .. DecayTime ->
             Baseline + ((DecayTime - decayed) * (Peak - Baseline)) \div DecayTime
        [] OTHER -> Baseline

ShowerHigh(t) ==
  IF t < PlateauEnd THEN ShowerLow(t)
  ELSE Baseline + 1 + (DecayTime * (Peak - Baseline)) \div (DecayTime + t - PlateauEnd)

ShowerHumidities(t) ==
  Percent(ShowerLow(t) - Noise) .. Percent(ShowerHigh(t) + Noise)

\* generate_multi_shower_profile, by_time: the samples of the baseline and those
\* of the showers, where they are not on the baseline's grid.
SampleTimes(total, interval, starts, length) ==
  Grid(total, interval) \cup
    {t \in 0 .. total :
       \E i \in DOMAIN starts : t - starts[i] \in Grid(length, interval)}

\* Mutant: a shower's samples entered at its own time instead of the profile's.
MutantCovering(t, interval, starts, length) ==
  {i \in DOMAIN starts : t \in Grid(length, interval)}

\* The showers with a sample at time t.
Covering(t, interval, starts, length) ==
  {i \in DOMAIN starts : t - starts[i] \in Grid(length, interval)}

\* A later shower overwrites an earlier one, whatever the humidity it brings.
Humidities(t, interval, starts, length) ==
  LET covering == Covering(t, interval, starts, length)
  IN  IF covering = {} THEN {Baseline} ELSE ShowerHumidities(t - starts[Max(covering)])

=============================================================================
