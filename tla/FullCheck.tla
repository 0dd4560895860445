------------------------------ MODULE FullCheck ------------------------------
(***************************************************************************)
(* What a developer runs: scripts/run_full_check.py, or an energy report   *)
(* with arguments of his own.  The check's five steps are child processes. *)
(* The end-to-end demonstration is module Demo, and the report it runs in  *)
(* its turn is module EnergyReport; the firmware's tests, those of the two *)
(* packages, and the check's own report end as they like.                  *)
(***************************************************************************)
EXTENDS Demo

CONSTANTS
  ReportMinFanOn, ReportMinFanOff, ReportMaxRuntime,  \* of defaults.yaml
  Baseline, Peak, RiseStart, RiseTime, Plateau, DecayTime, Noise, DayLength,
  DemoReport,      \* arguments the demonstration gives
  Reports          \* arguments a developer may give

VARIABLES
  check,   \* the next step, all_ok so far, and the exit code
  docker,  \* have("docker")
  args, showerStarts, sampleTime, fan, onTime, results, realOnTime, lastOnAt

checkVars == <<check, docker>>

E == INSTANCE EnergyReport WITH
       MinFanOn <- ReportMinFanOn, MinFanOff <- ReportMinFanOff,
       MaxRuntime <- ReportMaxRuntime

ASSUME FullCheckAssumption ==
  /\ E!ReportParameters
  /\ {ReportMinFanOn, ReportMinFanOff} \subseteq Nat
  /\ ReportMaxRuntime \in Nat \ {0}
  /\ {DemoReport} \cup Reports \subseteq
       [total : Nat, showers : Nat, length : Nat, fixedRun : Nat, interval : Nat \ {0}]

reportVars ==
  <<args, showerStarts, sampleTime, fan, onTime, results, realOnTime, lastOnAt>>
fullVars   == <<demoVars, checkVars, reportVars>>

NoCheck == [step |-> "none", allOk |-> TRUE, code |-> "none"]

FullInit ==
  /\ DemoInit
  /\ \/ /\ check = [NoCheck EXCEPT !.step = "firmware"]
        /\ docker \in BOOLEAN
        /\ E!ReportInit(E!NoReport)
     \/ /\ check = NoCheck
        /\ docker = FALSE
        /\ \E a \in Reports : E!ReportInit(a)

-----------------------------------------------------------------------------
(* The check *)

After(step) ==
  [firmware |-> "automation", automation |-> "simulator", simulator |-> "demo",
   demo |-> "energy", energy |-> "summary"][step]

\* A step is over, and was a failure or not.
Recorded(ok) == [check EXCEPT !.step = After(@), !.allOk = @ /\ ok]

\* A step that cannot be made is no failure.
Skip ==
  /\ check.step \in {"firmware", "demo"}
  /\ ~docker
  /\ check' = Recorded(TRUE)
  /\ UNCHANGED <<demoVars, docker, reportVars>>

\* A child's return code is 0, or not; an exception of run counts as the latter.
\* The firmware's tests need no Docker where there is PlatformIO.
RunTests ==
  /\ check.step \in {"firmware", "automation", "simulator", "energy"}
  /\ \E ok \in BOOLEAN : check' = Recorded(ok)
  /\ UNCHANGED <<demoVars, docker, reportVars>>

RunDemo ==
  /\ check.step = "demo"
  /\ docker
  /\ LaunchDemo
  /\ UNCHANGED <<checkVars, reportVars>>

DemoEnded ==
  /\ check.step = "demo"
  /\ Exited
  /\ check' = Recorded(demo.code = "ok")
  /\ UNCHANGED <<demoVars, docker, reportVars>>

Summarise ==
  /\ check.step = "summary"
  /\ check' = [check EXCEPT !.step = "none",
                            !.code = IF check.allOk THEN "ok" ELSE "failed"]
  /\ UNCHANGED <<demoVars, docker, reportVars>>

-----------------------------------------------------------------------------
(* The demonstration and its report *)

DemoStep ==
  /\ ScriptStep \/ WorldStep
  /\ UNCHANGED <<checkVars, reportVars>>

DemoFault ==
  /\ InDemo
  /\ CrashService \/ ReportReturned(FALSE)
  /\ UNCHANGED <<checkVars, reportVars>>

\* terminate may take its time; if it does not end it is killed.
ServiceObeys ==
  /\ ServiceExits
  /\ UNCHANGED <<checkVars, reportVars>>

RunReport ==
  /\ At("report")
  /\ args = E!NoReport
  /\ E!StartReport(DemoReport)
  /\ UNCHANGED <<demoVars, checkVars>>

ReportStep ==
  /\ E!ReportNext
  /\ UNCHANGED <<demoVars, checkVars>>

ReportEnded ==
  /\ E!Reported
  /\ ReportReturned(TRUE)
  /\ UNCHANGED <<checkVars, reportVars>>

\* All but the faults and the moment at which the service gives way to SIGTERM.
Progress ==
  \/ Skip \/ RunTests \/ RunDemo \/ DemoEnded \/ Summarise
  \/ DemoStep \/ RunReport \/ ReportStep \/ ReportEnded

FullNext == Progress \/ DemoFault \/ ServiceObeys

FullSpec == FullInit /\ [][FullNext]_fullVars /\ WF_fullVars(Progress)

-----------------------------------------------------------------------------
(* Properties *)

\* Whatever fails or never answers, what was started ends (run_e2e_demo.py,
\* wait_until, wait_for_broker, stop_automation_service).
EverythingEnds ==
  <>(~InDemo /\ (check.code # "none" \/ E!Reported))

\* The same of a report (module EnergyReport), in whichever process.
CountedTimeIsReal == E!CountedTimeIsReal
FixedTimeIsReal   == E!FixedTimeIsReal
ShowersVentilated == E!ShowersVentilated

=============================================================================
