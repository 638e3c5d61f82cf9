---------------------------- MODULE BackendProofs ----------------------------
(***************************************************************************)
(* The theorems of the pipeline and of the schedules hold of the run that  *)
(* combines them (MCBackend): the two share no state, so each behaves as   *)
(* it does alone.                                                          *)
(***************************************************************************)
EXTENDS MCBackend, CommandPipelineProofs, SchedulesProofs

\* A step of the run is one of the pipeline's and one of the schedules', one of
\* which is no step at all.
LEMMA OneProgramSteps ==
    ASSUME [BackendNext]_<<program, vars, schedulesVars>>
    PROVE  [Next]_vars /\ [SchedulesNext]_schedulesVars
  BY Zenon DEF BackendNext

\* Every behaviour of the run is one of the pipeline and one of the schedules.
LEMMA BothRun == BackendSpec => Spec /\ SchedulesSpec
<1>1. BackendInit => Init /\ SchedulesInit
  BY DEF BackendInit
<1>2. [BackendNext]_<<program, vars, schedulesVars>>
        => [Next]_vars /\ [SchedulesNext]_schedulesVars
  BY OneProgramSteps
<1>. QED
  BY <1>1, <1>2, PTL DEF BackendSpec, Spec, SchedulesSpec

\* Every variable of bridge, links, device and schedules has its type.
THEOREM BackendTyped == BackendSpec => []PipelineAndSchedulesTypeOK
  BY BothRun, Typing, SchedulesTyped, PTL DEF PipelineAndSchedulesTypeOK

\* The pipeline emits no more than it was asked to, the rows tell no more than
\* happened, and every schedule publishes once, and tries once, a minute.
THEOREM BackendIsTrue ==
    BackendSpec => []( /\ EmissionBudget /\ OneEmissionPerKey /\ OutcomeTruth
                       /\ AtMostOncePerMinute /\ NoRetryStorm /\ OneShotOnce
                       /\ KeysAreOwn /\ NoMissedFiring )
  BY BothRun, Budget, OnePerKey, OutcomesAreTrue, MinuteOnce, NoStorm, ShotOnce, OwnKeys,
     NoneMissed, PTL

\* The device emits nothing after its time, and nothing again that it remembers.
THEOREM BackendEmitsInTime == BackendSpec => EmissionIsTimely /\ ReplayNeedsEviction
  BY BothRun, Timely, NeedsEviction, PTL

=============================================================================
