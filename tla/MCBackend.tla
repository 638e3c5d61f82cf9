------------------------------- MODULE MCBackend -------------------------------
(***************************************************************************)
(* One run for the command pipeline and the schedules of the backend.  The *)
(* schedules reach the pipeline only through dispatchIrAction, whose       *)
(* outcomes are given to them; the two share no state: program says which  *)
(* one an execution is about, the other stays at rest.                     *)
(***************************************************************************)
EXTENDS MCCommandPipeline, MCSchedules

VARIABLE program

BackendInit ==
  /\ program \in {"pipeline", "schedules"}
  /\ Init /\ SchedulesInit

BackendNext ==
  /\ UNCHANGED program
  /\ \/ program = "pipeline" /\ Next /\ UNCHANGED schedulesVars
     \/ program = "schedules" /\ SchedulesNext /\ UNCHANGED vars

BackendSpec == BackendInit /\ [][BackendNext]_<<program, vars, schedulesVars>>

\* Every variable of the two has its type.
PipelineAndSchedulesTypeOK == TypeOK /\ SchedulesTypeOK
==============================================================================
