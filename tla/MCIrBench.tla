------------------------------- MODULE MCIrBench -------------------------------
(***************************************************************************)
(* One run for the programs that talk to the ESP8266 of the bench over its *)
(* serial line.  The port belongs to one program at a time: program says   *)
(* which, the others stay at rest, where the actions their fairness is     *)
(* about are not enabled.                                                  *)
(***************************************************************************)
EXTENDS LearningStudio, SimpleLearner, ReplayOnce, ExportAssembly

VARIABLE program

AtRest ==
    /\ program # "replay" => ram = [staged |-> <<>>, committed |-> <<>>, sent |-> <<>>]
    /\ program # "export" => /\ tool = "simple" /\ sent = <<1>> /\ ~harmed
                             /\ Len(wire) = 3

Init ==
    /\ program \in {"studio", "learner", "replay", "export"}
    /\ StudioInit /\ LearnerInit /\ ReplayInit /\ ExportInit
    /\ AtRest

Next ==
    /\ UNCHANGED program
    /\ \/ /\ program = "studio" /\ StudioNext
          /\ UNCHANGED <<learnerVars, replayVars, exportVars>>
       \/ /\ program = "learner" /\ LearnerNext
          /\ UNCHANGED <<studioVars, confirmed, replayVars, exportVars>>
       \/ /\ program = "replay" /\ ReplayNext
          /\ UNCHANGED <<allStudioVars, learnerVars, exportVars>>
       \/ /\ program = "export" /\ ExportNext
          /\ UNCHANGED <<allStudioVars, learnerVars, replayVars>>

Spec ==
    /\ Init
    /\ [][Next]_<<program, allStudioVars, learnerVars, replayVars, exportVars>>
    /\ StudioFairness /\ LearnerFairness

\* Every variable of the four programs has its type.
BenchTypeOK ==
    /\ StudioTypeOK /\ LearnerTypeOK /\ ReplayTypeOK
    /\ ExportTypeOK

=============================================================================
