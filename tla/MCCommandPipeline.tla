-------------------------- MODULE MCCommandPipeline --------------------------
(* Model values and symmetry for the runs of CommandPipeline. *)
EXTENDS CommandPipeline, TLC

Symmetry == Permutations(CmdIds) \cup Permutations(Keys)
==============================================================================
