------------------------------ MODULE Automation ------------------------------
(***************************************************************************)
(* What the two scanners of the automation worker share: the outcomes of   *)
(* dispatchForAutomation, which calls the same dispatchIrAction as the     *)
(* manual route.                                                           *)
(***************************************************************************)
EXTENDS Integers, Sequences, FiniteSets

CONSTANT Outcomes   \* how a dispatch may end

\* Three gates in front of the insert, then the state of the MQTT client.
AllOutcomes ==
  {"state_unavailable", "ir_disabled", "device_offline", "failed_to_publish", "published"}

ASSUME OutcomesAssumption == Outcomes \subseteq AllOutcomes

\* Reported to the caller as dispatched, and in the commands table: a replay and
\* a publish that failed count.
Dispatched(outcome) == outcome \in {"failed_to_publish", "published"}
==============================================================================
