----------------------------- MODULE MCSchedules -----------------------------
(* A week of two days of two minutes each; the clock runs over the first    *)
(* day into the second.  A one-shot and a recurring schedule; patches move  *)
(* a schedule to the other's minute, arm it again or change its kind.       *)
EXTENDS Schedules

Request(slot, days, oneShot) ==
  [enabled |-> TRUE, slot |-> slot, days |-> days, oneShot |-> oneShot, lastFired |-> Never]

MCRequests == {Request(0, {0, 1}, TRUE), Request(1, {0}, FALSE)}
MCPatches  == {{"slot"}, {"enabled"}, {"slot", "oneShot"}}
==============================================================================
