-------------------------- MODULE MCTemperatureRule --------------------------
(* One band, an inverted band the route must refuse, and the rule switched off. *)
EXTENDS TemperatureRule

Band(enabled, on, off, interval) ==
  [enabled |-> enabled, on |-> on, off |-> off,
   minInterval |-> interval, stale |-> 1, suppress |-> 2]

MCRules ==
  {Band(TRUE, 2, 0, 3), Band(FALSE, 2, 0, 3), Band(TRUE, 0, 2, 3)}
==============================================================================
