-------------------------- MODULE ActuationContract --------------------------
(***************************************************************************)
(* What the whole command path promises to a person pressing a button:     *)
(* one idempotency key names one command, and one boot of the device emits *)
(* that command at most once.  No rows, streams, rings or clocks.          *)
(***************************************************************************)
EXTENDS Naturals

CONSTANTS CmdIds, Keys

VARIABLES
  ledger,   \* accepted requests: pairs of a command and its key
  fired     \* emissions of each command since the device booted

contractVars == <<ledger, fired>>

Accepted == {e.id : e \in ledger}

Init ==
  /\ ledger = {}
  /\ fired = [c \in CmdIds |-> 0]

Accept(c, k) ==
  /\ \A e \in ledger : e.id # c /\ e.key # k
  /\ ledger' = ledger \cup {[id |-> c, key |-> k]}
  /\ UNCHANGED fired

Actuate(c) ==
  /\ c \in Accepted
  /\ fired[c] = 0
  /\ fired' = [fired EXCEPT ![c] = 1]
  /\ UNCHANGED ledger

Reboot ==
  /\ fired' = [c \in CmdIds |-> 0]
  /\ UNCHANGED ledger

Next ==
  \/ \E c \in CmdIds, k \in Keys : Accept(c, k)
  \/ \E c \in CmdIds : Actuate(c)
  \/ Reboot

Contract == Init /\ [][Next]_contractVars
==============================================================================
