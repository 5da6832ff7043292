--------------------------- MODULE MCThreadTurns ---------------------------
(***************************************************************************)
(* ThreadLifecycle for TLC under three bounds in one run, of which each    *)
(* behaviour keeps to one: two turns, two rereads at once, or a reread     *)
(* that fails; the latter two in a turn that meets no system error.        *)
(***************************************************************************)
EXTENDS MCThreadLifecycle

VARIABLE concern

Bounded ==
  /\ concern # "rereads" => Cardinality(refreshes) <= 1
  /\ concern # "failure" => failures = 0
  /\ concern # "turns" => codex.turn <= 1 /\ codex.status # "systemError"

TurnsInit == Init /\ concern \in {"turns", "rereads", "failure"}
TurnsNext == Next /\ UNCHANGED concern /\ Bounded'
TurnsSpec == TurnsInit /\ [][TurnsNext]_<<vars, concern>>
=============================================================================
