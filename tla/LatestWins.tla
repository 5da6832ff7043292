----------------------------- MODULE LatestWins -----------------------------
(***************************************************************************)
(* What every cache of this system promises its readers: values are        *)
(* published under stamps that only grow, and a closed cell is never       *)
(* written again.  Which stamp is a request's generation, and when a cell  *)
(* is closed, is said by the modules that implement this one.              *)
(***************************************************************************)
EXTENDS Integers

CONSTANTS Values, Initial

VARIABLES value, stamp, closed

cellVars == <<value, stamp, closed>>

Init == value = Initial /\ stamp = 0 /\ closed = FALSE

Publish ==
  /\ ~closed
  /\ stamp' \in Nat
  /\ stamp' > stamp
  /\ value' \in Values
  /\ UNCHANGED closed

Close == ~closed /\ closed' = TRUE /\ UNCHANGED <<value, stamp>>

Next == Publish \/ Close

Spec == Init /\ [][Next]_cellVars
=============================================================================
