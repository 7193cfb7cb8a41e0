----------------------------- MODULE MCBoardPage -----------------------------
(***************************************************************************)
(* Instances of BoardPage for TLC: one board with two columns.             *)
(***************************************************************************)
EXTENDS BoardPage

CONSTANTS t1, t2, t3, l1, l2, b1, me, other

FreeBoardOf == l1 :> b1 @@ l2 :> b1
FreeColumns == l1 :> None @@ l2 :> None

At(l, p) == [state |-> "live", list |-> l, position |-> p, status |-> DONE,
             completed |-> TRUE]

\* two tasks in the first column; the others are still to be created
OpenedRow ==
  [t \in Tasks |-> CASE t = t1 -> At(l1, 0) [] t = t2 -> At(l1, 1) [] OTHER -> NoRow]

=============================================================================
