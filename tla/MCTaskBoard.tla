----------------------------- MODULE MCTaskBoard -----------------------------
(***************************************************************************)
(* Instances of TaskBoard for TLC.                                         *)
(***************************************************************************)
EXTENDS TaskBoardOrder, TLC

CONSTANTS t1, t2, t3, l1, l2, l3, b1, b2, TODO, r1, r2

\* one board, two free columns
FreeBoardOf == l1 :> b1 @@ l2 :> b1
FreeColumns == l1 :> None @@ l2 :> None

\* one board, a TODO and a DONE column
PairBoardOf == l1 :> b1 @@ l2 :> b1
PairColumns == l1 :> TODO @@ l2 :> DONE

\* a board with a TODO and a DONE column, and another board with a DONE column
MappedBoardOf == l1 :> b1 @@ l2 :> b1 @@ l3 :> b2
MappedColumns == l1 :> TODO @@ l2 :> DONE @@ l3 :> DONE

\* a client that sends a negative position
BelowZero == -1

\* without the log, which no handler reads (VIEW)
Tables == <<row, [r \in Requests |-> [req[r] EXCEPT !.entry = Entry(None)]], failures>>

\* free columns are alike; mapped columns are not
FreeSymmetry ==
  Permutations(Tasks) \cup Permutations({l1, l2}) \cup Permutations(Requests)
MappedSymmetry == Permutations(Tasks) \cup Permutations(Requests)

=============================================================================
