------------------------------ MODULE TaskOrder ------------------------------
(***************************************************************************)
(* What the ordering of tasks promises: each list is a sequence of tasks;  *)
(* a task is appended, put somewhere else in its list or in another list,  *)
(* or taken out for good. Nothing else ever changes the order of a list.   *)
(***************************************************************************)
EXTENDS Naturals, Sequences, SequencesExt

CONSTANTS Tasks, Lists

VARIABLES
  order,   \* for each list its tasks, from top to bottom
  retired  \* the tasks that were taken out

ordering == <<order, retired>>

Init ==
  /\ order = [l \in Lists |-> <<>>]
  /\ retired = {}

Placed(t) == \E l \in Lists : t \in ToSet(order[l])

Without(k, i) == [order EXCEPT ![k] = RemoveAt(@, i)]

AppendTask(t, l) ==
  /\ ~ Placed(t) /\ t \notin retired
  /\ order' = [order EXCEPT ![l] = Append(@, t)]
  /\ UNCHANGED retired

(***************************************************************************)
(* The i-th task of list k goes to place j of list l, which may be the     *)
(* same one; the others keep their relative order.                         *)
(***************************************************************************)
Place(k, i, l, j) ==
  /\ order' = [Without(k, i) EXCEPT ![l] = InsertAt(@, j, order[k][i])]
  /\ UNCHANGED retired

Retire(k, i) ==
  /\ order' = Without(k, i)
  /\ retired' = retired \cup {order[k][i]}

Next ==
  \/ \E t \in Tasks, l \in Lists : AppendTask(t, l)
  \/ \E k \in Lists : \E i \in 1 .. Len(order[k]) :
       \/ Retire(k, i)
       \/ \E l \in Lists : \E j \in 1 .. Len(Without(k, i)[l]) + 1 : Place(k, i, l, j)

Spec == Init /\ [][Next]_ordering

=============================================================================
