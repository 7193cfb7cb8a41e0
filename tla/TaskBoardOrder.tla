---------------------------- MODULE TaskBoardOrder ----------------------------
(***************************************************************************)
(* The positions of TaskBoard implement the sequences of TaskOrder.        *)
(***************************************************************************)
EXTENDS TaskBoard

(***************************************************************************)
(* Once the others have stepped aside, a task that is being reordered      *)
(* counts as standing at its new position already: ShiftOthers is the step *)
(* that reorders the list and SetPosition only makes it visible.           *)
(***************************************************************************)
EffectivePosition(t) ==
  IF \E r \in Requests : req[r].pc = "set" /\ req[r].task = t
  THEN req[CHOOSE r \in Requests : req[r].pc = "set" /\ req[r].task = t].position
  ELSE row[t].position

\* None stands for a gap
TaskAt(l, p) ==
  IF \E t \in Live(l) : EffectivePosition(t) = p
  THEN CHOOSE t \in Live(l) : EffectivePosition(t) = p
  ELSE None

\* positions begin with 0, sequences with 1
InOrder(l) == [i \in 1 .. Cardinality(Live(l)) |-> TaskAt(l, i - 1)]

Order == INSTANCE TaskOrder WITH
           order <- [l \in Lists |-> InOrder(l)],
           retired <- {t \in Tasks : row[t].state = "deleted"}

(***************************************************************************)
(* On lists without mapped status, while no two requests in flight touch   *)
(* the same list and no update carries a listId (which would write it and  *)
(* leave the position alone), the handlers of TaskService create, reorder, *)
(* move and delete tasks exactly as the operations of an ordered list do,  *)
(* for every place a client drops a task at, in the same list or another.  *)
(***************************************************************************)
ImplementsTaskOrder == Order!Spec

=============================================================================
