---------------------------- MODULE MCSprintPage ----------------------------
(***************************************************************************)
(* Instances of SprintPage for TLC: a user with a board, another with one. *)
(***************************************************************************)
EXTENDS SprintPage

CONSTANTS s1, s2, s3, s4, t1, t2, me, other, b1, b2, page

MyBoard == b1 :> me @@ b2 :> other
MyAdmins == b1 :> {me} @@ b2 :> {other}
NoDates == {<<None, None>>}

Sprint(state) == [state |-> state, owner |-> me, board |-> b1, start |-> 1, end |-> 2]

\* one sprint is active, two are planned, and one is still to be created
OpenedSprint ==
  s1 :> Sprint("ACTIVE") @@ s2 :> Sprint("PLANNED") @@ s3 :> Sprint("PLANNED") @@
  s4 :> NoSprint

\* a task in the active sprint, and one in none
OpenedTask ==
  t1 :> [state |-> "live", board |-> b1, sprint |-> s1, done |-> FALSE] @@
  t2 :> [state |-> "live", board |-> b1, sprint |-> None, done |-> FALSE]

\* everything in the active sprint is done (for ClosesWhatItCounted)
FinishedTask ==
  t1 :> [state |-> "live", board |-> b1, sprint |-> s1, done |-> TRUE] @@
  t2 :> [state |-> "live", board |-> b1, sprint |-> None, done |-> FALSE]

=============================================================================
