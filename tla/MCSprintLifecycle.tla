-------------------------- MODULE MCSprintLifecycle --------------------------
(***************************************************************************)
(* Instances of SprintLifecycle for TLC.                                   *)
(***************************************************************************)
EXTENDS SprintLifecycle, TLC

CONSTANTS s1, s2, s3, t1, t2, u1, u2, b1, b2, r1, r2

\* two boards; the owner of the second is an admin of both
TwoBoards == b1 :> u1 @@ b2 :> u2
SharedAdmins == b1 :> {u1, u2} @@ b2 :> {u2}

\* a PATCH carries no date, or both, in the right order or not
NoDates == {<<None, None>>}
BothDates == {<<None, None>>, <<1, 2>>, <<2, 1>>}

Symmetry == Permutations(Sprints) \cup Permutations(Requests)
SprintSymmetry == Permutations(Sprints)

=============================================================================
