--------------------------- MODULE MCBoardMembership ---------------------------
(***************************************************************************)
(* Instances of BoardMembership for TLC.                                   *)
(***************************************************************************)
EXTENDS BoardMembership, TLC

CONSTANTS u1, u2, u3, t1, t2, i1, i2, r1, r2

Symmetry ==
  Permutations(Users) \cup Permutations(Tasks) \cup Permutations(Invites)
    \cup Permutations(Requests)

=============================================================================
