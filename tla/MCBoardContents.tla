--------------------------- MODULE MCBoardContents ---------------------------
(***************************************************************************)
(* Instances of BoardContents for TLC.                                     *)
(***************************************************************************)
EXTENDS BoardContents, TLC

CONSTANTS t1, l1, l2, g1, b1, b2, r1, r2

LabelsOnFirst == [g \in Labels |-> b1]

Symmetry == Permutations(Lists) \cup Permutations(Tasks) \cup Permutations(Requests)

=============================================================================
