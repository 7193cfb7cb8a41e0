--------------------------- MODULE MCPasswordReset ---------------------------
(***************************************************************************)
(* Instances of PasswordReset for TLC.                                     *)
(***************************************************************************)
EXTENDS PasswordReset, TLC

CONSTANTS u1, u2, c1, c2, k1, k2, p1, p2

\* a client for each user
TwoClients == c1 :> u1 @@ c2 :> u2
OneClient == c1 :> u1

Symmetry == Permutations(Codes) \cup Permutations(Passwords)

=============================================================================
