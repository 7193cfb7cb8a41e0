------------------------------- MODULE Recovery -------------------------------
(***************************************************************************)
(* What the codes for a forgotten password promise: who presents the       *)
(* newest code of a user before it expires, and nobody else, gets a token, *)
(* and gets one.                                                           *)
(***************************************************************************)
EXTENDS Naturals

CONSTANTS Users, Codes, None

VARIABLES
  newest,    \* for each user the code that works
  old,       \* the codes that have expired
  accepted,  \* the codes that were presented in time and have no token yet
  grants     \* how many tokens each code has granted

vars == <<newest, old, accepted, grants>>

Init ==
  /\ newest = [u \in Users |-> None]
  /\ old = {} /\ accepted = {}
  /\ grants = [k \in Codes |-> 0]

\* a new code takes the place of the one before
Ask(u, k) ==
  /\ grants[k] = 0 /\ newest[u] \notin accepted
  /\ newest' = [newest EXCEPT ![u] = k]
  /\ UNCHANGED <<old, accepted, grants>>

Present(u) ==
  /\ newest[u] \notin {None} \cup old \cup accepted
  /\ accepted' = accepted \cup {newest[u]}
  /\ UNCHANGED <<newest, old, grants>>

\* a code that expires from now on was presented in time
Grant(u) ==
  /\ newest[u] \in accepted
  /\ accepted' = accepted \ {newest[u]}
  /\ newest' = [newest EXCEPT ![u] = None]
  /\ grants' = [grants EXCEPT ![newest[u]] = @ + 1]
  /\ UNCHANGED old

\* what accepted it broke down: the code may be presented again
Abandon(k) ==
  /\ k \in accepted
  /\ accepted' = accepted \ {k}
  /\ UNCHANGED <<newest, old, grants>>

\* an expired code is forgotten when somebody tries it
Forget(u) ==
  /\ newest[u] \in old \ accepted
  /\ newest' = [newest EXCEPT ![u] = None]
  /\ UNCHANGED <<old, accepted, grants>>

Expire(k) ==
  /\ old' = old \cup {k}
  /\ UNCHANGED <<newest, accepted, grants>>

Next ==
  \/ \E u \in Users : Present(u) \/ Grant(u) \/ Forget(u) \/ \E k \in Codes : Ask(u, k)
  \/ \E k \in Codes : Abandon(k) \/ Expire(k)

Spec == Init /\ [][Next]_vars

=============================================================================
