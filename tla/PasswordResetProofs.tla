-------------------------- MODULE PasswordResetProofs --------------------------
(***************************************************************************)
(* Proofs about PasswordReset, for any users, clients and codes.           *)
(***************************************************************************)
EXTENDS PasswordReset, TLAPS

\* no two requests are at the codes of a user, or at the password, at the same time
Exclusive ==
  \A c, d \in Clients :
    c # d /\ Affected(c) = Affected(d) /\ InFlight(c) /\ InFlight(d)
      => AboutCode(req[c]) # AboutCode(req[d])

\* a code grants nothing before it is stored
Ungranted ==
  /\ \A k \in Codes : owner[k] = None => grants[k] = 0
  /\ \A c \in Clients : req[c].pc = "store" => grants[req[c].code] = 0

\* what verifyResetCode has read is still so when it writes
Found ==
  \A c \in Clients :
    /\ req[c].pc \in {"forget", "grant"} => code[owner[req[c].code]] = req[c].code
    /\ req[c].pc = "forget" => req[c].code \in old

\* what changePassword has compared is still so when it writes
Compared ==
  \A c \in Clients :
    /\ req[c].pc \in {"compare", "put"} => req[c].code = None
    /\ req[c].pc = "put" => password[UserOf[c]] = req[c].old

-----------------------------------------------------------------------------
(* Types *)

LEMMA BeginReq ==
  ASSUME TypeOK, NEW c \in Clients, NEW u, NEW q \in Request, Begin(c, u, q)
  PROVE  /\ req' \in [Clients -> Request]
         /\ req'[c] = q
         /\ \A d \in Clients \ {c} : req'[d] = req[d]
BY DEF TypeOK, Begin

LEMMA DoneReq ==
  ASSUME TypeOK, NEW c \in Clients, Done(c)
  PROVE  /\ req' \in [Clients -> Request]
         /\ req'[c].pc = "idle" /\ req'[c].code = None
         /\ \A d \in Clients \ {c} : req'[d] = req[d]
BY DEF TypeOK, Done, Idle, Request

LEMMA ThenReq ==
  ASSUME TypeOK, NEW c \in Clients,
         NEW pc \in {"mail", "forget", "grant", "answer", "set", "put"}, Then(c, pc)
  PROVE  /\ req' \in [Clients -> Request]
         /\ req'[c].pc = pc /\ req'[c].code = req[c].code
         /\ req'[c].new = req[c].new /\ req'[c].old = req[c].old
         /\ \A d \in Clients \ {c} : req'[d] = req[d]
<1>1. req[c] \in Request  BY DEF TypeOK
<1>2. [req[c] EXCEPT !.pc = pc] \in Request  BY <1>1 DEF Request
<1> QED  BY <1>1, <1>2 DEF TypeOK, Then, Request

LEMMA SubmitReq ==
  ASSUME TypeOK, NEW c \in Clients, NEW p, SubmitPassword(c, p)
  PROVE  /\ req'[c].pc = "guard" /\ req'[c].code = SentCookie(c)
         /\ \A d \in Clients \ {c} : req'[d] = req[d]
<1> DEFINE q == [Idle EXCEPT !.pc = "guard", !.code = SentCookie(c), !.new = p]
<1>1. q.code = SentCookie(c) /\ q.pc = "guard"
  <2> HIDE DEF SentCookie
  <2> QED  BY DEF Idle
<1>2. Begin(c, Whose(c, SentCookie(c)), q)  BY DEF SubmitPassword
<1> HIDE DEF q
<1> QED  BY <1>1, <1>2 DEF Begin, TypeOK

LEMMA ChangeReq ==
  ASSUME TypeOK, NEW c \in Clients, NEW p, NEW n, BeginChange(c, p, n)
  PROVE  /\ req'[c].pc = "compare" /\ req'[c].code = None
         /\ \A d \in Clients \ {c} : req'[d] = req[d]
<1> DEFINE q == [Idle EXCEPT !.pc = "compare", !.old = p, !.new = n]
<1>1. q.pc = "compare" /\ q.code = None  BY DEF Idle
<1>2. Begin(c, UserOf[c], q)  BY DEF BeginChange
<1> HIDE DEF q
<1> QED  BY <1>1, <1>2 DEF Begin, TypeOK

LEMMA CodeReq ==
  ASSUME TypeOK, NEW c \in Clients, NEW k,
         (\E u \in Users : AskForCode(c, u, k)) \/ EnterCode(c, k)
  PROVE  /\ req'[c].pc \in {"store", "find"}
         /\ \A d \in Clients \ {c} : req'[d] = req[d]
<1>1. ASSUME NEW q, NEW u, q.pc \in {"store", "find"}, Begin(c, u, q)
      PROVE  /\ req'[c].pc \in {"store", "find"}
             /\ \A d \in Clients \ {c} : req'[d] = req[d]
  BY <1>1 DEF Begin, TypeOK
<1>2. ASSUME NEW u \in Users, AskForCode(c, u, k)
      PROVE  /\ req'[c].pc \in {"store", "find"}
             /\ \A d \in Clients \ {c} : req'[d] = req[d]
  <2> DEFINE q == [Idle EXCEPT !.pc = "store", !.code = k]
  <2>1. q.pc = "store" /\ Begin(c, u, q)  BY <1>2 DEF Idle, AskForCode
  <2> HIDE DEF q
  <2> QED  BY <1>1, <2>1
<1>3. CASE EnterCode(c, k)
  <2> DEFINE q == [Idle EXCEPT !.pc = "find", !.code = k]
  <2>1. q.pc = "find" /\ Begin(c, owner[k], q)  BY <1>3 DEF Idle, EnterCode
  <2> HIDE DEF q
  <2> QED  BY <1>1, <2>1
<1> QED  BY <1>2, <1>3

\* The initial states are well typed.
LEMMA TypeInit == Init => TypeOK
BY ResetAssumption DEF Init, TypeOK, Idle, Request, AboutCode

LEMMA TypeStep == TypeOK /\ [Next]_vars => TypeOK'
<1> SUFFICES ASSUME TypeOK, [Next]_vars PROVE TypeOK'
  OBVIOUS
<1> USE ResetAssumption
<1>1. ASSUME NEW c \in Clients, NEW u \in Users, NEW k \in Codes, AskForCode(c, u, k)
      PROVE  TypeOK'
  <2> DEFINE q == [Idle EXCEPT !.pc = "store", !.code = k]
  <2>1. q \in Request /\ q.code = k /\ q.pc = "store"  BY DEF Idle, Request
  <2>2. Begin(c, u, q)  BY <1>1 DEF AskForCode
  <2> HIDE DEF q
  <2>3. /\ req' \in [Clients -> Request]
        /\ req'[c] = q
        /\ \A d \in Clients \ {c} : req'[d] = req[d]
    BY <2>1, <2>2, BeginReq
  <2> QED  BY <1>1, <2>1, <2>3 DEF AskForCode, TypeOK, AboutCode
<1>2. ASSUME NEW c \in Clients, StoreCode(c) PROVE TypeOK'
  <2>1. req[c].code \in Codes /\ owner[req[c].code] \in Users
    BY <1>2 DEF StoreCode, TypeOK, Request, AboutCode
  <2> QED  BY <1>2, <2>1, ThenReq DEF StoreCode, Stored, TypeOK, AboutCode
<1>3. ASSUME NEW c \in Clients, SendMail(c) PROVE TypeOK'
  <2>1. req[c].code \in Codes  BY <1>3 DEF SendMail, TypeOK, Request, AboutCode
  <2> QED  BY <1>3, <2>1, DoneReq DEF SendMail, TypeOK, AboutCode, Idle
<1>4. ASSUME NEW c \in Clients, NEW k \in Codes, EnterCode(c, k) PROVE TypeOK'
  <2> DEFINE q == [Idle EXCEPT !.pc = "find", !.code = k]
  <2>1. q \in Request /\ q.code = k /\ q.pc = "find"  BY DEF Idle, Request
  <2>2. Begin(c, owner[k], q)  BY <1>4 DEF EnterCode
  <2> HIDE DEF q
  <2>3. /\ req' \in [Clients -> Request]
        /\ req'[c] = q
        /\ \A d \in Clients \ {c} : req'[d] = req[d]
    BY <2>1, <2>2, BeginReq
  <2> QED  BY <1>4, <2>1, <2>3 DEF EnterCode, TypeOK, AboutCode
<1>5. ASSUME NEW c \in Clients, FindCode(c) PROVE TypeOK'
  <2>1. CASE Done(c)  BY <1>5, <2>1, DoneReq DEF FindCode, TypeOK, AboutCode, Idle
  <2>2. CASE Then(c, "forget")
    BY <1>5, <2>2, ThenReq DEF FindCode, TypeOK, AboutCode
  <2>3. CASE Then(c, "grant")
    BY <1>5, <2>3, ThenReq DEF FindCode, TypeOK, AboutCode
  <2> QED  BY <1>5, <2>1, <2>2, <2>3 DEF FindCode
<1>6. ASSUME NEW c \in Clients, ForgetCode(c) PROVE TypeOK'
  <2>1. code' \in [Users -> Codes \cup {None}]
    BY <1>6 DEF ForgetCode, Cleared, TypeOK
  <2>2. \A u \in Users : code'[u] # None => owner'[code'[u]] = u
    BY <1>6 DEF ForgetCode, Cleared, TypeOK
  <2> QED  BY <1>6, <2>1, <2>2, DoneReq DEF ForgetCode, TypeOK, AboutCode
<1>7. ASSUME NEW c \in Clients, GrantToken(c) PROVE TypeOK'
  <2>1. req[c].code \in Codes  BY <1>7 DEF GrantToken, TypeOK, Request, AboutCode
  <2>2. grants' \in [Codes -> Nat]  BY <1>7, <2>1 DEF GrantToken, TypeOK
  <2>3. code' \in [Users -> Codes \cup {None}]
    BY <1>7 DEF GrantToken, Cleared, TypeOK
  <2>4. \A u \in Users : code'[u] # None => owner'[code'[u]] = u
    BY <1>7 DEF GrantToken, Cleared, TypeOK
  <2> QED  BY <1>7, <2>2, <2>3, <2>4, ThenReq DEF GrantToken, TypeOK, AboutCode
<1>8. ASSUME NEW c \in Clients, StoreCookie(c) PROVE TypeOK'
  <2>1. req[c].code \in Codes /\ owner[req[c].code] # None
    BY <1>8 DEF StoreCookie, TypeOK, Request, AboutCode
  <2> QED  BY <1>8, <2>1, DoneReq DEF StoreCookie, TypeOK, AboutCode, Idle
<1>9. ASSUME NEW c \in Clients, NEW p \in Passwords, SubmitPassword(c, p) PROVE TypeOK'
  <2> DEFINE q == [Idle EXCEPT !.pc = "guard", !.code = SentCookie(c), !.new = p]
  <2>1. SentCookie(c) \in {jar[c], None} /\ jar[c] \in Codes \cup {None}
    BY DEF SentCookie, TypeOK
  <2>2. /\ q \in Request
        /\ q.code = SentCookie(c) /\ q.pc = "guard" /\ q.new = p
    <3> HIDE DEF SentCookie
    <3> QED  BY <2>1 DEF Idle, Request
  <2>3. Begin(c, Whose(c, SentCookie(c)), q)  BY <1>9 DEF SubmitPassword
  <2> HIDE DEF q
  <2>4. /\ req' \in [Clients -> Request]
        /\ req'[c] = q
        /\ \A d \in Clients \ {c} : req'[d] = req[d]
    BY <2>2, <2>3, BeginReq
  <2> QED  BY <1>9, <2>1, <2>2, <2>4 DEF SubmitPassword, TypeOK, AboutCode
<1>10. ASSUME NEW c \in Clients, PassGuard(c) PROVE TypeOK'
  BY <1>10, ThenReq DEF PassGuard, TypeOK, AboutCode
<1>11. ASSUME NEW c \in Clients, RefuseToken(c) PROVE TypeOK'
  BY <1>11, DoneReq DEF RefuseToken, TypeOK, AboutCode, Idle
<1>12. ASSUME NEW c \in Clients, SetPassword(c) PROVE TypeOK'
  <2>1. req[c].new \in Passwords  BY <1>12 DEF SetPassword, TypeOK
  <2>2. password' \in [Users -> Passwords]  BY <1>12, <2>1 DEF SetPassword, TypeOK
  <2> QED  BY <1>12, <2>2, DoneReq DEF SetPassword, TypeOK, AboutCode
<1>13. ASSUME NEW c \in Clients, NEW p \in Passwords, SignIn(c, p) PROVE TypeOK'
  BY <1>13 DEF SignIn, TypeOK, AboutCode
<1>14. ASSUME NEW c \in Clients, SignOut(c) PROVE TypeOK'
  BY <1>14 DEF SignOut, TypeOK, AboutCode
<1>15. ASSUME NEW c \in Clients, NEW p \in Passwords, NEW n \in Passwords,
              BeginChange(c, p, n)
       PROVE  TypeOK'
  <2> DEFINE q == [Idle EXCEPT !.pc = "compare", !.old = p, !.new = n]
  <2>1. q \in Request /\ q.code = None /\ q.pc = "compare" /\ q.new = n
    BY DEF Idle, Request
  <2>2. Begin(c, UserOf[c], q)  BY <1>15 DEF BeginChange
  <2> HIDE DEF q
  <2>3. /\ req' \in [Clients -> Request]
        /\ req'[c] = q
        /\ \A d \in Clients \ {c} : req'[d] = req[d]
    BY <2>1, <2>2, BeginReq
  <2> QED  BY <1>15, <2>1, <2>3 DEF BeginChange, TypeOK, AboutCode
<1>16. ASSUME NEW c \in Clients, ComparePassword(c) PROVE TypeOK'
  <2>1. CASE Done(c)
    BY <1>16, <2>1, DoneReq DEF ComparePassword, TypeOK, AboutCode
  <2>2. CASE Then(c, "put")
    BY <1>16, <2>2, ThenReq DEF ComparePassword, TypeOK, AboutCode
  <2> QED  BY <1>16, <2>1, <2>2 DEF ComparePassword
<1>17. ASSUME NEW c \in Clients, PutPassword(c) PROVE TypeOK'
  <2>1. req[c].new \in Passwords  BY <1>17 DEF PutPassword, TypeOK
  <2>2. password' \in [Users -> Passwords]  BY <1>17, <2>1 DEF PutPassword, TypeOK
  <2> QED  BY <1>17, <2>2, DoneReq DEF PutPassword, TypeOK, AboutCode
<1>18. ASSUME NEW k \in Codes, ExpireCode(k) \/ LapseToken(k) PROVE TypeOK'
  BY <1>18 DEF ExpireCode, LapseToken, TypeOK, AboutCode
<1>19. ASSUME NEW c \in Clients, Fail(c) PROVE TypeOK'
  <2>1. failures' \in Nat  BY <1>19 DEF Fail, TypeOK
  <2> QED  BY <1>19, <2>1, DoneReq DEF Fail, TypeOK, AboutCode
<1>20. CASE UNCHANGED vars
  BY <1>20 DEF vars, TypeOK, AboutCode
<1> QED
  BY <1>1, <1>2, <1>3, <1>4, <1>5, <1>6, <1>7, <1>8, <1>9, <1>10, <1>11, <1>12,
     <1>13, <1>14, <1>15, <1>16, <1>17, <1>18, <1>19, <1>20
  DEF Next, Accept, Advance

(***************************************************************************)
(* Whatever the clients do at the same time, a code is stored for the user *)
(* it was made for, and a token is for somebody.                           *)
(***************************************************************************)
THEOREM TypeCorrect == Spec => []TypeOK
BY TypeInit, TypeStep, PTL DEF Spec

-----------------------------------------------------------------------------
(* The isolation of the requests about a user *)

CodeStep(c) ==
  \/ \E k \in Codes : EnterCode(c, k) \/ \E u \in Users : AskForCode(c, u, k)
  \/ StoreCode(c) \/ SendMail(c) \/ FindCode(c) \/ ForgetCode(c) \/ GrantToken(c)
  \/ StoreCookie(c)

\* A code that was made stays that of its user.
LEMMA OwnersStay ==
  ASSUME TypeOK, [Next]_vars, NEW k \in Codes, owner[k] # None
  PROVE  owner'[k] = owner[k]
<1>1. ASSUME NEW c \in Clients, NEW u \in Users, NEW j \in Codes, AskForCode(c, u, j)
      PROVE  owner'[k] = owner[k]
  BY <1>1 DEF AskForCode, TypeOK
<1>2. ASSUME UNCHANGED owner PROVE owner'[k] = owner[k]
  BY <1>2
<1> QED
  BY <1>1, <1>2
  DEF Next, Accept, Advance, EnterCode, StoreCode, SendMail, FindCode, ForgetCode,
      GrantToken, StoreCookie, SubmitPassword, PassGuard, RefuseToken, SetPassword,
      SignIn, SignOut, BeginChange, ComparePassword, PutPassword, Fail, ExpireCode,
      LapseToken, vars

\* What a request in flight is about stays so while it moves on.
LEMMA AffectedStays ==
  ASSUME TypeOK, [Next]_vars, NEW c \in Clients, req'[c].code = req[c].code
  PROVE  Affected(c)' = Affected(c)
<1>1. req[c].code \in Codes \cup {None}  BY DEF TypeOK, Request
<1> QED  BY <1>1, OwnersStay DEF TypeOK, Affected, Whose

\* A handler never goes from codes to passwords, nor back.
LEMMA MovesOn ==
  ASSUME TypeOK, [Next]_vars
  PROVE  \/ req' = req
         \/ \E c \in Clients :
              /\ \A d \in Clients \ {c} : req'[d] = req[d]
              /\ \/ \E u : Begin(c, u, req'[c]) /\ Affected(c)' = u
                 \/ req'[c].pc = "idle"
                 \/ /\ InFlight(c) /\ AboutCode(req'[c]) = AboutCode(req[c])
                    /\ req'[c].code = req[c].code
<1> DEFINE Goal == \E c \in Clients :
              /\ \A d \in Clients \ {c} : req'[d] = req[d]
              /\ \/ \E u : Begin(c, u, req'[c]) /\ Affected(c)' = u
                 \/ req'[c].pc = "idle"
                 \/ /\ InFlight(c) /\ AboutCode(req'[c]) = AboutCode(req[c])
                    /\ req'[c].code = req[c].code
<1>1. ASSUME NEW c \in Clients, NEW u, NEW q, Begin(c, u, q), Whose(c, q.code)' = u
      PROVE  Goal
  <2>1. req'[c] = q /\ \A d \in Clients \ {c} : req'[d] = req[d]
    BY <1>1 DEF Begin, TypeOK
  <2>2. Affected(c)' = u  BY <1>1, <2>1 DEF Affected, Whose
  <2> QED  BY <1>1, <2>1, <2>2
<1>2. ASSUME NEW c \in Clients, Done(c) PROVE Goal
  BY <1>2, DoneReq
<1>3. ASSUME NEW c \in Clients,
             NEW pc \in {"mail", "forget", "grant", "answer", "set", "put"}, Then(c, pc),
             InFlight(c), AboutCode([pc |-> pc]) = AboutCode(req[c])
      PROVE  Goal
  BY <1>3, ThenReq DEF AboutCode
<1>4. ASSUME NEW c \in Clients, CodeStep(c) PROVE Goal
  <2>1. ASSUME NEW u \in Users, NEW k \in Codes, AskForCode(c, u, k) PROVE Goal
    <3> DEFINE q == [Idle EXCEPT !.pc = "store", !.code = k]
    <3>1. Begin(c, u, q) /\ owner'[k] = u /\ q.code = k
      BY <2>1 DEF AskForCode, Idle, TypeOK
    <3> HIDE DEF q
    <3>2. Whose(c, q.code)' = u  BY <3>1, ResetAssumption DEF Whose
    <3> HIDE DEF Goal
    <3> QED  BY <1>1, <3>1, <3>2
  <2>2. CASE StoreCode(c)  BY <1>3, <2>2 DEF StoreCode, InFlight, AboutCode
  <2>3. CASE SendMail(c) \/ ForgetCode(c) \/ StoreCookie(c)
    BY <1>2, <2>3 DEF SendMail, ForgetCode, StoreCookie
  <2>4. CASE FindCode(c)
    BY <1>2, <1>3, <2>4 DEF FindCode, InFlight, AboutCode
  <2>5. CASE GrantToken(c)  BY <1>3, <2>5 DEF GrantToken, InFlight, AboutCode
  <2>6. ASSUME NEW k \in Codes, EnterCode(c, k) PROVE Goal
    <3> DEFINE q == [Idle EXCEPT !.pc = "find", !.code = k]
    <3>1. Begin(c, owner[k], q) /\ owner' = owner /\ q.code = k
      BY <2>6 DEF EnterCode, Idle
    <3> HIDE DEF q
    <3>2. Whose(c, q.code)' = owner[k]  BY <3>1, ResetAssumption DEF Whose
    <3> HIDE DEF Goal
    <3> QED  BY <1>1, <3>1, <3>2
  <2> HIDE DEF Goal
  <2> QED  BY <1>4, <2>1, <2>2, <2>3, <2>4, <2>5, <2>6 DEF CodeStep
<1>5. ASSUME NEW c \in Clients, NEW p \in Passwords, NEW n \in Passwords,
             SubmitPassword(c, p) \/ BeginChange(c, p, n)
      PROVE  Goal
  <2>1. CASE SubmitPassword(c, p)
    <3>1. PICK k : k = SentCookie(c)  OBVIOUS
    <3> DEFINE q == [Idle EXCEPT !.pc = "guard", !.code = k, !.new = p]
    <3>2. PICK u : u = Whose(c, k)  OBVIOUS
    <3>3. Begin(c, u, q) /\ owner' = owner  BY <2>1, <3>1, <3>2 DEF SubmitPassword
    <3>4. q.code = k  BY DEF Idle
    <3> HIDE DEF q
    <3>5. Whose(c, q.code)' = u  BY <3>2, <3>3, <3>4 DEF Whose
    <3> HIDE DEF Goal
    <3> QED  BY <1>1, <3>3, <3>5
  <2>2. CASE BeginChange(c, p, n)
    <3> DEFINE q == [Idle EXCEPT !.pc = "compare", !.old = p, !.new = n]
    <3>1. Begin(c, UserOf[c], q) /\ q.code = None  BY <2>2 DEF BeginChange, Idle
    <3> HIDE DEF q
    <3>2. Whose(c, q.code)' = UserOf[c]  BY <3>1 DEF Whose
    <3> HIDE DEF Goal
    <3> QED  BY <1>1, <3>1, <3>2
  <2> QED  BY <1>5, <2>1, <2>2
<1>6. ASSUME NEW c \in Clients,
             RefuseToken(c) \/ SetPassword(c) \/ PutPassword(c) \/ Fail(c)
      PROVE  Goal
  BY <1>2, <1>6 DEF RefuseToken, SetPassword, PutPassword, Fail
<1>7. ASSUME NEW c \in Clients, PassGuard(c) PROVE Goal
  BY <1>3, <1>7 DEF PassGuard, InFlight, AboutCode
<1>8. ASSUME NEW c \in Clients, ComparePassword(c) PROVE Goal
  BY <1>2, <1>3, <1>8 DEF ComparePassword, InFlight, AboutCode
<1>9. ASSUME \/ \E c \in Clients : SignOut(c) \/ \E p \in Passwords : SignIn(c, p)
             \/ \E k \in Codes : ExpireCode(k) \/ LapseToken(k)
             \/ UNCHANGED vars
      PROVE  req' = req
  BY <1>9 DEF SignOut, SignIn, ExpireCode, LapseToken, vars
<1> HIDE DEF Goal
<1>10. req' = req \/ Goal
  BY <1>4, <1>5, <1>6, <1>7, <1>8, <1>9 DEF Next, Accept, Advance, CodeStep
<1> QED  BY <1>10 DEF Goal

LEMMA ExclusiveStep ==
  ASSUME Isolation = "apart", TypeOK, Exclusive, [Next]_vars
  PROVE  Exclusive'
<1>1. CASE req' = req
  BY <1>1, AffectedStays DEF Exclusive, InFlight, AboutCode
<1>2. ASSUME NEW c \in Clients,
             \A d \in Clients \ {c} : req'[d] = req[d],
             \/ \E u : Begin(c, u, req'[c]) /\ Affected(c)' = u
             \/ req'[c].pc = "idle"
             \/ /\ InFlight(c) /\ AboutCode(req'[c]) = AboutCode(req[c])
                /\ req'[c].code = req[c].code
      PROVE  Exclusive'
  <2>1. SUFFICES ASSUME NEW d \in Clients, d # c, InFlight(c)', InFlight(d)',
                        Affected(c)' = Affected(d)'
                 PROVE  AboutCode(req'[c]) # AboutCode(req'[d])
    <3> SUFFICES ASSUME NEW d \in Clients, NEW e \in Clients, d # e,
                        Affected(d)' = Affected(e)', InFlight(d)', InFlight(e)'
                 PROVE  AboutCode(req'[d]) # AboutCode(req'[e])
      BY DEF Exclusive, AboutCode
    <3>1. CASE d # c /\ e # c
      BY <1>2, <3>1, AffectedStays DEF Exclusive, InFlight
    <3> QED  BY <2>1, <3>1
  <2>2. InFlight(d) /\ req'[d] = req[d] /\ Affected(d)' = Affected(d)
    BY <1>2, <2>1, AffectedStays DEF InFlight
  <2>3. CASE \E u : Begin(c, u, req'[c]) /\ Affected(c)' = u
    BY <2>1, <2>2, <2>3 DEF Begin
  <2>4. CASE /\ InFlight(c) /\ AboutCode(req'[c]) = AboutCode(req[c])
             /\ req'[c].code = req[c].code
    <3>1. Affected(c)' = Affected(c)  BY <2>4, AffectedStays
    <3> QED  BY <2>1, <2>2, <2>4, <3>1 DEF Exclusive
  <2> QED  BY <1>2, <2>1, <2>3, <2>4 DEF InFlight
<1> QED  BY <1>1, <1>2, MovesOn

-----------------------------------------------------------------------------
(* The implementation of Recovery *)

\* the steps that do not use codes leave what is known about them alone
LEMMA CodesUntouched ==
  ASSUME Ungranted, Found, UNCHANGED <<code, owner, grants>>, old \subseteq old',
         \A c \in Clients :
           req'[c] = req[c] \/ req'[c].pc \notin {"store", "forget", "grant"}
  PROVE  Ungranted' /\ Found'
BY DEF Ungranted, Found

LEMMA AcceptedStays ==
  ASSUME \A c \in Clients :
           req'[c] = req[c] \/ "grant" \notin {req[c].pc, req'[c].pc}
  PROVE  UNCHANGED Accepted
BY DEF Accepted

\* Of the requests about one user, one at most uses codes.
LEMMA OneAtCodes ==
  ASSUME TypeOK, Exclusive, NEW c \in Clients, NEW d \in Clients, c # d,
         AboutCode(req[c]), AboutCode(req[d])
  PROVE  owner[req[c].code] # owner[req[d].code] /\ req[c].code # req[d].code
<1>1. InFlight(c) /\ InFlight(d)  BY DEF InFlight, AboutCode
<1>2. Affected(c) # Affected(d)  BY <1>1 DEF Exclusive
<1>3. req[c].code # None /\ req[d].code # None  BY DEF TypeOK
<1> QED  BY <1>2, <1>3 DEF Affected, Whose

LEMMA CodesStep ==
  ASSUME Isolation = "apart", TypeOK, Exclusive, Ungranted, Found, [Next]_vars
  PROVE  Ungranted' /\ Found' /\ [Promise!Next]_<<code, old, Accepted, grants>>
<1> USE ResetAssumption
<1> DEFINE Goal == Ungranted' /\ Found' /\ [Promise!Next]_<<code, old, Accepted, grants>>
<1>1. ASSUME NEW c \in Clients, NEW u \in Users, NEW k \in Codes, AskForCode(c, u, k)
      PROVE  Goal
  <2>1. /\ req'[c].pc = "store" /\ req'[c].code = k /\ req[c].pc = "idle"
        /\ \A d \in Clients \ {c} : req'[d] = req[d]
    BY <1>1 DEF AskForCode, Begin, TypeOK, Idle, InFlight
  <2>2. grants[k] = 0  BY <1>1 DEF AskForCode, Ungranted
  <2>3. Ungranted'  BY <1>1, <2>1, <2>2 DEF AskForCode, Ungranted, TypeOK
  <2>4. ASSUME NEW d \in Clients, req'[d].pc \in {"forget", "grant"}
        PROVE  /\ code'[owner'[req'[d].code]] = req'[d].code
               /\ req'[d].pc = "forget" => req'[d].code \in old'
    <3>1. d # c /\ req'[d] = req[d]  BY <2>1, <2>4
    <3>2. req[d].code \in Codes /\ owner[req[d].code] # None
      BY <2>4, <3>1 DEF TypeOK, AboutCode, Request
    <3>3. owner'[req[d].code] = owner[req[d].code]  BY <3>2, OwnersStay
    <3> QED  BY <1>1, <2>4, <3>1, <3>3 DEF AskForCode, Found
  <2>5. Found'  BY <2>4 DEF Found
  <2>6. UNCHANGED Accepted  BY <2>1, AcceptedStays
  <2> QED  BY <1>1, <2>3, <2>5, <2>6 DEF AskForCode
<1>2. ASSUME NEW c \in Clients, StoreCode(c) PROVE Goal
  <2> DEFINE k == req[c].code
             u == owner[k]
  <2>1. u \in Users /\ k \in Codes /\ AboutCode(req[c])
    BY <1>2 DEF StoreCode, TypeOK, Request, AboutCode
  <2>2. /\ req'[c].pc = "mail" /\ req[c].pc = "store"
        /\ \A d \in Clients \ {c} : req'[d] = req[d]
    BY <1>2, ThenReq DEF StoreCode
  <2>3. Ungranted'  BY <1>2, <2>2 DEF StoreCode, Ungranted
  <2>4. ASSUME NEW d \in Clients, req'[d].pc \in {"forget", "grant"}
        PROVE  /\ d # c /\ req'[d] = req[d] /\ owner[req[d].code] # u
               /\ owner[req[d].code] \in Users
    <3>1. d # c /\ req'[d] = req[d]  BY <2>2, <2>4
    <3>2. AboutCode(req[d])  BY <2>4, <3>1 DEF AboutCode
    <3> QED  BY <2>1, <3>1, <3>2, OneAtCodes DEF TypeOK, Request
  <2>5. code' = [code EXCEPT ![u] = k] /\ owner' = owner /\ old' = old
    BY <1>2 DEF StoreCode, Stored
  <2>6. Found'
    <3> HIDE DEF u, k
    <3>1. \A v \in Users : v # u => code'[v] = code[v]  BY <2>5 DEF TypeOK
    <3> QED  BY <2>4, <2>5, <3>1 DEF Found
  <2>7. UNCHANGED Accepted  BY <2>2, AcceptedStays
  <2>8. code[u] \notin Accepted
    <3> SUFFICES ASSUME NEW d \in Clients, req[d].pc = "grant", req[d].code = code[u]
                 PROVE  FALSE
      BY DEF Accepted
    <3>1. d # c /\ AboutCode(req[d])  BY <2>2 DEF AboutCode
    <3>2. req[d].code # None  BY <3>1 DEF TypeOK
    <3>3. owner[req[d].code] = u  BY <2>1, <3>2 DEF TypeOK
    <3> QED  BY <2>1, <3>1, <3>3, OneAtCodes
  <2>9. Promise!Ask(u, k)
    BY <1>2, <2>1, <2>2, <2>5, <2>7, <2>8 DEF StoreCode, Ungranted, Promise!Ask
  <2> QED  BY <2>1, <2>3, <2>6, <2>9 DEF Promise!Next
<1>3. ASSUME NEW c \in Clients, SendMail(c) \/ StoreCookie(c) PROVE Goal
  <2>1. /\ req[c].pc # "grant" /\ req'[c].pc = "idle"
        /\ \A d \in Clients \ {c} : req'[d] = req[d]
    BY <1>3, DoneReq DEF SendMail, StoreCookie
  <2> QED  BY <1>3, <2>1, CodesUntouched, AcceptedStays DEF SendMail, StoreCookie
<1>4. ASSUME NEW c \in Clients, NEW k \in Codes, EnterCode(c, k) PROVE Goal
  <2>1. /\ req[c].pc = "idle" /\ req'[c].pc = "find"
        /\ \A d \in Clients \ {c} : req'[d] = req[d]
    BY <1>4 DEF EnterCode, Begin, TypeOK, Idle, InFlight
  <2> QED  BY <1>4, <2>1, CodesUntouched, AcceptedStays DEF EnterCode
<1>5. ASSUME NEW c \in Clients, FindCode(c) PROVE Goal
  <2> DEFINE k == req[c].code
             u == owner[k]
  <2>1. CASE Done(c)
    <3>1. /\ req[c].pc = "find" /\ req'[c].pc = "idle"
          /\ \A d \in Clients \ {c} : req'[d] = req[d]
      BY <1>5, <2>1, DoneReq DEF FindCode
    <3> QED  BY <1>5, <3>1, CodesUntouched, AcceptedStays DEF FindCode
  <2>2. ASSUME Then(c, IF Expired(k) THEN "forget" ELSE "grant"),
               \E v \in Users : code[v] = k
        PROVE  Goal
    <3>1. u \in Users /\ k \in Codes /\ code[u] = k /\ AboutCode(req[c])
      BY <1>5, <2>2 DEF FindCode, TypeOK, AboutCode, Request
    <3>2. /\ req'[c].pc = (IF k \in old THEN "forget" ELSE "grant")
          /\ req'[c].code = k /\ req[c].pc = "find"
          /\ \A d \in Clients \ {c} : req'[d] = req[d]
      BY <1>5, <2>2, ThenReq DEF Expired, FindCode
    <3>3. UNCHANGED <<code, owner, old, grants>>  BY <1>5 DEF FindCode
    <3>4. Ungranted'  BY <3>2, <3>3 DEF Ungranted
    <3>5. Found'  BY <3>1, <3>2, <3>3 DEF Found
    <3>6. CASE k \in old
      <4>1. UNCHANGED Accepted  BY <3>2, <3>6, AcceptedStays
      <4> QED  BY <3>3, <3>4, <3>5, <4>1
    <3>7. CASE k \notin old
      <4>1. Accepted' = Accepted \cup {k}
        <5> HIDE DEF k
        <5> QED  BY <3>2, <3>7 DEF Accepted
      <4>2. k \notin Accepted
        <5> SUFFICES ASSUME NEW d \in Clients, req[d].pc = "grant", req[d].code = k
                     PROVE  FALSE
          BY DEF Accepted
        <5>1. d # c /\ AboutCode(req[d])  BY <3>2 DEF AboutCode
        <5> QED  BY <3>1, <5>1, OneAtCodes
      <4>3. Promise!Present(u)
        BY <3>1, <3>3, <3>7, <4>1, <4>2 DEF Promise!Present
      <4> QED  BY <3>1, <3>4, <3>5, <4>3 DEF Promise!Next
    <3> QED  BY <3>6, <3>7
  <2> HIDE DEF Goal
  <2> QED  BY <1>5, <2>1, <2>2 DEF FindCode
<1>6. ASSUME NEW c \in Clients, ForgetCode(c) \/ GrantToken(c) PROVE Goal
  <2> DEFINE k == req[c].code
             u == owner[k]
  <2>1. u \in Users /\ k \in Codes /\ code[u] = k /\ AboutCode(req[c])
    BY <1>6 DEF ForgetCode, GrantToken, TypeOK, Request, AboutCode, Found
  <2>2. /\ req'[c].pc \in {"idle", "answer"}
        /\ \A d \in Clients \ {c} : req'[d] = req[d]
    BY <1>6, DoneReq, ThenReq DEF ForgetCode, GrantToken
  <2>3. code' = [code EXCEPT ![u] = None] /\ UNCHANGED <<owner, old>>
    BY <1>6 DEF ForgetCode, GrantToken, Cleared
  <2>4. ASSUME NEW d \in Clients, d # c, AboutCode(req[d])
        PROVE  /\ owner[req[d].code] # u /\ req[d].code # k
               /\ owner[req[d].code] \in Users /\ req[d].code \in Codes
    BY <2>1, <2>4, OneAtCodes DEF TypeOK, Request
  <2>5. Found'
    <3> HIDE DEF u, k
    <3>1. \A v \in Users : v # u => code'[v] = code[v]  BY <2>3 DEF TypeOK
    <3> QED  BY <2>2, <2>3, <2>4, <3>1 DEF Found, AboutCode
  <2>6. CASE ForgetCode(c)
    <3>1. Ungranted'  BY <2>2, <2>6 DEF ForgetCode, Ungranted
    <3>2. UNCHANGED Accepted  BY <2>2, <2>6, AcceptedStays DEF ForgetCode
    <3>3. k \notin Accepted  BY <2>4, <2>6 DEF Accepted, AboutCode, ForgetCode
    <3>4. k \in old  BY <2>6 DEF ForgetCode, Found
    <3>5. Promise!Forget(u)
      BY <2>1, <2>3, <2>6, <3>2, <3>3, <3>4 DEF ForgetCode, Promise!Forget
    <3> QED  BY <2>1, <2>5, <3>1, <3>5 DEF Promise!Next
  <2>7. CASE GrantToken(c)
    <3>1. \A j \in Codes : j # k => grants'[j] = grants[j]
      BY <2>1, <2>7 DEF GrantToken, TypeOK
    <3>2. ASSUME NEW j \in Codes, owner'[j] = None PROVE grants'[j] = 0
      BY <2>1, <2>7, <3>1, <3>2 DEF GrantToken, Ungranted
    <3>3. ASSUME NEW d \in Clients, req'[d].pc = "store" PROVE grants'[req'[d].code] = 0
      <4>1. d # c /\ req'[d] = req[d] /\ req[d].pc = "store"  BY <2>2, <3>3
      <4>2. req[d].code # k /\ req[d].code \in Codes
        BY <2>4, <4>1 DEF AboutCode
      <4> QED  BY <3>1, <4>1, <4>2 DEF Ungranted
    <3>4. Ungranted'  BY <3>2, <3>3 DEF Ungranted
    <3>5. k \in Accepted /\ Accepted' = Accepted \ {k}
      <4>1. req'[c].pc = "answer" /\ req[c].pc = "grant"
        BY <2>7, ThenReq DEF GrantToken
      <4>2. \A d \in Clients : d # c /\ req[d].pc = "grant" => req[d].code # k
        BY <2>4 DEF AboutCode
      <4> QED  BY <2>2, <4>1, <4>2 DEF Accepted
    <3>6. Promise!Grant(u)
      BY <2>1, <2>3, <2>7, <3>5 DEF GrantToken, Promise!Grant
    <3> QED  BY <2>1, <2>5, <3>4, <3>6 DEF Promise!Next
  <2> QED  BY <1>6, <2>6, <2>7
<1>7. ASSUME NEW c \in Clients, NEW p \in Passwords, NEW n \in Passwords,
             SubmitPassword(c, p) \/ BeginChange(c, p, n)
      PROVE  Goal
  <2>1. /\ req[c].pc = "idle" /\ req'[c].pc \in {"guard", "compare"}
        /\ \A d \in Clients \ {c} : req'[d] = req[d]
    <3>1. ~ InFlight(c)  BY <1>7 DEF SubmitPassword, BeginChange, Begin
    <3> QED  BY <1>7, <3>1, SubmitReq, ChangeReq DEF InFlight
  <2> QED
    BY <1>7, <2>1, CodesUntouched, AcceptedStays DEF SubmitPassword, BeginChange
<1>8. ASSUME NEW c \in Clients,
             \/ RefuseToken(c) \/ SetPassword(c) \/ PutPassword(c)
             \/ PassGuard(c) \/ ComparePassword(c)
      PROVE  Goal
  <2>1. /\ req[c].pc # "grant" /\ req'[c].pc \in {"idle", "set", "put"}
        /\ \A d \in Clients \ {c} : req'[d] = req[d]
    BY <1>8, DoneReq, ThenReq
    DEF RefuseToken, SetPassword, PutPassword, PassGuard, ComparePassword
  <2> QED
    BY <1>8, <2>1, CodesUntouched, AcceptedStays
    DEF RefuseToken, SetPassword, PutPassword, PassGuard, ComparePassword
<1>9. ASSUME NEW c \in Clients, Fail(c) PROVE Goal
  <2>1. /\ req'[c].pc = "idle" /\ UNCHANGED <<code, owner, old, grants>>
        /\ \A d \in Clients \ {c} : req'[d] = req[d]
    BY <1>9, DoneReq DEF Fail
  <2>2. Ungranted' /\ Found'  BY <2>1, CodesUntouched
  <2>3. CASE req[c].pc # "grant"
    <3>1. UNCHANGED Accepted  BY <2>1, <2>3, AcceptedStays
    <3> QED  BY <2>1, <2>2, <3>1
  <2>4. CASE req[c].pc = "grant"
    <3> DEFINE k == req[c].code
    <3>1. k \in Codes  BY <2>4 DEF TypeOK, AboutCode, Request
    <3>2. \A d \in Clients : d # c /\ req[d].pc = "grant" => req[d].code # k
      BY <2>4, OneAtCodes DEF AboutCode
    <3>3. k \in Accepted /\ Accepted' = Accepted \ {k}
      BY <2>1, <2>4, <3>2 DEF Accepted
    <3>4. Promise!Abandon(k)  BY <2>1, <3>3 DEF Promise!Abandon
    <3> QED  BY <2>2, <3>1, <3>4 DEF Promise!Next
  <2> QED  BY <2>3, <2>4
<1>10. ASSUME NEW k \in Codes, ExpireCode(k) PROVE Goal
  <2>1. Ungranted' /\ Found'  BY <1>10, CodesUntouched DEF ExpireCode
  <2>2. UNCHANGED Accepted  BY <1>10 DEF ExpireCode, Accepted
  <2>3. Promise!Expire(k)  BY <1>10, <2>2 DEF ExpireCode, Promise!Expire
  <2> QED  BY <2>1, <2>3 DEF Promise!Next
<1>11. ASSUME \/ \E c \in Clients : SignOut(c) \/ \E p \in Passwords : SignIn(c, p)
              \/ \E k \in Codes : LapseToken(k)
              \/ UNCHANGED vars
       PROVE  Goal
  <2>1. UNCHANGED <<code, owner, old, grants, req>>
    BY <1>11 DEF SignOut, SignIn, LapseToken, vars
  <2>2. UNCHANGED Accepted  BY <2>1 DEF Accepted
  <2> QED  BY <2>1, <2>2, CodesUntouched
<1> HIDE DEF Goal
<1>12. Goal
  BY <1>1, <1>2, <1>3, <1>4, <1>5, <1>6, <1>7, <1>8, <1>9, <1>10, <1>11
  DEF Next, Accept, Advance
<1> QED  BY <1>12 DEF Goal

(***************************************************************************)
(* As long as the codes of a user are not used by two requests at the same *)
(* time, forgotPassword and verifyResetCode implement Recovery, whoever    *)
(* sends the requests and whichever of them fail: the newest code works    *)
(* until it is used or expires, and grants one token.                      *)
(***************************************************************************)
THEOREM RecoveryImplemented ==
  ASSUME Isolation = "apart"
  PROVE  Spec => ImplementsRecovery
<1> DEFINE Inv == TypeOK /\ Exclusive /\ Ungranted /\ Found
<1>1. Init => Inv /\ Promise!Init
  BY TypeInit
  DEF Init, Exclusive, Ungranted, Found, InFlight, Idle, Accepted, Promise!Init
<1>2. Inv /\ [Next]_vars => Inv' /\ [Promise!Next]_<<code, old, Accepted, grants>>
  BY TypeStep, ExclusiveStep, CodesStep
<1> HIDE DEF Inv
<1> QED  BY <1>1, <1>2, PTL DEF Spec, ImplementsRecovery, Promise!Spec, Promise!vars

-----------------------------------------------------------------------------
(* Passwords *)

LEMMA ComparedStep ==
  ASSUME Isolation = "apart", TypeOK, Exclusive, Compared, [Next]_vars
  PROVE  Compared'
<1> USE ResetAssumption
<1>1. ASSUME UNCHANGED password,
             \A c \in Clients : req'[c] = req[c] \/ req'[c].pc \notin {"compare", "put"}
      PROVE  Compared'
  BY <1>1 DEF Compared
<1>2. ASSUME NEW c \in Clients, CodeStep(c) PROVE Compared'
  <2>1. UNCHANGED password
    BY <1>2 DEF CodeStep, AskForCode, EnterCode, StoreCode, SendMail, FindCode,
                ForgetCode, GrantToken, StoreCookie
  <2>2. CASE \E k \in Codes : EnterCode(c, k) \/ \E u \in Users : AskForCode(c, u, k)
    BY <1>1, <2>1, <2>2, CodeReq
  <2>3. CASE \/ StoreCode(c) \/ SendMail(c) \/ FindCode(c) \/ ForgetCode(c)
             \/ GrantToken(c) \/ StoreCookie(c)
    <3>1. Done(c) \/ \E pc \in {"mail", "forget", "grant", "answer"} : Then(c, pc)
      BY <2>3 DEF StoreCode, SendMail, FindCode, ForgetCode, GrantToken, StoreCookie
    <3> QED  BY <1>1, <2>1, <3>1, DoneReq, ThenReq
  <2> QED  BY <1>2, <2>2, <2>3 DEF CodeStep
<1>3. ASSUME NEW c \in Clients, NEW p \in Passwords, NEW n \in Passwords,
             SubmitPassword(c, p) \/ BeginChange(c, p, n)
      PROVE  Compared'
  <2>1. UNCHANGED password  BY <1>3 DEF SubmitPassword, BeginChange
  <2>2. CASE SubmitPassword(c, p)  BY <1>1, <2>1, <2>2, SubmitReq
  <2>3. CASE BeginChange(c, p, n)  BY <2>1, <2>3, ChangeReq DEF Compared
  <2> QED  BY <1>3, <2>2, <2>3
<1>4. ASSUME NEW c \in Clients, PassGuard(c) \/ RefuseToken(c) \/ Fail(c) PROVE Compared'
  BY <1>1, <1>4, DoneReq, ThenReq DEF PassGuard, RefuseToken, Fail
<1>5. ASSUME NEW c \in Clients, SetPassword(c) \/ PutPassword(c) PROVE Compared'
  <2>1. /\ InFlight(c) /\ ~ AboutCode(req[c])
        /\ \A v \in Users : v # Affected(c) => password'[v] = password[v]
    BY <1>5 DEF SetPassword, PutPassword, TypeOK, AboutCode, InFlight, Compared,
                Affected, Whose
  <2>2. req'[c].pc = "idle" /\ \A d \in Clients \ {c} : req'[d] = req[d]
    BY <1>5, DoneReq DEF SetPassword, PutPassword
  <2>3. ASSUME NEW d \in Clients, d # c, req[d].pc = "put"
        PROVE  UserOf[d] # Affected(c)
    <3>1. Affected(d) = UserOf[d]  BY <2>3 DEF Compared, Affected, Whose
    <3>2. InFlight(d) /\ ~ AboutCode(req[d])  BY <2>3 DEF InFlight, AboutCode
    <3> QED  BY <2>1, <2>3, <3>1, <3>2 DEF Exclusive, AboutCode
  <2> QED  BY <2>1, <2>2, <2>3 DEF Compared
<1>6. ASSUME NEW c \in Clients, ComparePassword(c) PROVE Compared'
  <2>1. UNCHANGED password  BY <1>6 DEF ComparePassword
  <2>2. CASE Done(c)  BY <1>1, <2>1, <2>2, DoneReq
  <2>3. CASE Then(c, "put") /\ Matches(req[c], password[UserOf[c]])
    BY <1>6, <2>1, <2>3, ThenReq DEF ComparePassword, Matches, Compared
  <2> QED  BY <1>6, <2>2, <2>3 DEF ComparePassword
<1>7. ASSUME \/ \E c \in Clients : SignOut(c) \/ \E p \in Passwords : SignIn(c, p)
             \/ \E k \in Codes : ExpireCode(k) \/ LapseToken(k)
             \/ UNCHANGED vars
      PROVE  Compared'
  BY <1>7 DEF SignOut, SignIn, ExpireCode, LapseToken, vars, Compared
<1> QED
  BY <1>2, <1>3, <1>4, <1>5, <1>6, <1>7 DEF Next, Accept, Advance, CodeStep

(***************************************************************************)
(* As long as the password of a user is not set by two requests at the     *)
(* same time, changePassword replaces the password it has compared.        *)
(***************************************************************************)
THEOREM ChangeIsFromOld ==
  ASSUME Isolation = "apart"
  PROVE  Spec => ChangeReplacesOld
<1> DEFINE Inv == TypeOK /\ Exclusive /\ Compared
           Step == \A c \in Clients : PutPassword(c) => password[UserOf[c]] = req[c].old
<1>1. Init => Inv
  BY TypeInit DEF Init, Exclusive, Compared, InFlight, Idle
<1>2. Inv /\ [Next]_vars => Inv' /\ [Step]_vars
  BY TypeStep, ExclusiveStep, ComparedStep DEF Compared, PutPassword
<1> HIDE DEF Inv, Step
<1>3. Spec => [][Step]_vars
  BY <1>1, <1>2, PTL DEF Spec
<1> QED  BY <1>3 DEF ChangeReplacesOld, Step

=============================================================================
