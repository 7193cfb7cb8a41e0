----------------------------- MODULE PasswordReset -----------------------------
(***************************************************************************)
(* Forgotten and changed passwords: AuthService (back-end/src/auth/        *)
(* auth.service.ts), ResetPasswordGuard, what AuthController does with the *)
(* cookie, and the pages of the front end that call them.                  *)
(*                                                                         *)
(* A user asks for a code, which comes by mail, exchanges the code for a   *)
(* token in a cookie, and sets a password with the token. Code and token   *)
(* expire 15 minutes after they were made, at any moment as far as the     *)
(* model goes. A client sends one request at a time, a user may have       *)
(* several clients, and any client may ask for and enter the code of any   *)
(* user: nobody is signed in, and a code is looked up by itself.           *)
(*                                                                         *)
(* A token is named after its code. Codes are 6 random bytes: that two are *)
(* equal is left out.                                                      *)
(***************************************************************************)
EXTENDS Naturals

CONSTANTS
  Users, Codes, Passwords, None,
  Clients,     \* browsers, or programs that call the API
  UserOf,      \* whose client it is
  PageClients, \* the clients that use the pages of the front end
  Isolation,   \* "apart": requests in flight are about different columns or users; or "none"
  MaxFailures  \* bound: how many handlers or answers may be lost

ASSUME ResetAssumption ==
  /\ UserOf \in [Clients -> Users] /\ PageClients \subseteq Clients
  /\ None \notin Users \cup Codes
  /\ Isolation \in {"apart", "none"}
  /\ MaxFailures \in Nat

VARIABLES
  code,      \* User.resetToken
  password,  \* User.passwordHash
  owner,     \* for each code the user it was made for, None if it is not made yet
  old,       \* the codes that have expired (User.resetTokenExpiresAt)
  mailed,    \* the codes that were sent by mail
  lapsed,    \* the codes whose token has expired
  jar,       \* for each client the cookie "reset-token"
  signedIn,  \* the clients with a session
  req,       \* for each client what its request is about to do, and what it remembers
  failures,  \* how many handlers or answers were lost
  grants     \* history: how many tokens were made for each code

vars == <<code, password, owner, old, mailed, lapsed, jar, signedIn, req, failures, grants>>

Request == [pc: {"idle", "store", "mail", "find", "forget", "grant", "answer",
                 "guard", "set", "compare", "put"},
            code: Codes \cup {None}, old: Passwords \cup {None}, new: Passwords \cup {None}]

Idle == [pc |-> "idle", code |-> None, old |-> None, new |-> None]

Init ==
  /\ code = [u \in Users |-> None]
  /\ password \in [Users -> Passwords]
  /\ owner = [k \in Codes |-> None]
  /\ old = {} /\ mailed = {} /\ lapsed = {}
  /\ jar = [c \in Clients |-> None]
  /\ signedIn = {}
  /\ req = [c \in Clients |-> Idle]
  /\ failures = 0
  /\ grants = [k \in Codes |-> 0]

InFlight(c) == req[c].pc # "idle"

AboutCode(q) == q.pc \in {"store", "mail", "find", "forget", "grant", "answer"}

\* whose row a code or a token is about; without one, that of the client itself
Whose(c, k) == IF k = None THEN UserOf[c] ELSE owner[k]

Affected(c) == Whose(c, req[c].code)

(***************************************************************************)
(* Isolation is no mechanism of the code: with "apart" the codes of one    *)
(* user are not used by two requests at the same time, nor is the password *)
(* of one user set by two.                                                 *)
(***************************************************************************)
Begin(c, u, q) ==
  /\ ~ InFlight(c)
  /\ Isolation = "apart" =>
       \A d \in Clients : InFlight(d) /\ Affected(d) = u => AboutCode(req[d]) # AboutCode(q)
  /\ req' = [req EXCEPT ![c] = q]

Then(c, pc) == req' = [req EXCEPT ![c].pc = pc]
Done(c) == req' = [req EXCEPT ![c] = Idle]

-----------------------------------------------------------------------------
(* forgotPassword *)

\* findUnique, and a new code that expires in 15 minutes
AskForCode(c, u, k) ==
  /\ owner[k] = None
  /\ owner' = [owner EXCEPT ![k] = u]
  /\ Begin(c, u, [Idle EXCEPT !.pc = "store", !.code = k])
  /\ UNCHANGED <<code, password, old, mailed, lapsed, jar, signedIn, failures, grants>>

\* seeded bug: the update has no where
StoredForAll(u, k) == [v \in Users |-> k]

Stored(u, k) == [code EXCEPT ![u] = k]

StoreCode(c) ==
  /\ req[c].pc = "store"
  /\ code' = Stored(owner[req[c].code], req[c].code)
  /\ Then(c, "mail")
  /\ UNCHANGED <<password, owner, old, mailed, lapsed, jar, signedIn, failures, grants>>

\* sendForgotPasswordEmail; who reads it, and when, is up to the user
SendMail(c) ==
  /\ req[c].pc = "mail"
  /\ mailed' = mailed \cup {req[c].code}
  /\ Done(c)
  /\ UNCHANGED <<code, password, owner, old, lapsed, jar, signedIn, failures, grants>>

-----------------------------------------------------------------------------
(* verifyResetCode *)

EnterCode(c, k) ==
  /\ k \in mailed
  /\ Begin(c, owner[k], [Idle EXCEPT !.pc = "find", !.code = k])
  /\ UNCHANGED <<code, password, owner, old, mailed, lapsed, jar, signedIn, failures, grants>>

\* seeded bug: resetTokenExpiresAt is not looked at
ExpiredNever(k) == FALSE

\* user.resetTokenExpiresAt < new Date()
Expired(k) == k \in old

\* findFirst({ where: { resetToken } }), and the 401 if nobody has it
FindCode(c) ==
  LET k == req[c].code IN
  /\ req[c].pc = "find"
  /\ IF \E u \in Users : code[u] = k THEN Then(c, IF Expired(k) THEN "forget" ELSE "grant")
                                     ELSE Done(c)
  /\ UNCHANGED <<code, password, owner, old, mailed, lapsed, jar, signedIn, failures, grants>>

\* resetToken: null for the user that was found, whatever the column holds now
Cleared(u) == [code EXCEPT ![u] = None]

ForgetCode(c) ==
  /\ req[c].pc = "forget"
  /\ code' = Cleared(owner[req[c].code])
  /\ Done(c)
  /\ UNCHANGED <<password, owner, old, mailed, lapsed, jar, signedIn, failures, grants>>

\* the token was signed just before
GrantToken(c) ==
  LET k == req[c].code IN
  /\ req[c].pc = "grant"
  /\ code' = Cleared(owner[k])
  /\ grants' = [grants EXCEPT ![k] = @ + 1]
  /\ Then(c, "answer")
  /\ UNCHANGED <<password, owner, old, mailed, lapsed, jar, signedIn, failures>>

\* res.cookie, which the page copies into the browser (setSessioCookie)
StoreCookie(c) ==
  /\ req[c].pc = "answer"
  /\ jar' = [jar EXCEPT ![c] = req[c].code]
  /\ Done(c)
  /\ UNCHANGED <<code, password, owner, old, mailed, lapsed, signedIn, failures, grants>>

-----------------------------------------------------------------------------
(* resetPassword *)

CookiePath == "/v1/auth/reset-password"

\* where a client sends the new password: the page calls a server action of its own
ResetPath(c) == IF c \in PageClients THEN "/auth/forgot-password/verify"
                                     ELSE "/v1/auth/reset-password"

\* a browser sends a cookie only to its path (of these paths none lies below another)
SentCookie(c) == IF ResetPath(c) = CookiePath THEN jar[c] ELSE None

SubmitPassword(c, p) ==
  /\ jar[c] # None
  /\ Begin(c, Whose(c, SentCookie(c)),
           [Idle EXCEPT !.pc = "guard", !.code = SentCookie(c), !.new = p])
  /\ UNCHANGED <<code, password, owner, old, mailed, lapsed, jar, signedIn, failures, grants>>

\* ResetPasswordGuard
PassGuard(c) ==
  /\ req[c].pc = "guard"
  /\ req[c].code # None /\ req[c].code \notin lapsed
  /\ Then(c, "set")
  /\ UNCHANGED <<code, password, owner, old, mailed, lapsed, jar, signedIn, failures, grants>>

\* no cookie (which the server action notices itself), or an expired token
RefuseToken(c) ==
  /\ req[c].pc = "guard"
  /\ req[c].code = None \/ req[c].code \in lapsed
  /\ Done(c)
  /\ UNCHANGED <<code, password, owner, old, mailed, lapsed, jar, signedIn, failures, grants>>

\* after the hash; the token names the user
SetPassword(c) ==
  /\ req[c].pc = "set"
  /\ password' = [password EXCEPT ![owner[req[c].code]] = req[c].new]
  /\ Done(c)
  /\ UNCHANGED <<code, owner, old, mailed, lapsed, jar, signedIn, failures, grants>>

-----------------------------------------------------------------------------
(* signIn and changePassword *)

SignIn(c, p) ==
  /\ ~ InFlight(c)
  /\ c \notin signedIn /\ password[UserOf[c]] = p
  /\ signedIn' = signedIn \cup {c}
  /\ UNCHANGED <<code, password, owner, old, mailed, lapsed, jar, req, failures, grants>>

\* removeCookie
SignOut(c) ==
  /\ ~ InFlight(c)
  /\ c \in signedIn
  /\ signedIn' = signedIn \ {c}
  /\ UNCHANGED <<code, password, owner, old, mailed, lapsed, jar, req, failures, grants>>

BeginChange(c, p, q) ==
  /\ c \in signedIn
  /\ Begin(c, UserOf[c], [Idle EXCEPT !.pc = "compare", !.old = p, !.new = q])
  /\ UNCHANGED <<code, password, owner, old, mailed, lapsed, jar, signedIn, failures, grants>>

\* seeded bug: the new password is compared
MatchesNew(q, p) == q.new = p

\* argon2.verify(user.passwordHash, dto.oldPassword)
Matches(q, p) == q.old = p

ComparePassword(c) ==
  /\ req[c].pc = "compare"
  /\ IF Matches(req[c], password[UserOf[c]]) THEN Then(c, "put") ELSE Done(c)
  /\ UNCHANGED <<code, password, owner, old, mailed, lapsed, jar, signedIn, failures, grants>>

PutPassword(c) ==
  /\ req[c].pc = "put"
  /\ password' = [password EXCEPT ![UserOf[c]] = req[c].new]
  /\ Done(c)
  /\ UNCHANGED <<code, owner, old, mailed, lapsed, jar, signedIn, failures, grants>>

-----------------------------------------------------------------------------
(* Time, failures *)

ExpireCode(k) ==
  /\ owner[k] # None /\ k \notin old
  /\ old' = old \cup {k}
  /\ UNCHANGED <<code, password, owner, mailed, lapsed, jar, signedIn, req, failures, grants>>

LapseToken(k) ==
  /\ grants[k] > 0 /\ k \notin lapsed
  /\ lapsed' = lapsed \cup {k}
  /\ UNCHANGED <<code, password, owner, old, mailed, jar, signedIn, req, failures, grants>>

\* the database or the mail server fails, the process restarts, the answer is lost
Fail(c) ==
  /\ InFlight(c)
  /\ failures < MaxFailures
  /\ failures' = failures + 1
  /\ Done(c)
  /\ UNCHANGED <<code, password, owner, old, mailed, lapsed, jar, signedIn, grants>>

Accept(c) ==
  \/ \E k \in Codes : EnterCode(c, k) \/ \E u \in Users : AskForCode(c, u, k)
  \/ \E p \in Passwords : SubmitPassword(c, p) \/ SignIn(c, p)
  \/ \E p, q \in Passwords : BeginChange(c, p, q)
  \/ SignOut(c)

Advance(c) ==
  \/ StoreCode(c) \/ SendMail(c)
  \/ FindCode(c) \/ ForgetCode(c) \/ GrantToken(c) \/ StoreCookie(c)
  \/ PassGuard(c) \/ RefuseToken(c) \/ SetPassword(c)
  \/ ComparePassword(c) \/ PutPassword(c)

Next ==
  \/ \E c \in Clients : Accept(c) \/ Advance(c) \/ Fail(c)
  \/ \E k \in Codes : ExpireCode(k) \/ LapseToken(k)

Spec == Init /\ [][Next]_vars

-----------------------------------------------------------------------------
(* Properties *)

\* A code is stored for the user it was made for, and a token is for somebody.
TypeOK ==
  /\ code \in [Users -> Codes \cup {None}]
  /\ password \in [Users -> Passwords]
  /\ owner \in [Codes -> Users \cup {None}]
  /\ old \subseteq Codes /\ mailed \subseteq Codes /\ lapsed \subseteq Codes
  /\ jar \in [Clients -> Codes \cup {None}]
  /\ signedIn \subseteq Clients
  /\ req \in [Clients -> Request]
  /\ failures \in Nat
  /\ grants \in [Codes -> Nat]
  /\ \A u \in Users : code[u] # None => owner[code[u]] = u
  /\ \A k \in mailed : owner[k] # None
  /\ \A c \in Clients :
       /\ jar[c] # None => owner[jar[c]] # None
       /\ req[c].code # None => owner[req[c].code] # None
       /\ AboutCode(req[c]) \/ req[c].pc = "set" => req[c].code # None
       /\ req[c].pc \in {"guard", "set", "compare", "put"} => req[c].new \in Passwords

\* the codes that were found in time and have no token yet
Accepted == {req[c].code : c \in {d \in Clients : req[d].pc = "grant"}}

(***************************************************************************)
(* While the codes of a user are not used by two requests at the same      *)
(* time, the newest code works until it is used or expires, an older or an *)
(* expired one never, and no code grants two tokens: what the statements   *)
(* of forgotPassword and verifyResetCode do one by one, whoever sends the  *)
(* requests and whichever of them fail, amounts to the steps of Recovery.  *)
(***************************************************************************)
Promise == INSTANCE Recovery WITH newest <- code, accepted <- Accepted

ImplementsRecovery == Promise!Spec

(***************************************************************************)
(* Who got a token for a code is not refused while the token is valid      *)
(* ("Código verificado com sucesso! Agora defina sua nova senha.").        *)
(***************************************************************************)
VerifiedMayReset == [][\A c \in Clients : RefuseToken(c) => jar[c] \in lapsed]_vars

(***************************************************************************)
(* While the password of a user is not set by two requests at the same     *)
(* time, by whichever clients, changePassword replaces the password that   *)
(* it was told and has compared, and no other that was set since.          *)
(***************************************************************************)
ChangeReplacesOld ==
  [][\A c \in Clients : PutPassword(c) => password[UserOf[c]] = req[c].old]_vars

=============================================================================
