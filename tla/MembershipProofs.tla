--------------------------- MODULE MembershipProofs ---------------------------
(***************************************************************************)
(* Proofs about BoardMembership, for every set of users, tasks, invites    *)
(* and requests.                                                           *)
(***************************************************************************)
EXTENDS BoardMembership, TLAPS

-----------------------------------------------------------------------------
(* Type correctness *)

\* the parts of TypeOK
MembersType ==
  /\ role \in [Users -> Role \cup {None}]
  /\ older \subseteq {u \in Users : Member(u)} \X {u \in Users : Member(u)}
InviteType ==
  /\ invite \in [Invites -> InviteRow]
  /\ \A i \in Invites :
       invite[i].state = "pending" => invite[i].to \in Users /\ invite[i].role \in Role
BoardType ==
  /\ board \in BoardRow
  /\ There => board.owner \in Users
  /\ ~ There =>
       /\ \A u \in Users : ~ Member(u)
       /\ \A i \in Invites : ~ Pending(i)
       /\ \A t \in Tasks : ~ Stored(t)
RequestType == req \in [Requests -> Request] /\ \A r \in Requests : RequestOK(req[r])

LEMMA TypeParts ==
  TypeOK <=> MembersType /\ InviteType /\ BoardType /\ task \in [Tasks -> TaskRow]
             /\ RequestType
BY DEF TypeOK, MembersType, InviteType, BoardType, RequestType, Pending

LEMMA IdleType == Idle \in Request /\ Idle.pc = "idle" /\ RequestOK(Idle)
BY DEF Idle, Request, RequestOK, Departs

LEMMA InitType == Init => TypeOK
BY IdleType
DEF Init, TypeOK, There, Member, BoardRow, InviteRow, TaskRow, NoInvite, NoTask, Pending,
    Stored

LEMMA EndType ==
  ASSUME RequestType, NEW r \in Requests, Ends(r) \/ UNCHANGED req
  PROVE  RequestType'
<1>1. req' \in [Requests -> Request]
  BY IdleType DEF RequestType, Ends
<1>2. ASSUME NEW x \in Requests PROVE RequestOK(req'[x])
  BY IdleType DEF RequestType, Ends
<1> QED
  BY <1>1, <1>2 DEF RequestType, RequestOK, Departs

LEMMA GoOnType ==
  ASSUME RequestType, NEW r \in Requests, NEW q \in Request, RequestOK(q),
         req' = [req EXCEPT ![r] = q]
  PROVE  RequestType'
<1>1. req' \in [Requests -> Request]
  BY DEF RequestType
<1>2. ASSUME NEW x \in Requests PROVE RequestOK(req'[x])
  BY DEF RequestType
<1> QED
  BY <1>1, <1>2 DEF RequestType, RequestOK, Departs

(***************************************************************************)
(* What a handler has checked when it begins.                              *)
(***************************************************************************)
InvitedNow(u) == \E i \in Invites : Pending(i) /\ invite[i].to = u

\* an assignee that may be written: a member, or the one the task has already
MayHave(q) == /\ q.pc = "create" => OnBoard(q.user)
              /\ q.pc = "assign" =>
                   /\ task[q.task].state # "absent"
                   /\ OnBoard(q.user) \/ task[q.task].assignee = q.user

Begun(r, q) ==
  /\ q \in Request /\ RequestOK(q)
  /\ q.pc \in {"join", "check", "admin", "role", "add", "invite", "accept", "decline",
               "create", "assign", "unassign"}
  /\ Begin(r, q)
  /\ \/ There /\ UNCHANGED board /\ q.pc # "join"
     \/ /\ board.state = "absent" /\ q.pc = "join"
        /\ board' = [state |-> "there", owner |-> q.user]
  /\ q.pc \in {"check", "role"} => q.user # board.owner
  /\ q.pc = "admin" => q.user = board.owner
  /\ q.pc = "invite" => ~ InvitedNow(q.user)
  /\ MayHave(q)

LEMMA AcceptBegins ==
  ASSUME TypeOK, NEW r \in Requests, Accept(r)
  PROVE  \E q \in Request : Begun(r, q)
<1> DEFINE Goal == \E q \in Request : Begun(r, q)
<1> USE DEF Departs, MayHave
<1>1. ASSUME NEW u \in Users, BeginCreate(r, u) PROVE Goal
  <2> DEFINE q == [Idle EXCEPT !.pc = "join", !.user = u]
  <2>1. q \in Request /\ q.pc = "join" /\ q.user = u /\ RequestOK(q)
    BY IdleType DEF Request, RequestOK
  <2>2. Begin(r, q) /\ board.state = "absent" /\ board' = [state |-> "there", owner |-> u]
    BY <1>1 DEF BeginCreate
  <2> HIDE DEF q
  <2> QED
    BY <2>1, <2>2 DEF Begun
<1>2. ASSUME NEW by \in Users, NEW u \in Users, BeginRemoveMember(r, by, u) PROVE Goal
  <2> DEFINE q == [Idle EXCEPT !.pc = IF u = board.owner THEN "admin" ELSE "check",
                               !.by = by, !.user = u]
  <2>1. /\ q \in Request /\ q.user = u /\ q.by = by
        /\ q.pc = IF u = board.owner THEN "admin" ELSE "check"
    BY IdleType DEF Request
  <2>2. Begin(r, q) /\ There /\ UNCHANGED board /\ (u = board.owner => by = u)
    BY <1>2 DEF BeginRemoveMember
  <2> HIDE DEF q
  <2>3. RequestOK(q)
    BY <2>1, <2>2 DEF RequestOK
  <2> QED
    BY <2>1, <2>2, <2>3 DEF Begun
<1>3. ASSUME NEW by \in Users, NEW u \in Users, NEW x \in Role, BeginChangeRole(r, by, u, x)
      PROVE  Goal
  <2> DEFINE q == [Idle EXCEPT !.pc = "role", !.user = u, !.role = x]
  <2>1. q \in Request /\ q.pc = "role" /\ q.user = u /\ q.role = x
    BY IdleType DEF Request
  <2>2. Begin(r, q) /\ There /\ UNCHANGED board /\ u # board.owner
    BY <1>3 DEF BeginChangeRole, Changeable
  <2> HIDE DEF q
  <2> QED
    BY <2>1, <2>2 DEF Begun, RequestOK
<1>4. ASSUME NEW by \in Users, NEW u \in Users, NEW x \in Role, BeginAdd(r, by, u, x)
      PROVE  Goal
  <2> DEFINE q == [Idle EXCEPT !.pc = "add", !.user = u, !.role = x]
  <2>1. q \in Request /\ q.pc = "add" /\ q.user = u /\ q.role = x
    BY IdleType DEF Request
  <2>2. Begin(r, q) /\ There /\ UNCHANGED board
    BY <1>4 DEF BeginAdd, Manages
  <2> HIDE DEF q
  <2> QED
    BY <2>1, <2>2 DEF Begun, RequestOK
<1>5. ASSUME NEW by \in Users, NEW u \in Users, NEW x \in InviteRoles, BeginInvite(r, by, u, x)
      PROVE  Goal
  <2> DEFINE q == [Idle EXCEPT !.pc = "invite", !.user = u, !.role = x]
  <2>1. q \in Request /\ q.pc = "invite" /\ q.user = u /\ q.role = x /\ x \in Role
    BY IdleType, ConstantAssumption DEF Request
  <2>2. Begin(r, q) /\ There /\ UNCHANGED board /\ ~ InvitedNow(u)
    BY <1>5 DEF BeginInvite, Invited, InvitedNow
  <2> HIDE DEF q
  <2> QED
    BY <2>1, <2>2 DEF Begun, RequestOK
<1>6. ASSUME NEW by \in Users, NEW u \in Users, NEW t \in Tasks, BeginAssign(r, by, t, u)
      PROVE  Goal
  <2> DEFINE q == [Idle EXCEPT !.pc = "assign", !.user = u, !.task = t]
  <2>1. q \in Request /\ q.pc = "assign" /\ q.user = u /\ q.task = t
    BY IdleType DEF Request
  <2>2. /\ Begin(r, q) /\ UNCHANGED board /\ task[t].state = "live"
        /\ OnBoard(u) \/ task[t].assignee = u
    BY <1>6 DEF BeginAssign, Manages, Assignable, OnBoard
  <2>3. There
    BY <2>2 DEF TypeOK, Stored
  <2> HIDE DEF q
  <2> QED
    BY <2>1, <2>2, <2>3 DEF Begun, RequestOK
<1>7. ASSUME NEW i \in Invites, NEW response \in {"accept", "decline"},
             BeginResponse(r, i, response)
      PROVE  Goal
  <2> DEFINE q == [Idle EXCEPT !.pc = response, !.user = invite[i].to,
                               !.role = invite[i].role, !.invite = i]
  <2>1. invite[i].to \in Users /\ invite[i].role \in Role /\ There
    BY <1>7 DEF BeginResponse, TypeOK, Pending
  <2>2. q \in Request /\ q.pc = response /\ q.user \in Users /\ q.role \in Role /\ q.invite = i
    BY <2>1, IdleType DEF Request
  <2>3. Begin(r, q) /\ UNCHANGED board
    BY <1>7 DEF BeginResponse
  <2> HIDE DEF q
  <2> QED
    BY <2>1, <2>2, <2>3 DEF Begun, RequestOK
<1>8. ASSUME NEW by \in Users, NEW u \in Users, BeginCreateTask(r, by, u) PROVE Goal
  <2> DEFINE q == [Idle EXCEPT !.pc = "create", !.user = u]
  <2>1. q \in Request /\ q.pc = "create" /\ q.user = u
    BY IdleType DEF Request
  <2>2. Begin(r, q) /\ UNCHANGED board /\ There /\ OnBoard(u)
    BY <1>8 DEF BeginCreateTask, Manages, Assignable, OnBoard
  <2> HIDE DEF q
  <2> QED
    BY <2>1, <2>2 DEF Begun, RequestOK
<1>9. ASSUME NEW by \in Users, NEW t \in Tasks, BeginUnassign(r, by, t) PROVE Goal
  <2> DEFINE q == [Idle EXCEPT !.pc = "unassign", !.user = task[t].assignee, !.task = t]
  <2>1. task[t].assignee \in Users /\ There
    BY <1>9 DEF BeginUnassign, Manages, TypeOK, TaskRow
  <2>2. q \in Request /\ q.pc = "unassign" /\ q.user \in Users /\ q.task = t
    BY <2>1, IdleType DEF Request
  <2>3. Begin(r, q) /\ UNCHANGED board
    BY <1>9 DEF BeginUnassign
  <2> HIDE DEF q
  <2> QED
    BY <2>1, <2>2, <2>3 DEF Begun, RequestOK
<1>10. ASSUME NEW u \in Users, NEW x \in InviteRoles, BeginCrossResponse(r, u, x) PROVE Goal
  <2> DEFINE q == [Idle EXCEPT !.pc = "accept", !.user = u, !.role = x]
  <2>1. q \in Request /\ q.pc = "accept" /\ q.user = u /\ q.role = x /\ x \in Role
    BY IdleType, ConstantAssumption DEF Request
  <2>2. Begin(r, q) /\ UNCHANGED board /\ There
    BY <1>10 DEF BeginCrossResponse
  <2> HIDE DEF q
  <2> QED
    BY <2>1, <2>2 DEF Begun, RequestOK
<1> QED
  BY <1>1, <1>2, <1>3, <1>4, <1>5, <1>6, <1>7, <1>8, <1>9, <1>10 DEF Accept

LEMMA AcceptType ==
  ASSUME TypeOK, NEW r \in Requests, Accept(r)
  PROVE  TypeOK'
<1> PICK q \in Request : Begun(r, q)
  BY AcceptBegins
<1>1. /\ RequestOK(q) /\ req' = [req EXCEPT ![r] = q]
      /\ UNCHANGED <<role, older, invite, task>>
  BY DEF Begun, Begin
<1>2. RequestType'
  BY <1>1, GoOnType, TypeParts
<1>3. MembersType' /\ InviteType' /\ task' \in [Tasks -> TaskRow]
  BY <1>1, TypeParts DEF MembersType, InviteType, Member
<1>4. BoardType'
  <2>1. CASE There /\ UNCHANGED board
    BY <1>1, <2>1, TypeParts DEF BoardType, There, Member, Pending, Stored
  <2>2. CASE board' = [state |-> "there", owner |-> q.user] /\ q.pc = "join"
    BY <1>1, <2>2 DEF BoardType, BoardRow, There, RequestOK
  <2> QED
    BY <2>1, <2>2 DEF Begun
<1> QED
  BY <1>2, <1>3, <1>4 DEF TypeOK, MembersType, InviteType, BoardType, RequestType, Pending

\* a user comes: the others stay as they are
LEMMA EntersType ==
  ASSUME MembersType, NEW u \in Users, NEW x \in Role, Enters(u, x)
  PROVE  /\ MembersType' /\ There /\ ~ Member(u)
         /\ role'[u] = x /\ \A v \in Users \ {u} : role'[v] = role[v]
BY ConstantAssumption DEF MembersType, Enters, Member

\* a user leaves a board on which the same users have roles: so do the others
LEMMA LeavesType ==
  ASSUME MembersType, NEW u \in Users, NEW roles \in [Users -> Role \cup {None}],
         \A v \in Users : roles[v] = None <=> role[v] = None,
         Leaves(u, roles)
  PROVE  /\ MembersType' /\ Member(u)
         /\ role'[u] = None /\ \A v \in Users \ {u} : role'[v] = roles[v]
<1>1. /\ role' = [roles EXCEPT ![u] = None]
      /\ older' = {p \in older : p[1] # u /\ p[2] # u}
      /\ Member(u)
  BY DEF Leaves
<1>2. \A p \in older : p = <<p[1], p[2]>> /\ p[1] \in Users /\ p[2] \in Users
                       /\ Member(p[1]) /\ Member(p[2])
  BY DEF MembersType
<1>3. role' \in [Users -> Role \cup {None}]
      /\ role'[u] = None /\ \A v \in Users \ {u} : role'[v] = roles[v]
  BY <1>1
<1>4. ASSUME NEW p \in older'
      PROVE  p \in {v \in Users : role'[v] # None} \X {v \in Users : role'[v] # None}
  <2>1. p \in older /\ p[1] # u /\ p[2] # u
    BY <1>1, <1>4
  <2>2. role'[p[1]] # None /\ role'[p[2]] # None
    BY <1>2, <1>3, <2>1 DEF Member
  <2> QED
    BY <1>2, <2>1, <2>2
<1> QED
  BY <1>1, <1>3, <1>4 DEF MembersType, Member

LEMMA BoardGoesType ==
  ASSUME TypeOK, BoardGoes
  PROVE  /\ MembersType' /\ InviteType' /\ BoardType' /\ task' \in [Tasks -> TaskRow]
         /\ ~ There'
<1>1. MembersType'
  BY DEF BoardGoes, MembersType, Member
<1>2. /\ invite' \in [Invites -> InviteRow]
      /\ \A i \in Invites : invite'[i].state # "pending"
  BY DEF BoardGoes, Withdrawn, NoInvite, TypeOK, InviteRow, Pending
<1>3. /\ task' \in [Tasks -> TaskRow]
      /\ \A t \in Tasks : task'[t].state \notin {"live", "deleted"}
  BY DEF BoardGoes, NoTask, TypeOK, TaskRow, Stored
<1>4. board' \in BoardRow /\ board'.state = "gone"
  BY DEF BoardGoes, TypeOK, BoardRow
<1>5. \A u \in Users : role'[u] = None
  BY DEF BoardGoes
<1> QED
  BY <1>1, <1>2, <1>3, <1>4, <1>5
  DEF TypeOK, InviteType, BoardType, There, Member, Pending, Stored

(***************************************************************************)
(* What the statement of a handler does to the tables: nothing, then the   *)
(* handler goes on; or it is the last one, and either an owner departs, or *)
(* only the user the request is about is touched.                          *)
(***************************************************************************)
Steps(r) ==
  /\ req'[r] \in Request /\ RequestOK(req'[r])
  /\ InFlight(r) /\ req[r].pc # "join" /\ GoesOn(r, req'[r])
  /\ req'[r].user = req[r].user /\ req'[r].task = req[r].task
  /\ req'[r].pc \notin {"idle", "join", "check", "role", "create", "assign", "invite"}
  /\ req'[r].pc \in {"remove", "count", "write"} => req[r].pc \in {"check", "role", "count"}
  /\ Departs(req'[r]) => Departs(req[r])
  /\ req'[r].pc \in {"member", "transfer"} => req[r].pc = "admin"
  /\ req'[r].pc \in {"promote", "dissolve"} => req[r].pc = "member"
  /\ req'[r].pc = "member" => WithRole("ADMIN") \subseteq {req[r].user}
  /\ req'[r].pc = "transfer" => req'[r].next \in WithRole("ADMIN") \ {req[r].user}
  /\ req'[r].pc = "promote" => req'[r].next \in WithRole("MEMBER") \ {req[r].user}
  /\ req'[r].pc = "dissolve" => WithRole("MEMBER") \subseteq {req[r].user}

LEMMA GoesOnSteps ==
  ASSUME TypeOK, NEW r \in Requests,
         CheckRemover(r) \/ FindNextAdmin(r) \/ FindNextMember(r) \/ ReadRole(r)
           \/ CountAdmins(r)
  PROVE  Steps(r)
<1>0. req \in [Requests -> Request] /\ req[r] \in Request /\ RequestOK(req[r])
  BY DEF TypeOK
<1>q. ASSUME NEW q \in Request, GoesOn(r, q) PROVE req'[r] = q
  BY <1>0, <1>q DEF GoesOn
<1>1. CASE CheckRemover(r)
  <2> DEFINE q == [req[r] EXCEPT !.pc = "remove", !.by = None]
  <2>1. /\ q \in Request /\ q.pc = "remove" /\ q.user = req[r].user
        /\ q.task = req[r].task
    BY <1>0 DEF Request
  <2>2. GoesOn(r, q) /\ req[r].pc = "check"
    BY <1>1 DEF CheckRemover
  <2> HIDE DEF q
  <2> QED
    BY <1>0, <1>q, <2>1, <2>2 DEF Steps, RequestOK, Departs, InFlight
<1>2. CASE FindNextAdmin(r)
  <2>1. req[r].pc = "admin"
    BY <1>2 DEF FindNextAdmin
  <2>2. CASE WithRole("ADMIN") \ {req[r].user} = {} /\ GoesOn(r, [req[r] EXCEPT !.pc = "member"])
    <3> DEFINE q == [req[r] EXCEPT !.pc = "member"]
    <3>1. /\ q \in Request /\ q.pc = "member" /\ q.user = req[r].user /\ q.by = req[r].by
          /\ q.task = req[r].task
      BY <1>0 DEF Request
    <3>2. GoesOn(r, q)
      BY <2>2
    <3> HIDE DEF q
    <3> QED
      BY <1>0, <1>q, <2>1, <2>2, <3>1, <3>2 DEF Steps, RequestOK, Departs, InFlight
  <2>3. ASSUME NEW u \in WithRole("ADMIN") \ {req[r].user},
               GoesOn(r, [req[r] EXCEPT !.pc = "transfer", !.next = u])
        PROVE  Steps(r)
    <3> DEFINE q == [req[r] EXCEPT !.pc = "transfer", !.next = u]
    <3>1. /\ q \in Request /\ q.pc = "transfer" /\ q.user = req[r].user /\ q.by = req[r].by
          /\ q.task = req[r].task
          /\ q.next = u /\ u \in Users
      BY <1>0 DEF Request, WithRole
    <3>2. GoesOn(r, q)
      BY <2>3
    <3> HIDE DEF q
    <3> QED
      BY <1>0, <1>q, <2>1, <2>3, <3>1, <3>2 DEF Steps, RequestOK, Departs, InFlight
  <2> QED
    BY <1>2, <2>2, <2>3 DEF FindNextAdmin, Oldest
<1>3. CASE FindNextMember(r)
  <2>1. req[r].pc = "member"
    BY <1>3 DEF FindNextMember
  <2>2. CASE Promotable(req[r]) = {} /\ GoesOn(r, [req[r] EXCEPT !.pc = "dissolve"])
    <3> DEFINE q == [req[r] EXCEPT !.pc = "dissolve"]
    <3>1. /\ q \in Request /\ q.pc = "dissolve" /\ q.user = req[r].user /\ q.by = req[r].by
          /\ q.task = req[r].task
      BY <1>0 DEF Request
    <3>2. GoesOn(r, q) /\ WithRole("MEMBER") \subseteq {req[r].user}
      BY <2>2 DEF Promotable
    <3> HIDE DEF q
    <3> QED
      BY <1>0, <1>q, <2>1, <3>1, <3>2 DEF Steps, RequestOK, Departs, InFlight
  <2>3. ASSUME NEW u \in Promotable(req[r]),
               GoesOn(r, [req[r] EXCEPT !.pc = "promote", !.next = u])
        PROVE  Steps(r)
    <3> DEFINE q == [req[r] EXCEPT !.pc = "promote", !.next = u]
    <3>0. u \in WithRole("MEMBER") \ {req[r].user} /\ u \in Users
      BY DEF Promotable, WithRole
    <3>1. /\ q \in Request /\ q.pc = "promote" /\ q.user = req[r].user /\ q.by = req[r].by
          /\ q.task = req[r].task
          /\ q.next = u
      BY <1>0, <3>0 DEF Request
    <3>2. GoesOn(r, q)
      BY <2>3
    <3> HIDE DEF q
    <3> QED
      BY <1>0, <1>q, <2>1, <3>0, <3>1, <3>2 DEF Steps, RequestOK, Departs, InFlight
  <2> QED
    BY <1>3, <2>2, <2>3 DEF FindNextMember, Oldest
<1>4. CASE ReadRole(r)
  <2> DEFINE q == [req[r] EXCEPT !.pc = IF role[req[r].user] = "ADMIN" /\ req[r].role # "ADMIN"
                                        THEN "count" ELSE "write"]
  <2>1. /\ q \in Request /\ q.pc \in {"count", "write"} /\ q.user = req[r].user
        /\ q.role = req[r].role /\ q.task = req[r].task
    BY <1>0 DEF Request
  <2>2. GoesOn(r, q) /\ req[r].pc = "role"
    BY <1>4 DEF ReadRole
  <2> HIDE DEF q
  <2> QED
    BY <1>0, <1>q, <2>1, <2>2 DEF Steps, RequestOK, Departs, InFlight
<1>5. CASE CountAdmins(r)
  <2> DEFINE q == [req[r] EXCEPT !.pc = "write"]
  <2>1. /\ q \in Request /\ q.pc = "write" /\ q.user = req[r].user /\ q.role = req[r].role
        /\ q.task = req[r].task
    BY <1>0 DEF Request
  <2>2. GoesOn(r, q) /\ req[r].pc = "count"
    BY <1>5 DEF CountAdmins
  <2> HIDE DEF q
  <2> QED
    BY <1>0, <1>q, <2>1, <2>2 DEF Steps, RequestOK, Departs, InFlight
<1> QED
  BY <1>1, <1>2, <1>3, <1>4, <1>5

Touches(r) ==
  /\ UNCHANGED board /\ ~ Departs(req[r])
  /\ \A u \in Users \ {req[r].user} : role'[u] = role[u]
  /\ \A i \in Invites :
       invite'[i] # invite[i] /\ invite'[i].state = "pending"
         => invite'[i].to = req[r].user /\ req[r].pc = "invite"
  /\ \A t \in Tasks \ {req[r].task} :
       task[t].state # "absent" => task'[t] = task[t]
  /\ \A t \in Tasks : task[t].state # "absent" => task'[t].state # "absent"

Finishes(r) ==
  /\ InFlight(r) /\ Ends(r)
  /\ Touches(r) \/ Departs(req[r])

LEMMA RowTypes ==
  ASSUME MembersType', InviteType', BoardType', task' \in [Tasks -> TaskRow], RequestType'
  PROVE  TypeOK'
BY DEF TypeOK, MembersType, InviteType, BoardType, RequestType, Pending

\* while the board is there, its part of TypeOK is about its owner only
LEMMA BoardStays ==
  ASSUME BoardType, There, UNCHANGED board \/ \E u \in Users : board' = [board EXCEPT !.owner = u]
  PROVE  BoardType' /\ There'
BY DEF BoardType, BoardRow, There

(***************************************************************************)
(* The statements that write only an invite or a task.                     *)
(***************************************************************************)
OtherRow(r) == InsertInvite(r) \/ Declined(r) \/ InsertTask(r) \/ Assign(r) \/ Unassign(r)

LEMMA RequestUser ==
  ASSUME TypeOK, NEW r \in Requests, InFlight(r)
  PROVE  req[r] \in Request /\ RequestOK(req[r]) /\ req[r].user \in Users
BY DEF TypeOK, RequestOK, InFlight

LEMMA EnterStep ==
  ASSUME TypeOK, NEW r \in Requests, JoinOwner(r) \/ AddMember(r) \/ Accepted(r)
  PROVE  TypeOK' /\ Finishes(r) /\ ~ Member(req[r].user)
         /\ (JoinOwner(r) => role'[req[r].user] = "ADMIN")
<1>0. InFlight(r) /\ Ends(r) /\ req[r].pc \in {"join", "add", "accept"}
      /\ UNCHANGED <<board, task>>
  BY DEF JoinOwner, AddMember, Accepted, InFlight
<1>1. req[r].user \in Users /\ RequestOK(req[r]) /\ TypeOK
  BY <1>0, RequestUser
<1>2. PICK x \in Role : Enters(req[r].user, x) /\ (JoinOwner(r) => x = "ADMIN")
  <2>1. CASE JoinOwner(r)
    BY <2>1 DEF JoinOwner, Role
  <2>2. CASE AddMember(r) \/ Accepted(r)
    BY <1>1, <2>2 DEF AddMember, Accepted, RequestOK, JoinOwner
  <2> QED
    BY <2>1, <2>2
<1>3. /\ MembersType' /\ There /\ ~ Member(req[r].user)
      /\ role'[req[r].user] = x /\ \A v \in Users \ {req[r].user} : role'[v] = role[v]
  BY <1>1, <1>2, EntersType, TypeParts
<1>4. InviteType' /\ \A i \in Invites : invite'[i].state = "pending" => invite'[i] = invite[i]
  <2>1. CASE UNCHANGED invite
    BY <1>1, <2>1, TypeParts DEF InviteType
  <2>2. CASE Accepted(r)
    BY <1>1, <2>2 DEF Accepted, InviteType, TypeOK, NoInvite, InviteRow, RequestOK, Pending
  <2> QED
    BY <2>1, <2>2 DEF JoinOwner, AddMember
<1>5. BoardType' /\ There' /\ task' \in [Tasks -> TaskRow]
  BY <1>0, <1>1, <1>3, BoardStays, TypeParts
<1>6. RequestType'
  BY <1>0, <1>1, EndType, TypeParts
<1>7. TypeOK'
  BY <1>3, <1>4, <1>5, <1>6, RowTypes
<1>8. Finishes(r)
  BY <1>0, <1>3, <1>4 DEF Finishes, Touches, Departs
<1> QED
  BY <1>2, <1>3, <1>7, <1>8

LEMMA LeaveStep ==
  ASSUME TypeOK, NEW r \in Requests, DeleteMember(r)
  PROVE  TypeOK' /\ Finishes(r)
<1>0. /\ InFlight(r) /\ Ends(r) /\ req[r].pc = "remove" /\ Leaves(req[r].user, role)
      /\ UNCHANGED <<board, invite, task>>
  BY DEF DeleteMember, InFlight
<1>1. req[r].user \in Users /\ role \in [Users -> Role \cup {None}]
  BY <1>0, RequestUser DEF TypeOK
<1>2. /\ MembersType' /\ Member(req[r].user)
      /\ \A v \in Users \ {req[r].user} : role'[v] = role[v]
  BY <1>0, <1>1, LeavesType, TypeParts
<1>3. There /\ board.owner \in Users
  BY <1>1, <1>2 DEF TypeOK
<1>4. InviteType' /\ BoardType' /\ task' \in [Tasks -> TaskRow]
  BY <1>0, <1>3, BoardStays, TypeParts DEF InviteType
<1>5. RequestType'
  BY <1>0, EndType, TypeParts
<1>6. Finishes(r)
  BY <1>0, <1>2, <1>3 DEF Finishes, Touches, Departs
<1> QED
  BY <1>2, <1>4, <1>5, <1>6, RowTypes

\* an owner hands the board over to a user who is an ADMIN then
LEMMA SucceedStep ==
  ASSUME TypeOK, NEW r \in Requests, TransferOwnership(r) \/ PromoteMember(r)
  PROVE  /\ TypeOK' /\ Finishes(r) /\ There /\ There'
         /\ board'.owner = req[r].next
         /\ role'[req[r].next] = IF PromoteMember(r) THEN "ADMIN" ELSE role[req[r].next]
<1>0. /\ InFlight(r) /\ Ends(r) /\ req[r].pc \in {"transfer", "promote"} /\ There
      /\ board' = [board EXCEPT !.owner = req[r].next]
      /\ UNCHANGED <<invite, task>>
  BY DEF TransferOwnership, PromoteMember, InFlight
<1>1. /\ req[r].user \in Users /\ req[r].next \in Users \ {req[r].user}
      /\ role \in [Users -> Role \cup {None}] /\ board \in BoardRow
  BY <1>0, RequestUser DEF TypeOK, RequestOK
<1>2. /\ MembersType'
      /\ role'[req[r].next] = IF PromoteMember(r) THEN "ADMIN" ELSE role[req[r].next]
  <2>1. CASE PromoteMember(r)
    <3> DEFINE roles == [role EXCEPT ![req[r].next] = "ADMIN"]
    <3>1. /\ roles \in [Users -> Role \cup {None}] /\ roles[req[r].next] = "ADMIN"
          /\ \A v \in Users : roles[v] = None <=> role[v] = None
      BY <1>1, <2>1, ConstantAssumption DEF PromoteMember, Member, Role
    <3>2. Leaves(req[r].user, roles)
      BY <2>1 DEF PromoteMember
    <3> HIDE DEF roles
    <3> QED
      BY <1>1, <2>1, <3>1, <3>2, LeavesType, TypeParts
  <2>2. CASE TransferOwnership(r) /\ ~ PromoteMember(r)
    <3>1. Leaves(req[r].user, role)
      BY <2>2 DEF TransferOwnership
    <3> QED
      BY <1>1, <2>2, <3>1, LeavesType, TypeParts
  <2> QED
    BY <2>1, <2>2
<1>3. BoardType' /\ There' /\ board'.owner = req[r].next
  BY <1>0, <1>1, BoardStays, TypeParts DEF BoardRow
<1>4. InviteType' /\ task' \in [Tasks -> TaskRow]
  BY <1>0, TypeParts DEF InviteType
<1>5. RequestType'
  BY <1>0, EndType, TypeParts
<1>6. Finishes(r)
  BY <1>0 DEF Finishes, Departs
<1> QED
  BY <1>0, <1>2, <1>3, <1>4, <1>5, <1>6, RowTypes

LEMMA DissolveStep ==
  ASSUME TypeOK, NEW r \in Requests, Dissolve(r)
  PROVE  TypeOK' /\ Finishes(r) /\ ~ There'
<1>0. InFlight(r) /\ Ends(r) /\ req[r].pc = "dissolve" /\ BoardGoes
  BY DEF Dissolve, InFlight
<1>1. RequestType'
  BY <1>0, EndType, TypeParts
<1> QED
  BY <1>0, <1>1, BoardGoesType, RowTypes DEF Finishes, Departs

LEMMA WriteRoleStep ==
  ASSUME TypeOK, NEW r \in Requests, WriteRole(r)
  PROVE  TypeOK' /\ Finishes(r)
<1>0. /\ InFlight(r) /\ Ends(r) /\ req[r].pc = "write" /\ Member(req[r].user)
      /\ role' = [role EXCEPT ![req[r].user] = req[r].role]
      /\ UNCHANGED <<board, older, invite, task>>
  BY DEF WriteRole, InFlight
<1>1. req[r].user \in Users /\ req[r].role \in Role
  BY <1>0, RequestUser DEF RequestOK
<1>2. There /\ board.owner \in Users
  BY <1>0, <1>1 DEF TypeOK
<1>3. /\ role' \in [Users -> Role \cup {None}]
      /\ \A v \in Users \ {req[r].user} : role'[v] = role[v]
      /\ \A v \in Users : role'[v] = None <=> role[v] = None
  BY <1>0, <1>1, ConstantAssumption DEF TypeOK, Member
<1>4. MembersType'
  BY <1>0, <1>3, TypeParts DEF MembersType, Member
<1>5. InviteType' /\ BoardType' /\ task' \in [Tasks -> TaskRow]
  BY <1>0, <1>2, BoardStays, TypeParts DEF InviteType
<1>6. RequestType'
  BY <1>0, EndType, TypeParts
<1>7. Finishes(r)
  BY <1>0, <1>2, <1>3 DEF Finishes, Touches, Departs
<1> QED
  BY <1>4, <1>5, <1>6, <1>7, RowTypes

LEMMA InviteRowStep ==
  ASSUME TypeOK, NEW r \in Requests, InsertInvite(r) \/ Declined(r)
  PROVE  /\ InviteType' /\ BoardType' /\ task' = task
         /\ \A i \in Invites :
              invite'[i] # invite[i] /\ invite'[i].state = "pending"
                => invite'[i].to = req[r].user /\ req[r].pc = "invite"
<1>0. InFlight(r) /\ UNCHANGED <<board, role, older, task>>
  BY DEF InsertInvite, Declined, InFlight
<1>1. req[r].user \in Users /\ RequestOK(req[r])
  BY <1>0, RequestUser
<1>2. CASE InsertInvite(r)
  <2> PICK i \in Invites :
        invite' = [invite EXCEPT ![i] = [state |-> "pending",
                                         to |-> req[r].user, role |-> req[r].role]]
    BY <1>2 DEF InsertInvite
  <2>1. req[r].role \in Role /\ req[r].pc = "invite" /\ There
    BY <1>1, <1>2 DEF InsertInvite, RequestOK
  <2>2. BoardType'
    BY <1>0, <2>1, BoardStays, TypeParts
  <2> QED
    BY <1>0, <1>1, <2>1, <2>2 DEF TypeOK, InviteType, InviteRow, Pending
<1>3. CASE Declined(r)
  <2>1. /\ req[r].invite \in Invites
        /\ invite' = [invite EXCEPT ![req[r].invite] = NoInvite("gone")]
    BY <1>1, <1>3 DEF Declined, RequestOK
  <2>2. InviteType' /\ \A i \in Invites : invite'[i].state = "pending" => invite'[i] = invite[i]
    BY <2>1 DEF TypeOK, InviteType, InviteRow, NoInvite, Pending
  <2>3. BoardType'
    BY <1>0, <2>2 DEF TypeOK, BoardType, There, Member, Pending, Stored
  <2> QED
    BY <1>0, <2>2, <2>3
<1> QED
  BY <1>2, <1>3

LEMMA TaskRowStep ==
  ASSUME TypeOK, NEW r \in Requests, InsertTask(r) \/ Assign(r) \/ Unassign(r)
  PROVE  /\ task' \in [Tasks -> TaskRow] /\ There /\ invite' = invite
         /\ \A t \in Tasks \ {req[r].task} :
              task[t].state # "absent" => task'[t] = task[t]
         /\ \A t \in Tasks : task[t].state # "absent" => task'[t].state # "absent"
<1>0. InFlight(r) /\ invite' = invite
  BY DEF InsertTask, Assign, Unassign, WriteAssignee, InFlight
<1>1. req[r].user \in Users /\ RequestOK(req[r]) /\ task \in [Tasks -> TaskRow]
  BY <1>0, RequestUser DEF TypeOK
<1>2. CASE InsertTask(r)
  <2> PICK t \in Tasks : /\ task[t].state = "absent"
                         /\ task' = [task EXCEPT ![t] = [state |-> "live",
                                                         assignee |-> req[r].user]]
    BY <1>2 DEF InsertTask
  <2> QED
    BY <1>0, <1>1, <1>2 DEF InsertTask, TaskRow
<1>3. CASE Assign(r) \/ Unassign(r)
  <2>1. PICK u \in Users \cup {None} : WriteAssignee(r, u) /\ req[r].task \in Tasks
    BY <1>1, <1>3 DEF Assign, Unassign, RequestOK
  <2>2. There
    BY <2>1 DEF WriteAssignee, TypeOK
  <2>3. task' = [task EXCEPT ![req[r].task].assignee = u]
    BY <2>1 DEF WriteAssignee
  <2> QED
    BY <1>0, <1>1, <2>1, <2>2, <2>3 DEF TaskRow
<1> QED
  BY <1>2, <1>3

LEMMA OtherRowStep ==
  ASSUME TypeOK, NEW r \in Requests, OtherRow(r)
  PROVE  TypeOK' /\ Finishes(r)
<1>0. /\ InFlight(r) /\ Ends(r)
      /\ req[r].pc \in {"invite", "decline", "create", "assign", "unassign"}
      /\ UNCHANGED <<board, role, older>>
  BY DEF OtherRow, InsertInvite, Declined, InsertTask, Assign, Unassign, WriteAssignee,
         InFlight
<1>1. CASE InsertInvite(r) \/ Declined(r)
  <2>1. Finishes(r) /\ InviteType' /\ BoardType' /\ task' \in [Tasks -> TaskRow]
    BY <1>0, <1>1, InviteRowStep DEF Finishes, Touches, Departs, TypeOK
  <2> QED
    BY <1>0, <2>1, EndType, TypeParts, RowTypes DEF MembersType, Member
<1>2. CASE InsertTask(r) \/ Assign(r) \/ Unassign(r)
  <2>1. Finishes(r) /\ task' \in [Tasks -> TaskRow] /\ There /\ invite' = invite
    BY <1>0, <1>2, TaskRowStep DEF Finishes, Touches, Departs
  <2>2. BoardType' /\ InviteType'
    BY <1>0, <2>1, BoardStays, TypeParts DEF InviteType
  <2> QED
    BY <1>0, <2>1, <2>2, EndType, TypeParts, RowTypes DEF MembersType, Member
<1> QED
  BY <1>1, <1>2 DEF OtherRow

LEMMA StepsType ==
  ASSUME TypeOK, NEW r \in Requests, Steps(r)
  PROVE  TypeOK'
<1>1. /\ GoesOn(r, req'[r]) /\ req'[r] \in Request /\ RequestOK(req'[r])
  BY DEF Steps
<1>2. RequestType'
  BY <1>1, GoOnType, TypeParts DEF GoesOn
<1>3. MembersType' /\ InviteType' /\ BoardType' /\ task' \in [Tasks -> TaskRow]
  BY <1>1, TypeParts DEF GoesOn, MembersType, InviteType, BoardType, Member, There, Pending, Stored
<1> QED
  BY <1>2, <1>3, RowTypes

LEMMA AdvanceStep ==
  ASSUME TypeOK, NEW r \in Requests, Advance(r)
  PROVE  TypeOK' /\ (Steps(r) \/ Finishes(r))
BY GoesOnSteps, StepsType, EnterStep, LeaveStep, SucceedStep, DissolveStep,
   WriteRoleStep, OtherRowStep DEF Advance, OtherRow

LEMMA AtOnceType ==
  ASSUME TypeOK, AtOnce
  PROVE  TypeOK' /\ UNCHANGED req
<1>1. ASSUME NEW by \in Users, RemoveBoard(by) PROVE TypeOK' /\ UNCHANGED req
  <2>1. BoardGoes /\ UNCHANGED req
    BY <1>1 DEF RemoveBoard
  <2>2. RequestType'
    BY <2>1, TypeParts DEF RequestType, RequestOK, Departs
  <2> QED
    BY <2>1, <2>2, BoardGoesType, RowTypes
<1>2. ASSUME NEW t \in Tasks, CreateTask(t) PROVE TypeOK' /\ UNCHANGED req
  <2>1. /\ There /\ task' = [task EXCEPT ![t].state = "live"]
        /\ UNCHANGED <<board, role, older, invite, req>>
    BY <1>2 DEF CreateTask
  <2>2. task' \in [Tasks -> TaskRow]
    BY <2>1 DEF TypeOK, TaskRow
  <2>3. MembersType' /\ InviteType' /\ BoardType' /\ RequestType'
    BY <2>1, BoardStays, TypeParts
    DEF MembersType, InviteType, RequestType, Member, RequestOK, Departs
  <2> QED
    BY <2>1, <2>2, <2>3, RowTypes
<1>3. ASSUME NEW t \in Tasks, DeleteTask(t) PROVE TypeOK' /\ UNCHANGED req
  <2>1. /\ task[t].state = "live" /\ task' = [task EXCEPT ![t].state = "deleted"]
        /\ UNCHANGED <<board, role, older, invite, req>>
    BY <1>3 DEF DeleteTask
  <2>2. task' \in [Tasks -> TaskRow] /\ There
    BY <2>1 DEF TypeOK, TaskRow, Stored
  <2>3. MembersType' /\ InviteType' /\ BoardType' /\ RequestType'
    BY <2>1, <2>2, BoardStays, TypeParts
    DEF MembersType, InviteType, RequestType, Member, RequestOK, Departs
  <2> QED
    BY <2>1, <2>2, <2>3, RowTypes
<1> QED
  BY <1>1, <1>2, <1>3 DEF AtOnce

LEMMA FailType ==
  ASSUME TypeOK, NEW r \in Requests, Fail(r)
  PROVE  TypeOK'
<1>1. Ends(r) /\ UNCHANGED <<board, role, older, invite, task>>
  BY DEF Fail
<1>2. RequestType'
  BY <1>1, EndType, TypeParts
<1>3. MembersType' /\ InviteType' /\ BoardType' /\ task' \in [Tasks -> TaskRow]
  BY <1>1, TypeParts DEF MembersType, InviteType, BoardType, Member, There, Pending, Stored
<1> QED
  BY <1>2, <1>3, RowTypes

LEMMA NextType == TypeOK /\ [Next]_vars => TypeOK'
<1> SUFFICES ASSUME TypeOK, [Next]_vars PROVE TypeOK'
  OBVIOUS
<1>1. CASE UNCHANGED vars
  BY <1>1 DEF vars, TypeOK, There, Member, RequestOK, Departs, Pending, Stored
<1> QED
  BY <1>1, AcceptType, AdvanceStep, FailType, AtOnceType DEF Next

(***************************************************************************)
(* The tables and the handlers are well formed in every reachable state: a *)
(* board that is there has an owner, one that is not has no member, no     *)
(* pending invite and no task (removeMember and BoardService.remove delete *)
(* them all), only members have an age, and a handler remembers what its   *)
(* next statement needs.                                                   *)
(***************************************************************************)
THEOREM TypeCorrect == Spec => []TypeOK
BY InitType, NextType, PTL DEF Spec

-----------------------------------------------------------------------------
(* What a handler has read still holds when it writes *)

\* requests in flight are about different users, and an owner departs alone
RequestsApart ==
  \A r1, r2 \in Requests :
    InFlight(r1) /\ InFlight(r2) /\ r1 # r2 =>
      /\ req[r1].user # req[r2].user /\ ~ Departs(req[r1])
      /\ req[r1].task # None => req[r1].task # req[r2].task

(***************************************************************************)
(* The checks a handler has passed so far, as long as the board is there.  *)
(***************************************************************************)
Checked(q) ==
  /\ q.pc = "join" => q.user = board.owner
  /\ q.pc \in {"check", "remove", "role", "count", "write"} => q.user # board.owner
  /\ Departs(q) => q.user = board.owner
  /\ q.pc \in {"member", "promote", "dissolve"} => WithRole("ADMIN") \subseteq {q.user}
  /\ q.pc = "transfer" => role[q.next] = "ADMIN"
  /\ q.pc = "promote" => role[q.next] = "MEMBER"
  /\ q.pc = "dissolve" => WithRole("MEMBER") \subseteq {q.user}
  /\ q.pc = "invite" => ~ InvitedNow(q.user)
  /\ MayHave(q)

ChecksHold ==
  \A r \in Requests :
    InFlight(r) => board.state # "absent" /\ (There => Checked(req[r]))

CheckInv == TypeOK /\ RequestsApart /\ ChecksHold

LEMMA BeginAlone ==
  ASSUME TypeOK, Isolation # "none", NEW r \in Requests, NEW x \in Requests, x # r,
         NEW q \in Request, Begun(r, q), InFlight(x)
  PROVE  /\ q.user # req[x].user /\ ~ Departs(q) /\ ~ Departs(req[x])
         /\ q.task # None => q.task # req[x].task
BY ConstantAssumption DEF Begun, Begin, Quiet, Apart

(***************************************************************************)
(* What a step does to a handler: it is idle afterwards, it begins, it     *)
(* goes on with what it has just read, or it waits.                        *)
(***************************************************************************)
LEMMA RequestStep ==
  ASSUME TypeOK, [Next]_vars, NEW r \in Requests
  PROVE  \/ req'[r].pc = "idle"
         \/ Begun(r, req'[r])
         \/ Steps(r)
         \/ InFlight(r) /\ req'[r] = req[r]
<1> DEFINE Goal == \/ req'[r].pc = "idle"
                   \/ Begun(r, req'[r])
                   \/ Steps(r)
                   \/ InFlight(r) /\ req'[r] = req[r]
<1>0. req \in [Requests -> Request]
  BY DEF TypeOK
<1>1. CASE req'[r] = req[r]
  BY <1>1 DEF InFlight
<1>2. ASSUME NEW x \in Requests, Accept(x), req'[r] # req[r] PROVE Goal
  <2> PICK q \in Request : Begun(x, q)
    BY <1>2, AcceptBegins
  <2>1. req' = [req EXCEPT ![x] = q]
    BY DEF Begun, Begin
  <2> QED
    BY <1>0, <1>2, <2>1
<1>3. ASSUME NEW x \in Requests, Ends(x), req'[r] # req[r] PROVE Goal
  BY <1>0, <1>3, IdleType DEF Ends
<1>4. ASSUME NEW x \in Requests, Steps(x), req'[r] # req[r] PROVE Goal
  BY <1>0, <1>4 DEF Steps, GoesOn
<1> QED
  BY <1>1, <1>2, <1>3, <1>4, AdvanceStep, AtOnceType DEF Next, vars, Fail, Finishes

LEMMA ApartStep ==
  ASSUME CheckInv, [Next]_vars, Isolation # "none"
  PROVE  RequestsApart'
<1> SUFFICES ASSUME NEW r1 \in Requests, NEW r2 \in Requests, r1 # r2,
                    req'[r1].pc # "idle", req'[r2].pc # "idle"
             PROVE  /\ req'[r1].user # req'[r2].user /\ ~ Departs(req'[r1])
                    /\ req'[r1].task # None => req'[r1].task # req'[r2].task
  BY DEF RequestsApart, InFlight, Departs
<1>0. TypeOK /\ req \in [Requests -> Request]
  BY DEF CheckInv, TypeOK
<1>1. ASSUME NEW r \in Requests, NEW x \in Requests, x # r, req'[x].pc # "idle",
             Begun(r, req'[r])
      PROVE  /\ InFlight(x) /\ req'[x] = req[x]
             /\ req'[r].user # req[x].user /\ ~ Departs(req'[r]) /\ ~ Departs(req[x])
             /\ req'[r].task # None => req'[r].task # req[x].task
  <2>1. req'[x] = req[x] /\ req'[r] \in Request
    BY <1>0, <1>1 DEF Begun, Begin
  <2> QED
    BY <1>0, <1>1, <2>1, BeginAlone DEF InFlight
<1>2. CASE Begun(r1, req'[r1]) \/ Begun(r2, req'[r2])
  BY <1>1, <1>2
<1>3. CASE ~ Begun(r1, req'[r1]) /\ ~ Begun(r2, req'[r2])
  <2>1. ASSUME NEW r \in Requests, ~ Begun(r, req'[r]), req'[r].pc # "idle"
        PROVE  /\ InFlight(r) /\ req'[r].user = req[r].user /\ req'[r].task = req[r].task
               /\ Departs(req'[r]) => Departs(req[r])
    BY <1>0, <2>1, RequestStep DEF Steps
  <2> QED
    BY <1>3, <2>1 DEF CheckInv, RequestsApart
<1> QED
  BY <1>2, <1>3

(***************************************************************************)
(* While a handler waits for its next statement, the others change neither *)
(* the owner of the board nor the role of the user it is about nor the     *)
(* invites to that user nor who has its task; and if it is an owner who    *)
(* departs, no role.                                                       *)
(***************************************************************************)
LetsBe(r) ==
  /\ There /\ board'.owner = board.owner
  /\ role'[req[r].user] = role[req[r].user]
  /\ Departs(req[r]) => \A u \in Users : role'[u] = role[u]
  /\ \A i \in Invites :
       invite'[i].state = "pending" /\ invite'[i].to = req[r].user
         => invite'[i] = invite[i]
  /\ \A t \in Tasks :
       t = req[r].task /\ task[t].state # "absent"
         => task'[t].state # "absent" /\ task'[t].assignee = task[t].assignee

\* what neither begins, advances nor ends a handler
LEMMA AtOnceStep ==
  ASSUME TypeOK, AtOnce, There'
  PROVE  /\ UNCHANGED <<board, role, req>>
         /\ \A i \in Invites :
              invite'[i].state = "pending" => invite'[i] = invite[i]
         /\ \A t \in Tasks :
              /\ task'[t].assignee = task[t].assignee
              /\ task[t].state # "absent" => task'[t].state # "absent"
<1>0. task \in [Tasks -> TaskRow] /\ invite \in [Invites -> InviteRow]
  BY DEF TypeOK
<1>1. ASSUME NEW by \in Users, RemoveBoard(by) PROVE FALSE
  BY <1>1, BoardGoesType DEF RemoveBoard
<1>2. UNCHANGED <<board, role, req>>
  BY <1>1 DEF AtOnce, CreateTask, DeleteTask
<1>3. \A i \in Invites :
        invite'[i].state = "pending" => invite'[i] = invite[i]
  BY <1>0, <1>1 DEF AtOnce, CreateTask, DeleteTask, NoInvite
<1>4. \A t \in Tasks : /\ task'[t].assignee = task[t].assignee
                       /\ task[t].state # "absent" => task'[t].state # "absent"
  BY <1>0, <1>1
  DEF AtOnce, CreateTask, DeleteTask, TaskRow
<1> QED
  BY <1>2, <1>3, <1>4

LEMMA OthersStep ==
  ASSUME CheckInv, [Next]_vars, NEW r \in Requests, InFlight(r), req'[r] = req[r], There'
  PROVE  LetsBe(r)
<1>0. TypeOK /\ req \in [Requests -> Request] /\ req[r].user \in Users
  BY RequestUser DEF CheckInv, TypeOK
<1>1. CASE UNCHANGED <<board, role, invite, task>>
  BY <1>1 DEF There, LetsBe
<1>2. ASSUME NEW x \in Requests, Accept(x) PROVE UNCHANGED <<board, role, invite, task>>
  <2> PICK q \in Request : Begun(x, q)
    BY <1>0, <1>2, AcceptBegins
  <2>1. board.state # "absent"
    BY DEF CheckInv, ChecksHold
  <2> QED
    BY <2>1 DEF Begun, Begin
<1>3. ASSUME NEW x \in Requests, Finishes(x) PROVE LetsBe(r)
  <2>1. x # r
    BY <1>0, <1>3, IdleType DEF Finishes, Ends, InFlight
  <2>2. /\ req[x].user # req[r].user /\ ~ Departs(req[r]) /\ ~ Departs(req[x])
        /\ req[r].task # None => req[r].task # req[x].task
    BY <1>3, <2>1 DEF Finishes, CheckInv, RequestsApart
  <2>3. Touches(x)
    BY <1>3, <2>2 DEF Finishes
  <2>4. \A t \in Tasks :
          t = req[r].task /\ task[t].state # "absent"
            => task'[t].state # "absent" /\ task'[t].assignee = task[t].assignee
    BY <2>2, <2>3, ConstantAssumption DEF Touches
  <2> QED
    BY <1>0, <2>2, <2>3, <2>4 DEF Touches, LetsBe, There
<1>4. ASSUME AtOnce PROVE LetsBe(r)
  BY <1>0, <1>4, AtOnceStep DEF LetsBe, There
<1> QED
  BY <1>0, <1>1, <1>2, <1>3, <1>4, AdvanceStep DEF Next, vars, Fail, Steps, GoesOn

\* a board that was created never returns to the beginning
LEMMA BoardKept ==
  ASSUME TypeOK, [Next]_vars, board.state # "absent"
  PROVE  board'.state # "absent"
<1>1. ASSUME NEW r \in Requests, Accept(r) PROVE board' = board
  BY <1>1, AcceptBegins DEF Begun
<1>2. ASSUME There' PROVE board'.state # "absent"
  BY <1>2 DEF There
<1>3. ASSUME BoardGoes PROVE board'.state # "absent"
  BY <1>3 DEF BoardGoes, TypeOK, BoardRow
<1>4. ASSUME NEW r \in Requests, Finishes(r), ~ Dissolve(r),
             ~ TransferOwnership(r), ~ PromoteMember(r), Advance(r)
      PROVE  board' = board
  BY <1>4 DEF Advance, JoinOwner, DeleteMember, WriteRole, AddMember, InsertInvite, Accepted,
     Declined, InsertTask, Assign, Unassign, WriteAssignee, CheckRemover, FindNextAdmin,
     FindNextMember, ReadRole, CountAdmins, GoesOn
<1> QED
  BY <1>1, <1>2, <1>3, <1>4, AdvanceStep, SucceedStep
  DEF Next, vars, Fail, AtOnce, RemoveBoard, CreateTask, DeleteTask, Dissolve, Steps, GoesOn

LEMMA ChecksStep ==
  ASSUME CheckInv, [Next]_vars
  PROVE  ChecksHold'
<1> SUFFICES ASSUME NEW r \in Requests, req'[r].pc # "idle"
             PROVE  board'.state # "absent" /\ (There' => Checked(req[r])')
  BY DEF ChecksHold, InFlight
<1>0. TypeOK /\ TypeOK'
  BY NextType DEF CheckInv
<1>1. CASE Begun(r, req'[r])
  <2>1. UNCHANGED <<role, older, invite, task>> /\ There' /\ board'.state # "absent"
    BY <1>1 DEF Begun, Begin, There
  <2> QED
    BY <1>1, <2>1
    DEF Begun, Checked, Departs, InvitedNow, Pending, MayHave, OnBoard, Member, WithRole
<1>2. CASE Steps(r)
  <2>1. /\ UNCHANGED <<board, role, older, invite, task>> /\ InFlight(r)
        /\ req'[r].user = req[r].user
        /\ board.state # "absent" /\ (There => Checked(req[r]))
    BY <1>2 DEF Steps, GoesOn, CheckInv, ChecksHold
  <2>2. WithRole("ADMIN")' = WithRole("ADMIN") /\ WithRole("MEMBER")' = WithRole("MEMBER")
    BY <2>1 DEF WithRole
  <2>3. There' => There
    BY <2>1 DEF There
  <2>4. /\ req'[r].pc = "transfer" => role[req'[r].next] = "ADMIN"
        /\ req'[r].pc = "promote" => role[req'[r].next] = "MEMBER"
    BY <1>2 DEF Steps, WithRole
  <2>5. ASSUME There' PROVE Checked(req[r])'
    <3>1. Checked(req[r]) /\ board' = board
      BY <2>1, <2>3, <2>5
    <3>2. /\ req'[r].pc \in {"remove", "count", "write"} => req[r].user # board.owner
          /\ Departs(req'[r]) => req[r].user = board.owner
      BY <1>2, <3>1 DEF Steps, Checked
    <3>3. /\ req'[r].pc \in {"member", "promote", "dissolve"} =>
               WithRole("ADMIN") \subseteq {req[r].user}
          /\ req'[r].pc = "dissolve" => WithRole("MEMBER") \subseteq {req[r].user}
      BY <1>2, <3>1 DEF Steps, Checked
    <3>4. req'[r].pc \notin {"join", "check", "role", "invite", "create", "assign"}
      BY <1>2 DEF Steps
    <3> QED
      BY <2>1, <2>2, <2>4, <3>1, <3>2, <3>3, <3>4 DEF Checked, MayHave, Departs
  <2> QED
    BY <2>1, <2>5
<1>3. CASE InFlight(r) /\ req'[r] = req[r]
  <2>1. board.state # "absent" /\ (There => Checked(req[r]))
    BY <1>3 DEF CheckInv, ChecksHold
  <2>2. board'.state # "absent"
    BY <1>0, <2>1, BoardKept
  <2>3. ASSUME There' PROVE Checked(req[r])'
    <3>1. LetsBe(r) /\ There /\ board'.owner = board.owner
      BY <1>3, <2>3, OthersStep DEF LetsBe
    <3>2. Checked(req[r])
      BY <2>1, <3>1
    <3>3. Departs(req[r]) => /\ WithRole("ADMIN")' = WithRole("ADMIN")
                             /\ WithRole("MEMBER")' = WithRole("MEMBER")
      BY <3>1 DEF LetsBe, WithRole
    <3>4. req[r].pc \in {"transfer", "promote"} => req[r].next \in Users /\ Departs(req[r])
      BY <1>0 DEF TypeOK, RequestOK, Departs
    <3>5. InvitedNow(req[r].user)' => InvitedNow(req[r].user)
      BY <1>3, <3>1 DEF LetsBe, InvitedNow, Pending
    <3>6. OnBoard(req[r].user) => OnBoard(req[r].user)'
      BY <1>3, <3>1 DEF LetsBe, OnBoard, Member
    <3>7. req[r].pc = "assign" => req[r].task \in Tasks
      BY <1>0 DEF TypeOK, RequestOK
    <3>8. MayHave(req[r])'
      BY <1>3, <3>1, <3>2, <3>6, <3>7 DEF LetsBe, Checked, MayHave
    <3>9. Departs(req[r]) => \A u \in Users : role'[u] = role[u]
      BY <3>1 DEF LetsBe
    <3> QED
      BY <1>3, <3>1, <3>2, <3>3, <3>4, <3>5, <3>8, <3>9 DEF Checked, Departs
  <2> QED
    BY <2>2, <2>3
<1> QED
  BY <1>0, <1>1, <1>2, <1>3, RequestStep

LEMMA CheckInit == Init => CheckInv
BY InitType, IdleType DEF CheckInv, RequestsApart, ChecksHold, Init, InFlight

LEMMA CheckStep ==
  ASSUME CheckInv, [Next]_vars, Isolation # "none"
  PROVE  CheckInv'
BY NextType, ApartStep, ChecksStep DEF CheckInv

-----------------------------------------------------------------------------
(* The owner *)

\* create is about to make the owner a member
Joining(r) == req[r].pc = "join" /\ req[r].user = board.owner

\* the owner is an ADMIN, or create is about to make it one
OwnerJoins == There => role[board.owner] = "ADMIN" \/ \E r \in Requests : Joining(r)

OwnerInv == CheckInv /\ OwnerJoins

LEMMA OwnerStep ==
  ASSUME OwnerInv, [Next]_vars, Isolation # "none", ~ HalfCreated
  PROVE  OwnerJoins'
<1> SUFFICES ASSUME There' PROVE role'[board'.owner] = "ADMIN" \/ \E r \in Requests : Joining(r)'
  BY DEF OwnerJoins
<1> DEFINE Goal == role'[board'.owner] = "ADMIN" \/ \E r \in Requests : Joining(r)'
<1>0. /\ CheckInv /\ TypeOK /\ req \in [Requests -> Request]
      /\ role \in [Users -> Role \cup {None}]
      /\ There => board.owner \in Users
  BY DEF OwnerInv, CheckInv, TypeOK
\* a step that ends no join and leaves the owner what it was
<1>1. ASSUME There, board' = board, role'[board.owner] = role[board.owner],
             \A r \in Requests : req[r].pc = "join" => req'[r] = req[r]
      PROVE  Goal
  BY <1>1 DEF OwnerInv, OwnerJoins, Joining
<1>2. ASSUME NEW x \in Requests, Accept(x) PROVE Goal
  <2> PICK q \in Request : Begun(x, q)
    BY <1>0, <1>2, AcceptBegins
  <2>1. req' = [req EXCEPT ![x] = q] /\ role' = role /\ ~ InFlight(x)
    BY DEF Begun, Begin
  <2>2. CASE There /\ UNCHANGED board
    <3>1. \A r \in Requests : req[r].pc = "join" => req'[r] = req[r]
      BY <1>0, <2>1 DEF InFlight
    <3> QED
      BY <1>1, <2>1, <2>2, <3>1
  <2>3. CASE q.pc = "join" /\ board' = [state |-> "there", owner |-> q.user]
    BY <1>0, <2>1, <2>3 DEF Joining
  <2> QED
    BY <2>2, <2>3 DEF Begun
<1>3. ASSUME NEW x \in Requests, Finishes(x), Touches(x), req[x].user # board.owner,
             req[x].pc # "join"
      PROVE  Goal
  <2>1. \A r \in Requests : req[r].pc = "join" => req'[r] = req[r]
    BY <1>0, <1>3 DEF Finishes, Ends
  <2> QED
    BY <1>0, <1>1, <1>3, <2>1 DEF Touches, There
\* the user of a statement that makes a member is not the owner, or create is running
<1>4. ASSUME NEW x \in Requests, JoinOwner(x) \/ AddMember(x) \/ Accepted(x)
      PROVE  Goal
  <2>1. /\ Finishes(x) /\ ~ Member(req[x].user)
        /\ (JoinOwner(x) => role'[req[x].user] = "ADMIN")
    BY <1>0, <1>4, EnterStep
  <2>2. /\ ~ Departs(req[x]) /\ InFlight(x) /\ Touches(x)
        /\ req[x].pc = "join" => JoinOwner(x)
    BY <1>4, <2>1 DEF JoinOwner, AddMember, Accepted, Departs, Finishes
  <2>3. There /\ board' = board /\ Checked(req[x])
    BY <1>0, <2>2 DEF Touches, There, CheckInv, ChecksHold
  <2>4. CASE JoinOwner(x)
    BY <2>1, <2>3, <2>4 DEF JoinOwner, Checked
  <2>5. CASE req[x].pc # "join"
    <3>1. ASSUME req[x].user = board.owner PROVE FALSE
      <4>1. role[board.owner] # "ADMIN"
        BY <2>1, <3>1, ConstantAssumption DEF Member, Role
      <4> PICK r \in Requests : Joining(r)
        BY <2>3, <4>1 DEF OwnerInv, OwnerJoins
      <4>2. InFlight(r) /\ r # x /\ req[r].user = req[x].user
        BY <2>5, <3>1 DEF Joining, InFlight
      <4> QED
        BY <1>0, <2>2, <4>2 DEF CheckInv, RequestsApart
    <3> QED
      BY <1>3, <2>1, <2>2, <2>5, <3>1
  <2> QED
    BY <2>2, <2>4, <2>5
<1>5. ASSUME NEW x \in Requests, DeleteMember(x) \/ WriteRole(x)
      PROVE  Goal
  <2>1. Finishes(x) /\ req[x].pc \in {"remove", "write"}
    BY <1>0, <1>5, LeaveStep, WriteRoleStep DEF DeleteMember, WriteRole
  <2>2. Touches(x) /\ req[x].user # board.owner
    BY <1>0, <2>1 DEF Finishes, Touches, There, Departs, CheckInv, ChecksHold, Checked
  <2> QED
    BY <1>3, <2>1, <2>2
<1>6. ASSUME NEW x \in Requests, OtherRow(x) PROVE Goal
  <2>1. /\ Finishes(x) /\ req[x].pc \in {"invite", "decline", "create", "assign", "unassign"}
        /\ role' = role
    BY <1>0, <1>6, OtherRowStep
    DEF OtherRow, InsertInvite, Declined, InsertTask, Assign, Unassign, WriteAssignee
  <2>2. Touches(x) /\ \A r \in Requests : req[r].pc = "join" => req'[r] = req[r]
    BY <1>0, <2>1 DEF Finishes, Departs, Ends
  <2> QED
    BY <1>1, <2>1, <2>2 DEF Touches, There
<1>7. ASSUME NEW x \in Requests, TransferOwnership(x) \/ PromoteMember(x)
      PROVE  Goal
  <2>1. /\ There /\ board'.owner = req[x].next
        /\ role'[req[x].next] = IF PromoteMember(x) THEN "ADMIN" ELSE role[req[x].next]
    BY <1>0, <1>7, SucceedStep
  <2>2. TransferOwnership(x) => req[x].pc = "transfer" /\ Checked(req[x])
    BY <1>0, <2>1 DEF TransferOwnership, CheckInv, ChecksHold, InFlight
  <2> QED
    BY <1>7, <2>1, <2>2 DEF Checked
<1>8. ASSUME NEW x \in Requests, Steps(x) PROVE Goal
  <2>1. /\ UNCHANGED <<board, role>>
        /\ \A r \in Requests : r # x => req'[r] = req[r]
    BY <1>0, <1>8 DEF Steps, GoesOn
  <2>2. There /\ req[x].pc # "join"
    BY <1>8, <2>1 DEF Steps, There
  <2> QED
    BY <1>1, <2>1, <2>2
<1>9. ASSUME NEW x \in Requests, Fail(x) PROVE Goal
  <2>1. /\ UNCHANGED <<board, role>> /\ There /\ req[x].pc # "join"
        /\ \A r \in Requests : r # x => req'[r] = req[r]
    BY <1>0, <1>9 DEF Fail, Ends, There
  <2> QED
    BY <1>1, <2>1
<1>10. ASSUME AtOnce PROVE UNCHANGED <<board, role, req>>
  BY <1>0, <1>10, AtOnceStep
<1>11. ASSUME UNCHANGED <<board, role, req>> PROVE Goal
  BY <1>1, <1>11 DEF There
<1>12. ASSUME NEW x \in Requests, Advance(x) PROVE Goal
  <2>1. CASE Dissolve(x)
    BY <1>0, <2>1, DissolveStep
  <2>2. CASE CheckRemover(x) \/ FindNextAdmin(x) \/ FindNextMember(x) \/ ReadRole(x)
               \/ CountAdmins(x)
    BY <1>0, <1>8, <2>2, GoesOnSteps
  <2> QED
    BY <1>4, <1>5, <1>6, <1>7, <1>12, <2>1, <2>2 DEF Advance, OtherRow
<1> QED
  BY <1>2, <1>9, <1>10, <1>11, <1>12 DEF Next, vars

(***************************************************************************)
(* While requests in flight are about different users, an owner departs    *)
(* alone and create is not cut off, the owner of the board is an ADMIN     *)
(* member, for any number of users and requests: every removal, demotion,  *)
(* invite and succession of board.service.ts finds at its write what it    *)
(* found when it looked.                                                   *)
(***************************************************************************)
THEOREM OwnerAdmin == Isolation # "none" /\ ~ HalfCreated => (Spec => []OwnerIsAdmin)
<1> SUFFICES ASSUME Isolation # "none", ~ HalfCreated PROVE Spec => []OwnerIsAdmin
  OBVIOUS
<1>1. Init => OwnerInv
  BY CheckInit DEF OwnerInv, OwnerJoins, Init, There
<1>2. OwnerInv /\ [Next]_vars => OwnerInv'
  BY CheckStep, OwnerStep DEF OwnerInv
<1>3. OwnerInv => OwnerIsAdmin
  BY DEF OwnerInv, OwnerJoins, OwnerIsAdmin, Joining
<1> QED
  BY <1>1, <1>2, <1>3, PTL DEF Spec

-----------------------------------------------------------------------------
(* Invites *)

LEMMA InvitesStep ==
  ASSUME CheckInv, OneInvitePerUser, [Next]_vars
  PROVE  OneInvitePerUser'
<1>0. TypeOK /\ invite \in [Invites -> InviteRow]
  BY DEF CheckInv, TypeOK
\* invites that are there already cause no trouble
<1>1. ASSUME \A i \in Invites :
               invite'[i].state = "pending" => invite'[i] = invite[i]
      PROVE  OneInvitePerUser'
  BY <1>1 DEF OneInvitePerUser, Pending
<1>2. ASSUME NEW r \in Requests, InsertInvite(r) PROVE OneInvitePerUser'
  <2>1. There /\ req[r].pc = "invite"
    BY <1>2 DEF InsertInvite
  <2>2. ~ InvitedNow(req[r].user)
    BY <2>1 DEF CheckInv, ChecksHold, Checked, InFlight
  <2> PICK i \in Invites :
        invite' = [invite EXCEPT ![i] = [state |-> "pending",
                                         to |-> req[r].user, role |-> req[r].role]]
    BY <1>2 DEF InsertInvite
  <2> QED
    BY <1>0, <2>2 DEF OneInvitePerUser, InvitedNow, Pending
<1>3. ASSUME NEW r \in Requests, Accepted(r) \/ Declined(r) PROVE OneInvitePerUser'
  <2>1. CASE Accepted(r)
    BY <1>0, <1>1, <2>1 DEF Accepted, NoInvite
  <2>2. CASE Declined(r)
    BY <1>0, <1>1, <2>2 DEF Declined, NoInvite
  <2> QED
    BY <1>3, <2>1, <2>2
<1>4. ASSUME BoardGoes PROVE OneInvitePerUser'
  BY <1>0, <1>1, <1>4 DEF BoardGoes, Withdrawn, NoInvite, Pending
<1>5. ASSUME UNCHANGED invite PROVE OneInvitePerUser'
  BY <1>1, <1>5
<1>6. ASSUME NEW r \in Requests, Accept(r) PROVE UNCHANGED invite
  BY <1>0, <1>6, AcceptBegins DEF Begun, Begin
<1>7. ASSUME AtOnce PROVE OneInvitePerUser'
  <2>1. CASE There'
    BY <1>0, <1>1, <1>7, <2>1, AtOnceStep
  <2>2. CASE ~ There'
    <3>1. \A i \in Invites : ~ Pending(i)'
      BY <1>0, <1>7, <2>2, AtOnceType DEF TypeOK
    <3> QED
      BY <3>1 DEF OneInvitePerUser
  <2> QED
    BY <2>1, <2>2
<1> QED
  BY <1>2, <1>3, <1>4, <1>5, <1>6, <1>7
  DEF Next, vars, Advance, Fail, Dissolve, JoinOwner, CheckRemover, DeleteMember,
      FindNextAdmin, FindNextMember, TransferOwnership, PromoteMember, ReadRole, CountAdmins,
      WriteRole, AddMember, InsertTask, Assign, Unassign, WriteAssignee, GoesOn

(***************************************************************************)
(* While requests in flight are about different users, no user has two     *)
(* pending invites: the search for one (board.service.ts:525) is still     *)
(* right at the insert (549).                                              *)
(***************************************************************************)
THEOREM OneInvite == Isolation # "none" => (Spec => []OneInvitePerUser)
<1> SUFFICES ASSUME Isolation # "none" PROVE Spec => []OneInvitePerUser
  OBVIOUS
<1> DEFINE Inv == CheckInv /\ OneInvitePerUser
<1>1. Init => Inv
  BY CheckInit DEF Init, OneInvitePerUser, NoInvite, Pending
<1>2. Inv /\ [Next]_vars => Inv'
  BY CheckStep, InvitesStep
<1> QED
  BY <1>1, <1>2, PTL DEF Spec

-----------------------------------------------------------------------------
(* Succession and assignment: properties of a step *)

LEMMA SuccessionStep ==
  ASSUME CheckInv, [Next]_vars
  PROVE  /\ There /\ There' /\ board'.owner # board.owner =>
              \/ board'.owner \in Others("ADMIN")
              \/ board'.owner \in Others("MEMBER") /\ Others("ADMIN") = {}
         /\ \A r \in Requests :
              Dissolve(r) => Others("ADMIN") = {} /\ Others("MEMBER") = {}
<1>0. TypeOK
  BY DEF CheckInv
<1>1. ASSUME NEW r \in Requests, Departs(req[r]), There
      PROVE  req[r].user = board.owner /\ Checked(req[r])
  BY <1>1 DEF Departs, CheckInv, ChecksHold, Checked, InFlight
<1>2. ASSUME NEW r \in Requests, TransferOwnership(r)
      PROVE  board'.owner \in Others("ADMIN")
  <2>1. There /\ req[r].pc = "transfer" /\ board'.owner = req[r].next
    BY <1>0, <1>2, SucceedStep DEF TransferOwnership
  <2>2. req[r].next \in Users \ {req[r].user}
    BY <1>0, <2>1 DEF TypeOK, RequestOK
  <2> QED
    BY <1>1, <2>1, <2>2 DEF Departs, Checked, Others, WithRole
<1>3. ASSUME NEW r \in Requests, PromoteMember(r)
      PROVE  board'.owner \in Others("MEMBER") /\ Others("ADMIN") = {}
  <2>1. There /\ req[r].pc = "promote" /\ board'.owner = req[r].next
    BY <1>0, <1>3, SucceedStep DEF PromoteMember
  <2>2. req[r].next \in Users \ {req[r].user}
    BY <1>0, <2>1 DEF TypeOK, RequestOK
  <2> QED
    BY <1>1, <2>1, <2>2 DEF Departs, Checked, Others, WithRole
<1>4. ASSUME NEW r \in Requests, Dissolve(r)
      PROVE  Others("ADMIN") = {} /\ Others("MEMBER") = {}
  <2>1. There /\ req[r].pc = "dissolve"
    BY <1>4 DEF Dissolve, BoardGoes
  <2> QED
    BY <1>1, <2>1 DEF Departs, Checked, Others
<1>5. ASSUME There, There', board'.owner # board.owner
      PROVE  \E r \in Requests : TransferOwnership(r) \/ PromoteMember(r)
  <2>1. ASSUME NEW r \in Requests, Accept(r) PROVE FALSE
    BY <1>0, <1>5, <2>1, AcceptBegins DEF Begun, There
  <2>2. ~ BoardGoes
    BY <1>0, <1>5, BoardGoesType
  <2> QED
    BY <1>5, <2>1, <2>2
    DEF Next, vars, Advance, Fail, AtOnce, RemoveBoard, CreateTask, DeleteTask,
        Dissolve, JoinOwner, CheckRemover, DeleteMember,
        FindNextAdmin, FindNextMember, ReadRole, CountAdmins, WriteRole, AddMember,
        InsertInvite, Accepted, Declined, InsertTask, Assign, Unassign, WriteAssignee, GoesOn
<1> QED
  BY <1>2, <1>3, <1>4, <1>5

(***************************************************************************)
(* While an owner departs alone, the board goes to another ADMIN, to a     *)
(* MEMBER only if there is no other ADMIN, never to an observer; and it is *)
(* dissolved only if there is neither (board.service.ts:243-264).          *)
(***************************************************************************)
THEOREM Succession == Isolation # "none" => (Spec => SuccessionFollowsRank)
<1> SUFFICES ASSUME Isolation # "none" PROVE Spec => SuccessionFollowsRank
  OBVIOUS
<1>1. Init => CheckInv
  BY CheckInit
<1>2. CheckInv /\ [Next]_vars => CheckInv'
  BY CheckStep
<1>3. CheckInv /\ [Next]_vars =>
        [/\ There /\ There' /\ board'.owner # board.owner =>
              \/ board'.owner \in Others("ADMIN")
              \/ board'.owner \in Others("MEMBER") /\ Others("ADMIN") = {}
         /\ \A r \in Requests :
              Dissolve(r) => Others("ADMIN") = {} /\ Others("MEMBER") = {}]_vars
  BY SuccessionStep
<1> QED
  BY <1>1, <1>2, <1>3, PTL DEF Spec, SuccessionFollowsRank

LEMMA AssigneeStep ==
  ASSUME CheckInv, [Next]_vars, NEW t \in Tasks,
         task'[t].assignee \notin {None, task[t].assignee}
  PROVE  OnBoard(task'[t].assignee)
<1>0. TypeOK /\ task \in [Tasks -> TaskRow]
  BY DEF CheckInv, TypeOK
<1>1. ASSUME NEW r \in Requests, Assign(r) PROVE OnBoard(task'[t].assignee)
  <2>1. /\ req[r].pc = "assign" /\ req[r].task \in Tasks
        /\ task' = [task EXCEPT ![req[r].task].assignee = req[r].user]
        /\ Stored(req[r].task)
    BY <1>0, <1>1 DEF Assign, WriteAssignee, TypeOK, RequestOK
  <2>2. There
    BY <1>0, <2>1 DEF TypeOK
  <2>3. t = req[r].task /\ task'[t].assignee = req[r].user
    BY <1>0, <2>1 DEF TaskRow
  <2>4. OnBoard(req[r].user) \/ task[t].assignee = req[r].user
    BY <2>1, <2>2, <2>3 DEF CheckInv, ChecksHold, Checked, MayHave, InFlight
  <2> QED
    BY <2>3, <2>4
<1>2. ASSUME BoardGoes PROVE FALSE
  BY <1>0, <1>2 DEF BoardGoes, NoTask
<1>3. ASSUME AtOnce PROVE FALSE
  BY <1>0, <1>2, <1>3
  DEF AtOnce, RemoveBoard, CreateTask, DeleteTask, TaskRow
<1>4. ASSUME UNCHANGED task PROVE FALSE
  BY <1>4
<1>5. ASSUME NEW r \in Requests, Accept(r) PROVE UNCHANGED task
  BY <1>0, <1>5, AcceptBegins DEF Begun, Begin
<1>6. ASSUME NEW r \in Requests, InsertTask(r) PROVE OnBoard(task'[t].assignee)
  <2>1. There /\ req[r].pc = "create" /\ task'[t].assignee = req[r].user
    BY <1>0, <1>6 DEF InsertTask, TaskRow
  <2> QED
    BY <2>1 DEF CheckInv, ChecksHold, Checked, MayHave, InFlight
<1>7. ASSUME NEW r \in Requests, Unassign(r) PROVE FALSE
  <2>1. task' = [task EXCEPT ![req[r].task].assignee = None]
    BY <1>7 DEF Unassign, WriteAssignee
  <2> QED
    BY <1>0, <2>1 DEF TaskRow
<1> QED
  BY <1>1, <1>2, <1>3, <1>4, <1>5, <1>6, <1>7
  DEF Next, vars, Advance, Fail, Dissolve, JoinOwner, CheckRemover, DeleteMember,
      FindNextAdmin, FindNextMember, TransferOwnership, PromoteMember, ReadRole, CountAdmins,
      WriteRole, AddMember, InsertInvite, Accepted, Declined, GoesOn

(***************************************************************************)
(* While requests in flight are about different users and tasks, a task is *)
(* given only to who is on the board at the time of the write, not only of *)
(* the check (task.service.ts:64-84), and an assignee that update writes   *)
(* unchecked is the one the task still has.                                *)
(***************************************************************************)
THEOREM AssignedMember == Isolation # "none" => (Spec => AssignedToMember)
<1> SUFFICES ASSUME Isolation # "none" PROVE Spec => AssignedToMember
  OBVIOUS
<1>1. Init => CheckInv
  BY CheckInit
<1>2. CheckInv /\ [Next]_vars => CheckInv'
  BY CheckStep
<1>3. CheckInv /\ [Next]_vars =>
        [\A t \in Tasks :
           task'[t].assignee \notin {None, task[t].assignee}
             => OnBoard(task'[t].assignee)]_vars
  BY AssigneeStep
<1> QED
  BY <1>1, <1>2, <1>3, PTL DEF Spec, AssignedToMember

=============================================================================
