---------------------------- MODULE BoardMembership ----------------------------
(***************************************************************************)
(* The members of one board: BoardService (back-end/src/board/             *)
(* board.service.ts), BoardMemberService.add (back-end/src/board-member/)  *)
(* and the assignment of tasks to members in TaskService.                  *)
(*                                                                         *)
(* A handler checks the roles of its requester and of the user it is about *)
(* at some awaits and writes at a later one. Reads that follow each other  *)
(* and of which a later write checks the outcome again (the primary key of *)
(* BoardMember) are one action.                                            *)
(*                                                                         *)
(* The other boards come in where responseInvite reaches across: it takes  *)
(* the board from its path and does not compare it with that of the        *)
(* invite. Their invites have no row here: a user may have any.            *)
(*                                                                         *)
(* Left out: BoardMemberService.remove, whose route DELETE                 *)
(* boards/:boardId/members/:userId is also that of BoardController, which  *)
(* app.module.ts registers first and which therefore answers all of its    *)
(* requests.                                                               *)
(***************************************************************************)
EXTENDS Integers, FiniteSets

CONSTANTS
  Users,
  Tasks,        \* task ids (uuids: used once only), of the lists of the board
  Invites,      \* invite ids (uuids)
  InviteRoles,  \* the roles that clients put in the body of an invite
  Requests,     \* the handlers that can be in flight at one time
  Isolation,    \* "serial": one request at a time; "apart": requests in flight are
                \* about different users and tasks, and an owner leaves alone; "none"
  HalfCreated,  \* TRUE: create may end between its two statements
  None          \* null, undefined

Role == {"ADMIN", "MEMBER", "OBSERVER"}

ASSUME ConstantAssumption ==
  /\ IsFiniteSet(Users) /\ InviteRoles \subseteq Role
  /\ Isolation \in {"serial", "apart", "none"} /\ HalfCreated \in BOOLEAN
  /\ None \notin Users \cup Tasks \cup Invites \cup Role

VARIABLES
  board,   \* the row of Board: its owner, and whether it is there
  role,    \* the table BoardMember: BoardMember.role, None for who is no member
  older,   \* its order by joinedAt: the pairs <<u, v>> of members, u before v
  invite,  \* the table Invite: the invites to this board
  task,    \* the table Task: the assignee
  req      \* for each handler what it is about to do, and what it remembers

vars == <<board, role, older, invite, task, req>>

BoardRow == [state: {"absent", "there", "gone"}, owner: Users \cup {None}]
InviteRow == [state: {"absent", "pending", "gone"},
              to: Users \cup {None}, role: Role \cup {None}]
\* a deleted task keeps its row (deletedAt), and its assignee
TaskRow == [state: {"absent", "live", "deleted", "gone"}, assignee: Users \cup {None}]

NoInvite(state) == [state |-> state, to |-> None, role |-> None]
NoTask(state) == [state |-> state, assignee |-> None]

(***************************************************************************)
(* `user' is the user a request is about, `by' its requester, `role' the   *)
(* role in its body, `next' the successor of an owner who leaves.          *)
(***************************************************************************)
Request == [pc: {"idle", "join", "check", "remove", "admin", "member", "transfer",
                 "promote", "dissolve", "role", "count", "write", "add", "invite",
                 "accept", "decline", "create", "assign", "unassign"},
            by: Users \cup {None}, user: Users \cup {None}, role: Role \cup {None},
            next: Users \cup {None}, invite: Invites \cup {None},
            task: Tasks \cup {None}]

Idle == [pc |-> "idle", by |-> None, user |-> None, role |-> None, next |-> None,
         invite |-> None, task |-> None]

There == board.state = "there"
InFlight(r) == req[r].pc # "idle"
Departs(q) == q.pc \in {"admin", "member", "transfer", "promote", "dissolve"}
Member(u) == role[u] # None
WithRole(x) == {u \in Users : role[u] = x}
Pending(i) == invite[i].state = "pending"
Stored(t) == task[t].state \in {"live", "deleted"}

RequestOK(q) ==
  /\ q.pc # "idle" => q.user \in Users
  /\ q.pc = "check" \/ Departs(q) => q.by \in Users
  /\ Departs(q) => q.by = q.user
  /\ q.pc \in {"transfer", "promote"} => q.next \in Users \ {q.user}
  /\ q.pc \in {"role", "count", "write", "add", "invite", "accept"} => q.role \in Role
  /\ q.pc = "decline" => q.invite \in Invites
  /\ q.pc \in {"assign", "unassign"} => q.task \in Tasks

(***************************************************************************)
(* A board that is there has an owner; one that is not has neither members *)
(* nor pending invites nor tasks (their foreign keys); a pending invite    *)
(* has a recipient and a role; only members have an age.                   *)
(***************************************************************************)
TypeOK ==
  /\ board \in BoardRow
  /\ role \in [Users -> Role \cup {None}]
  /\ older \subseteq {u \in Users : Member(u)} \X {u \in Users : Member(u)}
  /\ invite \in [Invites -> InviteRow] /\ task \in [Tasks -> TaskRow]
  /\ There => board.owner \in Users
  /\ ~ There =>
       /\ \A u \in Users : ~ Member(u)
       /\ \A i \in Invites : ~ Pending(i)
       /\ \A t \in Tasks : ~ Stored(t)
  /\ \A i \in Invites : Pending(i) => invite[i].to \in Users /\ invite[i].role \in Role
  /\ req \in [Requests -> Request] /\ \A r \in Requests : RequestOK(req[r])

Init ==
  /\ board = [state |-> "absent", owner |-> None]
  /\ role = [u \in Users |-> None]
  /\ older = {}
  /\ invite = [i \in Invites |-> NoInvite("absent")]
  /\ task = [t \in Tasks |-> NoTask("absent")]
  /\ req = [r \in Requests |-> Idle]

(***************************************************************************)
(* The server serializes nothing: Isolation says how far the requests of   *)
(* an instance keep out of each other's way.                               *)
(***************************************************************************)
Quiet == Isolation = "serial" => \A r \in Requests : ~ InFlight(r)

Apart(q) ==
  Isolation = "apart" =>
    \A r \in Requests : InFlight(r) =>
      /\ q.user # req[r].user
      /\ q.task # None => q.task # req[r].task
      /\ ~ Departs(q) /\ ~ Departs(req[r])

Begin(r, q) ==
  /\ ~ InFlight(r)
  /\ Quiet /\ Apart(q)
  /\ req' = [req EXCEPT ![r] = q]
  /\ UNCHANGED <<role, older, invite, task>>

Ends(r) == req' = [req EXCEPT ![r] = Idle]

\* the next await of the same handler, which has only read so far
GoesOn(r, q) ==
  /\ req' = [req EXCEPT ![r] = q]
  /\ UNCHANGED <<board, role, older, invite, task>>

\* boardMember.create: the primary key is the pair of board and user
Enters(u, x) ==
  /\ There /\ ~ Member(u)
  /\ role' = [role EXCEPT ![u] = x]
  /\ older' = older \cup {<<v, u>> : v \in {w \in Users : Member(w)}}

\* boardMember.delete, of a table with these roles
Leaves(u, roles) ==
  /\ Member(u)
  /\ role' = [roles EXCEPT ![u] = None]
  /\ older' = {p \in older : p[1] # u /\ p[2] # u}

-----------------------------------------------------------------------------
(* BoardService.create *)

BeginCreate(r, u) ==
  /\ board.state = "absent"
  /\ Begin(r, [Idle EXCEPT !.pc = "join", !.user = u])
  /\ board' = [state |-> "there", owner |-> u]

JoinOwner(r) ==
  /\ req[r].pc = "join"
  /\ Enters(req[r].user, "ADMIN")
  /\ Ends(r)
  /\ UNCHANGED <<board, invite, task>>

-----------------------------------------------------------------------------
(* BoardService.removeMember *)

\* any member gets past the guard; only the owner may remove the owner
BeginRemoveMember(r, by, u) ==
  /\ There /\ Member(by)
  /\ u = board.owner => by = u
  /\ Begin(r, [Idle EXCEPT !.pc = IF u = board.owner THEN "admin" ELSE "check",
                           !.by = by, !.user = u])
  /\ UNCHANGED board

CheckRemover(r) ==
  LET q == req[r] IN
  /\ q.pc = "check"
  /\ Member(q.user)
  /\ q.by = q.user \/ role[q.by] = "ADMIN"
  /\ GoesOn(r, [q EXCEPT !.pc = "remove", !.by = None])

DeleteMember(r) ==
  /\ req[r].pc = "remove"
  /\ Leaves(req[r].user, role)
  /\ Ends(r)
  /\ UNCHANGED <<board, invite, task>>

\* findFirst({ where: { role, userId: { not } }, orderBy: { joinedAt: 'asc' } })
Oldest(S) == {u \in S : \A v \in S : <<v, u>> \notin older}

FindNextAdmin(r) ==
  LET q == req[r]
      admins == WithRole("ADMIN") \ {q.user}
  IN  /\ q.pc = "admin"
      /\ \/ /\ admins = {}
            /\ GoesOn(r, [q EXCEPT !.pc = "member"])
         \/ \E u \in Oldest(admins) :
              GoesOn(r, [q EXCEPT !.pc = "transfer", !.next = u])

\* seeded bug: whoever is left may be promoted
PromotableAnyone(q) == {u \in Users : Member(u)} \ {q.user}

Promotable(q) == WithRole("MEMBER") \ {q.user}

FindNextMember(r) ==
  LET q == req[r] IN
  /\ q.pc = "member"
  /\ \/ /\ Promotable(q) = {}
        /\ GoesOn(r, [q EXCEPT !.pc = "dissolve"])
     \/ \E u \in Oldest(Promotable(q)) :
          GoesOn(r, [q EXCEPT !.pc = "promote", !.next = u])

\* one $transaction: the ADMIN that was found becomes the owner
TransferOwnership(r) ==
  LET q == req[r] IN
  /\ q.pc = "transfer"
  /\ There
  /\ board' = [board EXCEPT !.owner = q.next]
  /\ Leaves(q.user, role)
  /\ Ends(r)
  /\ UNCHANGED <<invite, task>>

\* one $transaction: the MEMBER that was found becomes ADMIN and owner
PromoteMember(r) ==
  LET q == req[r] IN
  /\ q.pc = "promote"
  /\ There /\ Member(q.next)
  /\ board' = [board EXCEPT !.owner = q.next]
  /\ Leaves(q.user, [role EXCEPT ![q.next] = "ADMIN"])
  /\ Ends(r)
  /\ UNCHANGED <<invite, task>>

\* seeded bug: the invites are forgotten
KeptInvites == invite

Withdrawn == [i \in Invites |-> IF Pending(i) THEN NoInvite("gone") ELSE invite[i]]

\* the board goes, with its members, invites and tasks, deleted ones too
BoardGoes ==
  /\ There
  /\ board' = [board EXCEPT !.state = "gone"]
  /\ role' = [u \in Users |-> None]
  /\ older' = {}
  /\ invite' = Withdrawn
  /\ task' = [t \in Tasks |-> IF Stored(t) THEN NoTask("gone") ELSE task[t]]

(***************************************************************************)
(* One $transaction. It deletes tasks before their logs, so the foreign    *)
(* key of TaskLog rolls it back if the board has a task, be it a deleted   *)
(* one (Fail): every task has a log from the time it was created.          *)
(***************************************************************************)
Dissolve(r) ==
  /\ req[r].pc = "dissolve"
  /\ \A t \in Tasks : ~ Stored(t)
  /\ BoardGoes
  /\ Ends(r)

\* BoardService.remove, which deletes the logs first
RemoveBoard(by) ==
  /\ Quiet
  /\ role[by] = "ADMIN"
  /\ BoardGoes
  /\ UNCHANGED req

-----------------------------------------------------------------------------
(* BoardService.changeMemberRole *)

\* seeded bug: the owner is not excepted
ChangeableAnyone(u) == TRUE

Changeable(u) == u # board.owner

BeginChangeRole(r, by, u, x) ==
  /\ There /\ role[by] = "ADMIN"
  /\ Changeable(u)
  /\ Begin(r, [Idle EXCEPT !.pc = "role", !.user = u, !.role = x])
  /\ UNCHANGED board

ReadRole(r) ==
  LET q == req[r] IN
  /\ q.pc = "role"
  /\ Member(q.user)
  /\ GoesOn(r, [q EXCEPT !.pc = IF role[q.user] = "ADMIN" /\ q.role # "ADMIN"
                                THEN "count" ELSE "write"])

CountAdmins(r) ==
  /\ req[r].pc = "count"
  /\ Cardinality(WithRole("ADMIN")) > 1
  /\ GoesOn(r, [req[r] EXCEPT !.pc = "write"])

WriteRole(r) ==
  LET q == req[r] IN
  /\ q.pc = "write"
  /\ Member(q.user)
  /\ role' = [role EXCEPT ![q.user] = q.role]
  /\ Ends(r)
  /\ UNCHANGED <<board, older, invite, task>>

-----------------------------------------------------------------------------
(* BoardMemberService.add, BoardService.invite and responseInvite *)

\* assertCanManage, assertCanAssign
Manages(by) == There /\ (by = board.owner \/ role[by] = "ADMIN")

BeginAdd(r, by, u, x) ==
  /\ Manages(by)
  /\ u # board.owner /\ ~ Member(u)
  /\ Begin(r, [Idle EXCEPT !.pc = "add", !.user = u, !.role = x])
  /\ UNCHANGED board

AddMember(r) ==
  /\ req[r].pc = "add"
  /\ Enters(req[r].user, req[r].role)
  /\ Ends(r)
  /\ UNCHANGED <<board, invite, task>>

\* seeded bug: only the invites that could not be accepted any more count
InvitedMember(u) == \E i \in Invites : Pending(i) /\ invite[i].to = u /\ Member(u)

\* existingInvite
Invited(u) == \E i \in Invites : Pending(i) /\ invite[i].to = u

BeginInvite(r, by, u, x) ==
  /\ There /\ role[by] = "ADMIN"
  /\ ~ Invited(u) /\ ~ Member(u)
  /\ Begin(r, [Idle EXCEPT !.pc = "invite", !.user = u, !.role = x])
  /\ UNCHANGED board

InsertInvite(r) ==
  LET q == req[r] IN
  /\ q.pc = "invite"
  /\ There
  /\ \E i \in Invites :
       /\ invite[i].state = "absent"
       /\ invite' = [invite EXCEPT ![i] = [state |-> "pending",
                                           to |-> q.user, role |-> q.role]]
  /\ Ends(r)
  /\ UNCHANGED <<board, role, older, task>>

(***************************************************************************)
(* A pending invite of this board, answered over its path. Declining       *)
(* stands as well for the answer over the path of another board, which     *)
(* deletes the invite and has the user enter there.                        *)
(***************************************************************************)
BeginResponse(r, i, response) ==
  /\ There /\ Pending(i)
  /\ Begin(r, [Idle EXCEPT !.pc = response, !.user = invite[i].to,
                           !.role = invite[i].role, !.invite = i])
  /\ UNCHANGED board

\* an invite of another board, accepted over the path of this one
BeginCrossResponse(r, u, x) ==
  /\ There
  /\ Begin(r, [Idle EXCEPT !.pc = "accept", !.user = u, !.role = x])
  /\ UNCHANGED board

\* one $transaction: a user who is a member by now, or an invite that was
\* answered, rolls it back
Accepted(r) ==
  LET q == req[r] IN
  /\ q.pc = "accept"
  /\ q.invite # None => Pending(q.invite)
  /\ Enters(q.user, q.role)
  /\ invite' = [i \in Invites |-> IF i = q.invite THEN NoInvite("gone") ELSE invite[i]]
  /\ Ends(r)
  /\ UNCHANGED <<board, task>>

Declined(r) ==
  LET q == req[r] IN
  /\ q.pc = "decline"
  /\ Pending(q.invite)
  /\ invite' = [invite EXCEPT ![q.invite] = NoInvite("gone")]
  /\ Ends(r)
  /\ UNCHANGED <<board, role, older, task>>

-----------------------------------------------------------------------------
(* TaskService: the assignee *)

CreateTask(t) ==
  /\ Quiet
  /\ There /\ task[t].state = "absent"
  /\ task' = [task EXCEPT ![t].state = "live"]
  /\ UNCHANGED <<board, role, older, invite, req>>

\* seeded bug: anyone may be assigned
AssignableAnyone(u) == TRUE

\* assertAssigneeIsMember
Assignable(u) == u = board.owner \/ Member(u)

\* create with an assigneeId
BeginCreateTask(r, by, u) ==
  /\ Manages(by) /\ Assignable(u)
  /\ Begin(r, [Idle EXCEPT !.pc = "create", !.user = u])
  /\ UNCHANGED board

InsertTask(r) ==
  /\ req[r].pc = "create"
  /\ There
  /\ \E t \in Tasks :
       /\ task[t].state = "absent"
       /\ task' = [task EXCEPT ![t] = [state |-> "live", assignee |-> req[r].user]]
  /\ Ends(r)
  /\ UNCHANGED <<board, role, older, invite>>

\* update with an assigneeId: one that the task has already is not checked, but written
BeginAssign(r, by, t, u) ==
  /\ task[t].state = "live"
  /\ \/ Member(by) /\ task[t].assignee = u
     \/ Manages(by) /\ Assignable(u)
  /\ Begin(r, [Idle EXCEPT !.pc = "assign", !.user = u, !.task = t])
  /\ UNCHANGED board

\* update with assigneeId: null
BeginUnassign(r, by, t) ==
  /\ task[t].state = "live" /\ task[t].assignee # None
  /\ Manages(by)
  /\ Begin(r, [Idle EXCEPT !.pc = "unassign", !.user = task[t].assignee, !.task = t])
  /\ UNCHANGED board

\* by id: the task may have been deleted meanwhile
WriteAssignee(r, u) ==
  /\ Stored(req[r].task)
  /\ task' = [task EXCEPT ![req[r].task].assignee = u]
  /\ Ends(r)
  /\ UNCHANGED <<board, role, older, invite>>

Assign(r) == req[r].pc = "assign" /\ WriteAssignee(r, req[r].user)
Unassign(r) == req[r].pc = "unassign" /\ WriteAssignee(r, None)

\* TaskService.remove: a soft delete, after which the row still names its assignee
DeleteTask(t) ==
  /\ Quiet
  /\ task[t].state = "live"
  /\ task' = [task EXCEPT ![t].state = "deleted"]
  /\ UNCHANGED <<board, role, older, invite, req>>

-----------------------------------------------------------------------------
(***************************************************************************)
(* A handler ends before its next statement: a check or a key refuses it,  *)
(* the database answers with an error, or the process restarts.            *)
(***************************************************************************)
Fail(r) ==
  /\ InFlight(r)
  /\ req[r].pc = "join" => HalfCreated \/ ~ There
  /\ Ends(r)
  /\ UNCHANGED <<board, role, older, invite, task>>

Accept(r) ==
  \/ \E u \in Users : BeginCreate(r, u)
  \/ \E by, u \in Users :
       \/ BeginRemoveMember(r, by, u)
       \/ \E x \in Role :
            BeginChangeRole(r, by, u, x) \/ BeginAdd(r, by, u, x)
       \/ \E x \in InviteRoles : BeginInvite(r, by, u, x)
       \/ BeginCreateTask(r, by, u)
       \/ \E t \in Tasks : BeginAssign(r, by, t, u)
  \/ \E by \in Users, t \in Tasks : BeginUnassign(r, by, t)
  \/ \E i \in Invites, response \in {"accept", "decline"} : BeginResponse(r, i, response)
  \/ \E u \in Users, x \in InviteRoles : BeginCrossResponse(r, u, x)

Advance(r) ==
  \/ JoinOwner(r)
  \/ CheckRemover(r)
  \/ DeleteMember(r)
  \/ FindNextAdmin(r)
  \/ FindNextMember(r)
  \/ TransferOwnership(r)
  \/ PromoteMember(r)
  \/ Dissolve(r)
  \/ ReadRole(r)
  \/ CountAdmins(r)
  \/ WriteRole(r)
  \/ AddMember(r)
  \/ InsertInvite(r)
  \/ Accepted(r)
  \/ Declined(r)
  \/ InsertTask(r)
  \/ Assign(r)
  \/ Unassign(r)

AtOnce ==
  \/ \E by \in Users : RemoveBoard(by)
  \/ \E t \in Tasks : CreateTask(t) \/ DeleteTask(t)

Next ==
  \/ AtOnce
  \/ \E r \in Requests : Accept(r) \/ Advance(r) \/ Fail(r)

Spec == Init /\ [][Next]_vars

-----------------------------------------------------------------------------
(* Properties *)

(***************************************************************************)
(* While requests in flight are about different users and an owner leaves  *)
(* alone, the owner of a board is a member with the role ADMIN, as create  *)
(* sets up: no removal, demotion, invite or succession, whatever it read   *)
(* before, ever leaves a board in the hands of someone who is not.         *)
(***************************************************************************)
OwnerIsAdmin ==
  There /\ (\A r \in Requests : req[r].pc # "join") => role[board.owner] = "ADMIN"

(***************************************************************************)
(* An owner who leaves is followed by an ADMIN; only if there is none by a *)
(* MEMBER, never by an observer ("observadores não podem ser promovidos"); *)
(* and the board is dissolved only if there is neither.                    *)
(***************************************************************************)
Others(x) == WithRole(x) \ {board.owner}

SuccessionFollowsRank ==
  [][/\ There /\ There' /\ board'.owner # board.owner =>
          \/ board'.owner \in Others("ADMIN")
          \/ board'.owner \in Others("MEMBER") /\ Others("ADMIN") = {}
     /\ \A r \in Requests :
          Dissolve(r) => Others("ADMIN") = {} /\ Others("MEMBER") = {}]_vars

(***************************************************************************)
(* A user has at most one pending invite to the board ("Já existe um       *)
(* convite pendente para este usuário").                                   *)
(***************************************************************************)
OneInvitePerUser ==
  \A i, j \in Invites :
    Pending(i) /\ Pending(j) /\ invite[i].to = invite[j].to => i = j

(***************************************************************************)
(* While requests in flight are about different users and tasks, a task is *)
(* given only to who is a member (or the owner) at that moment, by create  *)
(* and by update, which writes an assignee it was sent even if it checked  *)
(* nothing ("O usuário atribuído precisa ser membro do board").            *)
(***************************************************************************)
OnBoard(u) == u = board.owner \/ Member(u)

AssignedToMember ==
  [][\A t \in Tasks :
       task'[t].assignee \notin {None, task[t].assignee}
         => OnBoard(task'[t].assignee)]_vars

(***************************************************************************)
(* Who is removed from a board keeps none of its tasks ("Limpa atribuições *)
(* deste usuário em tarefas do board", in BoardMemberService.remove, which *)
(* no request reaches). The removal that answers deletes the membership    *)
(* alone, and this does not hold.                                          *)
(***************************************************************************)
RemovedKeepNoTask ==
  [][\A r \in Requests : DeleteMember(r) =>
       \A t \in Tasks : task[t].state = "live" => task'[t].assignee # req[r].user]_vars

=============================================================================
