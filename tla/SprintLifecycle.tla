--------------------------- MODULE SprintLifecycle ---------------------------
(***************************************************************************)
(* The sprints of the users: SprintService (back-end/src/sprint/           *)
(* sprint.service.ts) with what TaskService and BoardService do to the     *)
(* sprint of a task.                                                       *)
(*                                                                         *)
(* A sprint belongs to the user who created it and remembers the board it  *)
(* was created on. Every handler on a sprint is refused unless the         *)
(* requester is its owner (assertSprintOwner), so the requester of such a  *)
(* handler is the owner of its sprint; an owner and a board of origin      *)
(* never change. A handler that checks first and writes at a later await   *)
(* is two or more actions, and any other request may come between them; a  *)
(* handler whose checks are on data that never changes here is one action. *)
(*                                                                         *)
(* Any member of a board creates, edits and moves its tasks, sprint or no  *)
(* sprint, while the owner's handlers are in flight.                       *)
(*                                                                         *)
(* Left out: boards that change hands (BoardService.removeMember) and      *)
(* admins that come and go, so BoardOwner and AdminsOf are constants.      *)
(***************************************************************************)
EXTENDS Integers, FiniteSets

CONSTANTS
  Sprints, Tasks,  \* ids (uuids: used once only)
  Users, Boards,
  BoardOwner,      \* Board.ownerId
  AdminsOf,        \* the users assertBoardAdmin lets through: owner and admins
  Days,            \* dates
  PatchedDates,    \* pairs of dates, or None, that clients PATCH a sprint with
  PatchedSprints,  \* the sprintIds, or None, that clients PATCH a task with
  Requests,        \* the handlers that can be in flight at one time
  Isolation,       \* "serial": one request at a time; "owner": one of each
                   \* owner of a sprint, and any of the members; "none"
  None             \* null, undefined

ASSUME BoardAssumption ==
  /\ BoardOwner \in [Boards -> Users]
  /\ AdminsOf \in [Boards -> SUBSET Users]
  /\ \A b \in Boards : BoardOwner[b] \in AdminsOf[b]
ASSUME BodyAssumption ==
  /\ Days \subseteq Nat
  /\ PatchedDates \subseteq (Days \cup {None}) \X (Days \cup {None})
  /\ PatchedSprints \subseteq Sprints \cup {None}
  /\ Isolation \in {"serial", "owner", "none"}
  /\ None \notin Sprints \cup Tasks \cup Users \cup Boards \cup Days

VARIABLES
  sprint,   \* the table Sprint
  task,     \* the table Task: what concerns sprints
  removed,  \* the boards that were deleted
  stray,    \* history: tasks that came to their sprint or board past all checks
  req       \* for each handler what it is about to do, and what it remembers

vars == <<sprint, task, removed, stray, req>>

SprintStatus == {"PLANNED", "ACTIVE", "COMPLETED"}

\* SprintService.closeSprint: IncompleteTasksAction
Decision == {"MOVE_TO_NEXT", "RETURN_TO_BACKLOG", "KEEP"}

SprintRow == [state: SprintStatus \cup {"absent", "deleted"},
              owner: Users \cup {None}, board: Boards \cup {None},
              start: Days \cup {None}, end: Days \cup {None}]

NoSprint == [state |-> "absent", owner |-> None, board |-> None,
             start |-> None, end |-> None]

(***************************************************************************)
(* `board' is the board of the list of the task; "deleted" has deletedAt   *)
(* set, "gone" is a row that a board took with it.                         *)
(***************************************************************************)
TaskRow == [state: {"absent", "live", "deleted", "gone"},
            board: Boards \cup {None}, sprint: Sprints \cup {None}, done: BOOLEAN]

NoTask == [state |-> "absent", board |-> None, sprint |-> None, done |-> FALSE]

NewTask(b, s, d) == [state |-> "live", board |-> b, sprint |-> s, done |-> d]

Request == [pc: {"idle", "update", "target", "incomplete", "close", "add",
                 "take", "create"},
            sprint: Sprints \cup {None}, task: Tasks \cup {None},
            status: SprintStatus \cup {None},
            dates: (Days \cup {None}) \X (Days \cup {None}),
            decision: Decision \cup {None}, target: Sprints \cup {None},
            incomplete: SUBSET Tasks]

Idle == [pc |-> "idle", sprint |-> None, task |-> None, status |-> None,
         dates |-> <<None, None>>, decision |-> None, target |-> None,
         incomplete |-> {}]

Exists(s) == sprint[s].state \in SprintStatus
Stored(t) == task[t].state \in {"live", "deleted"}
InFlight(r) == req[r].pc # "idle"

(***************************************************************************)
(* Rows are well formed, a sprint that was created keeps its owner and its *)
(* board, a task refers to a board and a sprint that are there (the        *)
(* foreign keys), and a handler has what its next statement needs.         *)
(***************************************************************************)
SprintOK(s) ==
  IF sprint[s].state = "absent" THEN sprint[s] = NoSprint
  ELSE sprint[s].owner \in Users /\ sprint[s].board \in Boards
       /\ sprint[s].start \in Days /\ sprint[s].end \in Days

TaskOK(t) ==
  /\ Stored(t) => task[t].board \in Boards \ removed
  /\ task[t].sprint # None => Stored(t) /\ Exists(task[t].sprint)

RequestOK(q) ==
  /\ q.pc # "idle" => q.sprint \in Sprints /\ sprint[q.sprint].state # "absent"
  /\ q.pc \in {"add", "take"} => q.task \in Tasks
  /\ q.pc \in {"target", "incomplete", "close"} =>
       /\ q.decision \in Decision
       /\ IF q.decision = "MOVE_TO_NEXT" THEN q.target \in Sprints \ {q.sprint}
                                         ELSE q.target = None

TypeOK ==
  /\ sprint \in [Sprints -> SprintRow] /\ \A s \in Sprints : SprintOK(s)
  /\ task \in [Tasks -> TaskRow] /\ \A t \in Tasks : TaskOK(t)
  /\ removed \subseteq Boards /\ stray \subseteq Tasks
  /\ req \in [Requests -> Request] /\ \A r \in Requests : RequestOK(req[r])

Init ==
  /\ sprint = [s \in Sprints |-> NoSprint]
  /\ task = [t \in Tasks |-> NoTask]
  /\ removed = {}
  /\ stray = {}
  /\ req = [r \in Requests |-> Idle]

(***************************************************************************)
(* The server serializes nothing: Isolation says how far the requests of   *)
(* an instance keep out of each other's way. Quiet is for requests that    *)
(* are no business of a sprint's owner, Alone(o) for those of owner o:     *)
(* create of TaskService is not among those, it is open to every member.   *)
(***************************************************************************)
Quiet == Isolation = "serial" => \A r \in Requests : ~ InFlight(r)

Alone(o) ==
  /\ Quiet
  /\ Isolation = "owner" =>
       \A r \in Requests :
         InFlight(r) /\ req[r].pc # "create" => sprint[req[r].sprint].owner # o

Begin(r, q) ==
  /\ ~ InFlight(r)
  /\ Exists(q.sprint)
  /\ IF q.pc = "create" THEN Quiet ELSE Alone(sprint[q.sprint].owner)
  /\ req' = [req EXCEPT ![r] = q]
  /\ UNCHANGED <<sprint, task, removed, stray>>

Ends(r) == req' = [req EXCEPT ![r] = Idle]

-----------------------------------------------------------------------------
(* SprintService *)

\* seeded bug: the dates are not compared
DatesUnordered(start, end) == TRUE

\* the dates of a body are checked only when it has both
DatesAccepted(start, end) == start # None /\ end # None => start < end

CreateSprint(u, b, s, start, end) ==
  /\ Alone(u)
  /\ b \notin removed /\ u \in AdminsOf[b]
  /\ start < end
  /\ sprint[s].state = "absent"
  /\ sprint' = [sprint EXCEPT ![s] = [state |-> "PLANNED", owner |-> u, board |-> b,
                                      start |-> start, end |-> end]]
  /\ UNCHANGED <<task, removed, stray, req>>

\* seeded bug: the search is for sprints of the same board
OtherActiveOnBoard(s) ==
  \E o \in Sprints \ {s} :
    sprint[o].board = sprint[s].board /\ sprint[o].state = "ACTIVE"

\* otherActive: findFirst({ where: { ownerId, status: ACTIVE, NOT: { id } } })
OtherActive(s) ==
  \E o \in Sprints \ {s} :
    sprint[o].owner = sprint[s].owner /\ sprint[o].state = "ACTIVE"

\* the checks of update; any status may follow any other
BeginUpdate(r, s, status, dates) ==
  /\ status = "ACTIVE" => ~ OtherActive(s)
  /\ DatesAccepted(dates[1], dates[2])
  /\ Begin(r, [Idle EXCEPT !.pc = "update", !.sprint = s,
                           !.status = status, !.dates = dates])

Given(new, old) == IF new # None THEN new ELSE old

UpdateSprint(r) ==
  LET q == req[r] IN
  /\ q.pc = "update"
  /\ Exists(q.sprint)
  /\ sprint' = [sprint EXCEPT ![q.sprint].state = Given(q.status, @),
                              ![q.sprint].start = Given(q.dates[1], @),
                              ![q.sprint].end = Given(q.dates[2], @)]
  /\ Ends(r)
  /\ UNCHANGED <<task, removed, stray>>

\* seeded bug: the deleted sprint stays in its tasks
KeptLinks(gone) == task

\* Task.sprint is onDelete: SetNull
Unlinked(gone) ==
  [t \in Tasks |-> IF task[t].sprint \in gone THEN [task[t] EXCEPT !.sprint = None]
                                              ELSE task[t]]

RemoveSprint(s) ==
  /\ Exists(s)
  /\ Alone(sprint[s].owner)
  /\ sprint' = [sprint EXCEPT ![s].state = "deleted"]
  /\ task' = Unlinked({s})
  /\ UNCHANGED <<removed, stray, req>>

\* closeSprint, first read
BeginClose(r, s, decision, target) ==
  /\ sprint[s].state # "COMPLETED"
  /\ IF decision = "MOVE_TO_NEXT" THEN target \in Sprints \ {s} ELSE target = None
  /\ Begin(r, [Idle EXCEPT !.pc = IF decision = "MOVE_TO_NEXT" THEN "target"
                                  ELSE "incomplete",
                           !.sprint = s, !.decision = decision, !.target = target])

\* seeded bug: any sprint of the same owner will do
TargetOfOwner(q) == Exists(q.target) /\ sprint[q.target].owner = sprint[q.sprint].owner

\* the sprint of destination is PLANNED and of the same owner
TargetOK(q) ==
  /\ sprint[q.target].state = "PLANNED"
  /\ sprint[q.target].owner = sprint[q.sprint].owner

\* second read, for MOVE_TO_NEXT only
CheckTarget(r) ==
  /\ req[r].pc = "target"
  /\ TargetOK(req[r])
  /\ req' = [req EXCEPT ![r].pc = "incomplete"]
  /\ UNCHANGED <<sprint, task, removed, stray>>

\* where: { sprintId, status: { not: 'DONE' }, deletedAt: null }
Incomplete(s) ==
  {t \in Tasks : task[t].state = "live" /\ task[t].sprint = s /\ ~ task[t].done}

\* third read
ReadIncomplete(r) ==
  /\ req[r].pc = "incomplete"
  /\ req' = [req EXCEPT ![r].pc = "close",
                        ![r].incomplete = Incomplete(req[r].sprint)]
  /\ UNCHANGED <<sprint, task, removed, stray>>

\* seeded bug: RETURN_TO_BACKLOG moves nothing
MovedOnlyToNext(q) == IF q.decision = "MOVE_TO_NEXT" THEN q.incomplete ELSE {}

\* the tasks the transaction moves, and logs as TASK_SPRINT_CHANGED from q.sprint
Moved(q) == IF q.decision = "KEEP" THEN {} ELSE q.incomplete

(***************************************************************************)
(* The $transaction. A task or a target that is gone by now breaks a       *)
(* foreign key and rolls it back (Fail).                                   *)
(***************************************************************************)
CloseCommit(r) ==
  LET q == req[r] IN
  /\ q.pc = "close"
  /\ Exists(q.sprint)
  /\ \A t \in Moved(q) : Stored(t)
  /\ Moved(q) # {} /\ q.target # None => Exists(q.target)
  /\ task' = [t \in Tasks |-> IF t \in Moved(q) THEN [task[t] EXCEPT !.sprint = q.target]
                                                ELSE task[t]]
  /\ sprint' = [sprint EXCEPT ![q.sprint].state = "COMPLETED"]
  /\ Ends(r)
  /\ UNCHANGED <<removed, stray>>

\* seeded bug: the board of the task is not looked at
AddableAny(s, t) == sprint[s].state # "COMPLETED" /\ Stored(t)

\* seeded bug: the status of the sprint is not looked at
AddableClosed(s, t) == Stored(t) /\ BoardOwner[task[t].board] = sprint[s].owner

\* addTask: the sprint is open, and its owner owns the board of the task
Addable(s, t) ==
  /\ sprint[s].state # "COMPLETED"
  /\ Stored(t) /\ BoardOwner[task[t].board] = sprint[s].owner

BeginAddTask(r, s, t) ==
  /\ Addable(s, t)
  /\ Begin(r, [Idle EXCEPT !.pc = "add", !.sprint = s, !.task = t])

AddTask(r) ==
  LET q == req[r] IN
  /\ q.pc = "add"
  /\ Exists(q.sprint) /\ Stored(q.task)
  /\ task' = [task EXCEPT ![q.task].sprint = q.sprint]
  /\ Ends(r)
  /\ UNCHANGED <<sprint, removed, stray>>

\* removeTask: the task is in the sprint
Takeable(s, t) == Stored(t) /\ task[t].sprint = s

BeginRemoveTask(r, s, t) ==
  /\ Takeable(s, t)
  /\ Begin(r, [Idle EXCEPT !.pc = "take", !.sprint = s, !.task = t])

RemoveTask(r) ==
  LET q == req[r] IN
  /\ q.pc = "take"
  /\ Stored(q.task)
  /\ task' = [task EXCEPT ![q.task].sprint = None]
  /\ Ends(r)
  /\ UNCHANGED <<sprint, removed, stray>>

-----------------------------------------------------------------------------
(* TaskService and BoardService *)

\* create with a sprintId: not COMPLETED; the list is one of the sprint's board
OpenFor(s) == Exists(s) /\ sprint[s].state # "COMPLETED"

BeginCreateTask(r, s) ==
  /\ OpenFor(s)
  /\ Begin(r, [Idle EXCEPT !.pc = "create", !.sprint = s])

(***************************************************************************)
(* The list was one of the board of the sprint when it was checked; a      *)
(* PATCH may have taken it to another board since.                         *)
(***************************************************************************)
InsertTask(r) ==
  LET q == req[r] IN
  /\ q.pc = "create"
  /\ Exists(q.sprint)
  /\ \E t \in Tasks, b \in Boards \ removed, d \in BOOLEAN :
       /\ task[t].state = "absent"
       /\ Isolation = "serial" => b = sprint[q.sprint].board
       /\ task' = [task EXCEPT ![t] = NewTask(b, q.sprint, d)]
       /\ stray' = IF b = sprint[q.sprint].board THEN stray ELSE stray \cup {t}
  /\ Ends(r)
  /\ UNCHANGED <<sprint, removed>>

\* create without sprint
CreateTask(t, b, d) ==
  /\ Quiet
  /\ task[t].state = "absent" /\ b \notin removed
  /\ task' = [task EXCEPT ![t] = NewTask(b, None, d)]
  /\ UNCHANGED <<sprint, removed, stray, req>>

(***************************************************************************)
(* update: the status, and a sprintId that nothing but its foreign key     *)
(* checks. The task was live when the handler read it; by the time of the  *)
(* write another request may have deleted it.                              *)
(***************************************************************************)
PatchTask(t, s, d) ==
  /\ Quiet
  /\ Stored(t)
  /\ Isolation = "serial" => task[t].state = "live"
  /\ s # None => Exists(s)
  /\ task' = [task EXCEPT ![t].sprint = s, ![t].done = d]
  /\ stray' = IF s \in {None, task[t].sprint} THEN stray ELSE stray \cup {t}
  /\ UNCHANGED <<sprint, removed, req>>

(***************************************************************************)
(* moveTaskToList, or update with a listId, takes a task to a list of      *)
(* another board, and a PATCH of a list with a boardId takes all its       *)
(* tasks there. None of them looks at the sprint.                          *)
(***************************************************************************)
MoveTasks(moved, b) ==
  /\ Quiet
  /\ b \notin removed
  /\ \E from \in Boards \ {b} : \A t \in moved : Stored(t) /\ task[t].board = from
  /\ task' = [t \in Tasks |-> IF t \in moved THEN [task[t] EXCEPT !.board = b] ELSE task[t]]
  /\ stray' = stray \cup moved
  /\ UNCHANGED <<sprint, removed, req>>

\* remove: the row keeps its sprint
DeleteTask(t) ==
  /\ Quiet
  /\ task[t].state = "live"
  /\ task' = [task EXCEPT ![t].state = "deleted"]
  /\ UNCHANGED <<sprint, removed, stray, req>>

(***************************************************************************)
(* BoardService.remove, one $transaction: the tasks of the board, then the *)
(* sprints created on it, whoever owns them; the foreign key unlinks the   *)
(* tasks of other boards.                                                  *)
(***************************************************************************)
RemoveBoard(b) ==
  LET gone == {s \in Sprints : Exists(s) /\ sprint[s].board = b} IN
  /\ Quiet
  /\ b \notin removed
  /\ removed' = removed \cup {b}
  /\ sprint' = [s \in Sprints |-> IF s \in gone THEN [sprint[s] EXCEPT !.state = "deleted"]
                                                ELSE sprint[s]]
  /\ task' = [t \in Tasks |-> IF task[t].board = b THEN [NoTask EXCEPT !.state = "gone"]
                                                  ELSE Unlinked(gone)[t]]
  /\ UNCHANGED <<stray, req>>

(***************************************************************************)
(* A handler ends before its next statement: a check or a foreign key      *)
(* refuses it, the database answers with an error, or the process restarts.*)
(***************************************************************************)
Fail(r) ==
  /\ InFlight(r)
  /\ Ends(r)
  /\ UNCHANGED <<sprint, task, removed, stray>>

-----------------------------------------------------------------------------
Accept(r) ==
  \E s \in Sprints :
    \/ \E status \in SprintStatus \cup {None}, dates \in PatchedDates :
         BeginUpdate(r, s, status, dates)
    \/ \E decision \in Decision, target \in Sprints \cup {None} :
         BeginClose(r, s, decision, target)
    \/ \E t \in Tasks : BeginAddTask(r, s, t) \/ BeginRemoveTask(r, s, t)
    \/ BeginCreateTask(r, s)

Advance(r) ==
  \/ UpdateSprint(r)
  \/ CheckTarget(r)
  \/ ReadIncomplete(r)
  \/ CloseCommit(r)
  \/ AddTask(r)
  \/ RemoveTask(r)
  \/ InsertTask(r)

AtOnce ==
  \/ \E u \in Users, b \in Boards, s \in Sprints, start, end \in Days :
       CreateSprint(u, b, s, start, end)
  \/ \E s \in Sprints : RemoveSprint(s)
  \/ \E t \in Tasks, d \in BOOLEAN :
       \/ \E b \in Boards : CreateTask(t, b, d)
       \/ \E s \in PatchedSprints \cup {task[t].sprint} : PatchTask(t, s, d)
  \/ \E t \in Tasks : DeleteTask(t)
  \/ \E moved \in (SUBSET Tasks) \ {{}}, b \in Boards : MoveTasks(moved, b)
  \/ \E b \in Boards : RemoveBoard(b)

Next ==
  \/ AtOnce
  \/ \E r \in Requests : Accept(r) \/ Advance(r) \/ Fail(r)

Spec == Init /\ [][Next]_vars

-----------------------------------------------------------------------------
(* Properties *)

(***************************************************************************)
(* While an owner has one request in flight at a time, no owner has two    *)
(* active sprints (the rule of sprint.service.ts:184), whatever the other  *)
(* owners do between its check and its write.                              *)
(***************************************************************************)
OneActivePerOwner ==
  \A s1, s2 \in Sprints :
    /\ sprint[s1].state = "ACTIVE" /\ sprint[s2].state = "ACTIVE"
    /\ sprint[s1].owner = sprint[s2].owner
    => s1 = s2

(***************************************************************************)
(* While an owner has one request in flight at a time, addTask links no    *)
(* task to a sprint that is closed by then, whatever the members of the    *)
(* boards do between its check and its write ("Sprint encerrada não aceita *)
(* tasks novas").                                                          *)
(***************************************************************************)
AddsToOpenSprint ==
  [][\A r \in Requests : AddTask(r) => sprint[req[r].sprint].state # "COMPLETED"]_vars

(***************************************************************************)
(* No request links a task to a sprint that is COMPLETED at that moment    *)
(* (create-task.dto.ts:60, "Sprint precisa ser do mesmo board e não estar  *)
(* COMPLETED"). The code does not keep this: PatchTask looks at no rule    *)
(* about sprints, and InsertTask comes some awaits after the check.        *)
(***************************************************************************)
Linked(t, s) == task'[t].sprint = s /\ task[t].sprint # s

ClosedSprintTakesNoTask ==
  [][\A t \in Tasks, s \in Sprints :
       Linked(t, s) => sprint[s].state # "COMPLETED"]_vars

(***************************************************************************)
(* Tasks that were left over are moved to a sprint that is still PLANNED   *)
(* and of the same owner when they get there, not only when closeSprint    *)
(* checked it.                                                             *)
(***************************************************************************)
MovesTo(r, t) ==
  req[r].decision = "MOVE_TO_NEXT" /\ CloseCommit(r) /\ Linked(t, req[r].target)

LeftoversGoToPlanned ==
  [][\A r \in Requests, t \in Tasks :
       MovesTo(r, t) =>
         /\ sprint[req[r].target].state = "PLANNED"
         /\ sprint[req[r].target].owner = sprint[req[r].sprint].owner]_vars

(***************************************************************************)
(* A sprint holds only tasks of boards its owner is an admin of ("Você só  *)
(* pode adicionar tasks de boards que você é dono", "Sprint é de outro     *)
(* board"), also after leftovers went from one sprint to another and       *)
(* whoever's requests interleave: but for the tasks a PATCH put into it or *)
(* that were taken to another board.                                       *)
(***************************************************************************)
TasksOfOwnBoards ==
  \A t \in Tasks \ stray :
    task[t].sprint # None => sprint[task[t].sprint].owner \in AdminsOf[task[t].board]

(***************************************************************************)
(* The log of a closing tells where a task came from: every task it moves  *)
(* is in the sprint that is being closed at that moment                    *)
(* ("essa task veio da sprint X"). The code does not keep this: a member   *)
(* may move the task between closeSprint's read and its transaction.       *)
(***************************************************************************)
LogTellsOrigin ==
  [][\A r \in Requests :
       CloseCommit(r) => \A t \in Moved(req[r]) : task[t].sprint = req[r].sprint]_vars

(***************************************************************************)
(* Closing a sprint leaves no unfinished task in it unless KEEP was asked  *)
(* for ("redistribui tasks não concluídas").                               *)
(***************************************************************************)
CloseLeavesNoLeftovers ==
  [][\A r \in Requests :
       CloseCommit(r) /\ req[r].decision # "KEEP" =>
         \A t \in Tasks : task'[t].state = "live" /\ task'[t].sprint = req[r].sprint
                           => task'[t].done]_vars

(***************************************************************************)
(* As long as every PATCH of a sprint carries both dates or none, a sprint *)
(* ends after it starts ("A data de fim deve ser depois do início"): the   *)
(* dates of the body are never compared with the stored ones.              *)
(***************************************************************************)
EndsAfterStart == \A s \in Sprints : Exists(s) => sprint[s].start < sprint[s].end

(***************************************************************************)
(* Deleting a board deletes no sprint ("deletar 1 board não apaga mais a   *)
(* sprint"). The code does not keep this: BoardService.remove deletes the  *)
(* sprints that were created on the board.                                 *)
(***************************************************************************)
SprintSurvivesBoard ==
  [][removed' # removed => \A s \in Sprints : Exists(s) => Exists(s)']_vars

=============================================================================
