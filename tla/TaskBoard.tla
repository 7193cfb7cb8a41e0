------------------------------ MODULE TaskBoard ------------------------------
(***************************************************************************)
(* TaskService (back-end/src/task/task.service.ts): the handlers that      *)
(* create, edit, reorder, delete and move the tasks of the lists of the    *)
(* boards.                                                                 *)
(*                                                                         *)
(* Every request is an async handler of the one Node process; between two  *)
(* awaits any other handler may run, so a handler is a sequence of         *)
(* actions, one per database statement or $transaction it awaits, and      *)
(* `req' holds what the handler remembers from one await to the next, in   *)
(* particular the task row it read first (`seen').                         *)
(*                                                                         *)
(* Reads of data that no handler of this module changes (the lists, their  *)
(* board and their mapped status) are part of the neighbouring action.     *)
(* The checks on the assignee and on the sprint of a request only decide   *)
(* whether it goes on, which `Fail' stands for; they are modelled in       *)
(* BoardMembership and SprintLifecycle.                                    *)
(***************************************************************************)
EXTENDS Integers, FiniteSets

CONSTANTS
  Tasks,          \* task ids (uuids: an id is used for one task only)
  Lists,          \* the lists of all the boards
  Boards,
  BoardOf,        \* List.boardId
  ColumnStatus,   \* List.status: the status a list is mapped to, or None
  Status,         \* the statuses in use, a subset of the enum Status
  DONE,
  None,           \* null, undefined
  Requests,       \* the handlers that can be in flight at one time
  UpdateLists,    \* the listIds that clients put in the body of an update
  Isolation,      \* what requests in flight never share: "task", "list", or "none"
  ClientsInRange, \* TRUE: a client sends an index of the list as it is now
  LowestPosition, \* bound: other clients send no position below it; the DTO has no minimum
  PositionBound,  \* bound: a request begins only while positions are below it
  MaxFailures     \* bound: how many handlers may end in the middle

(***************************************************************************)
(* @@unique([boardId, status]) of the model List: at most one list of a    *)
(* board is mapped to a status.                                            *)
(***************************************************************************)
ASSUME ListAssumption ==
  /\ BoardOf \in [Lists -> Boards]
  /\ ColumnStatus \in [Lists -> Status \cup {None}]
  /\ \A k, l \in Lists :
       BoardOf[k] = BoardOf[l] /\ ColumnStatus[k] = ColumnStatus[l]
         => k = l \/ ColumnStatus[k] = None
ASSUME ValueAssumption ==
  /\ IsFiniteSet(Tasks)
  /\ DONE \in Status
  /\ None \notin Status \cup Lists \cup Tasks
  /\ UpdateLists \subseteq Lists
ASSUME BoundAssumption ==
  /\ Isolation \in {"task", "list", "none"} /\ ClientsInRange \in BOOLEAN
  /\ LowestPosition \in Int /\ LowestPosition <= 0
  /\ PositionBound \in Nat /\ MaxFailures \in Nat

VARIABLES
  row,      \* the table Task
  audit,    \* for each task its newest row in the table TaskLog
  req,      \* for each handler what it is about to do, and what it remembers
  failures  \* how many handlers have ended in the middle

vars == <<row, audit, req, failures>>

(***************************************************************************)
(* A row of Task; "deleted" is a row with deletedAt set.                   *)
(***************************************************************************)
TaskRow == [state: {"absent", "live", "deleted"}, list: Lists \cup {None},
            position: Int, status: Status \cup {None}, completed: BOOLEAN]

NoRow == [state |-> "absent", list |-> None, position |-> 0,
          status |-> None, completed |-> FALSE]

LogAction == {"TASK_CREATED", "TASK_UPDATED", "TASK_STATUS_CHANGED",
              "TASK_MOVED", "TASK_DELETED"}

\* null is none of the enum TaskLogAction
ASSUME LogAssumption == None \notin LogAction

LogRow == [action: LogAction \cup {None}, to: Status \cup {None}]
Entry(a) == [action |-> a, to |-> None]

(***************************************************************************)
(* `pc' names the statement a handler awaits next; `list', `status' and    *)
(* `position' are the body of the request; `seen' is the task row the      *)
(* handler read when it began; `entry' is the log row it writes last.      *)
(***************************************************************************)
Request == [pc: {"idle", "create", "update", "shift", "set", "remove",
                 "move", "log"},
            task: Tasks \cup {None}, seen: TaskRow,
            list: Lists \cup {None}, status: Status \cup {None},
            position: Int, entry: LogRow]

Idle == [pc |-> "idle", task |-> None, seen |-> NoRow, list |-> None,
         status |-> None, position |-> 0, entry |-> Entry(None)]

\* the columns without default are filled in
RowOK(t) ==
  IF row[t].state = "absent" THEN row[t] = NoRow
  ELSE row[t].list \in Lists /\ row[t].status \in Status

\* a handler has what its next statement needs
RequestOK(q) ==
  /\ q.pc \in {"create", "move"} => q.list \in Lists
  /\ q.pc = "create" => q.status \in Status
  /\ q.pc \in {"update", "shift", "set", "remove", "move"} =>
       /\ q.seen.state = "live"
       /\ q.seen.list \in Lists /\ q.seen.status \in Status
  /\ q.pc \notin {"idle", "create"} =>
       /\ q.task \in Tasks
       /\ row[q.task].state # "absent"
  /\ q.pc = "log" => q.entry.action \in LogAction

\* Every row and every handler is well formed.
TypeOK ==
  /\ row \in [Tasks -> TaskRow] /\ \A t \in Tasks : RowOK(t)
  /\ audit \in [Tasks -> LogRow]
  /\ req \in [Requests -> Request] /\ \A r \in Requests : RequestOK(req[r])
  /\ failures \in Nat

Init ==
  /\ row = [t \in Tasks |-> NoRow]
  /\ audit = [t \in Tasks |-> Entry(None)]
  /\ req = [r \in Requests |-> Idle]
  /\ failures = 0

-----------------------------------------------------------------------------
(* Queries *)

\* where: { listId, deletedAt: null }
Live(l) == {t \in Tasks : row[t].state = "live" /\ row[t].list = l}

\* seeded bug: the search for a column forgets the board
ColumnsForAnyBoard(b, s) == {l \in Lists : ColumnStatus[l] = s}

\* list.findFirst({ where: { boardId, status, isArchived: false } })
ColumnsFor(b, s) == {l \in Lists : BoardOf[l] = b /\ ColumnStatus[l] = s}

InFlight(r) == req[r].pc # "idle"

\* position: { gte: x }
From(x) == {p \in Int : p >= x}

\* seeded bug: the shift forgets deletedAt: null
UpdateManyAnyState(rows, l, where, d) ==
  [t \in Tasks |->
     IF rows[t].list = l /\ rows[t].position \in where
     THEN [rows[t] EXCEPT !.position = @ + d]
     ELSE rows[t]]

(***************************************************************************)
(* task.updateMany({ where: { listId: l, position: where, deletedAt: null },  *)
(*                   data: { position: { increment: d } } })               *)
(***************************************************************************)
UpdateMany(rows, l, where, d) ==
  [t \in Tasks |->
     IF rows[t].state = "live" /\ rows[t].list = l /\ rows[t].position \in where
     THEN [rows[t] EXCEPT !.position = @ + d]
     ELSE rows[t]]

-----------------------------------------------------------------------------
(* The beginning of a request: the handler reads the task it is about *)

(***************************************************************************)
(* The positions a client may send for task t in list l. With              *)
(* ClientsInRange it is the index of a drop in the list as it is now;      *)
(* otherwise any, since the DTO only asks for a number: negative ones are  *)
(* stored as they come.                                                    *)
(***************************************************************************)
PositionsFor(t, l) ==
  IF ClientsInRange THEN 0 .. Cardinality(Live(l) \ {t})
                    ELSE LowestPosition .. PositionBound

WithinBound == \A t \in Tasks : row[t].position < PositionBound

\* bound: the supply of task ids, one for each create in flight
IdsLeft ==
  Cardinality({r \in Requests : req[r].pc = "create"})
    < Cardinality({t \in Tasks : row[t].state = "absent"})

(***************************************************************************)
(* The server does not serialize anything: Isolation says how far the      *)
(* clients of an instance happen to keep out of each other's way, so that  *)
(* a property can name the interference it does not survive.               *)
(***************************************************************************)
ListsOf(q) == {q.seen.list, q.list} \ {None}

Isolated(q) ==
  \A r \in Requests : InFlight(r) =>
    /\ Isolation = "task" => req[r].task # q.task \/ q.task = None
    /\ Isolation = "list" => ListsOf(req[r]) \cap ListsOf(q) = {}

Begin(r, q) ==
  /\ ~ InFlight(r)
  /\ WithinBound
  /\ Isolated(q)
  /\ req' = [req EXCEPT ![r] = q]
  /\ UNCHANGED <<row, audit, failures>>

\* findOne: the task exists and is not deleted, or the request ends with 404
Found(t) == row[t].state = "live"

Read(t) == [Idle EXCEPT !.task = t, !.seen = row[t]]

\* create counts the tasks of the list before all its checks
BeginCreate(r, l, s) ==
  /\ IdsLeft
  /\ Begin(r, [Idle EXCEPT !.pc = "create", !.list = l, !.status = s,
                           !.position = Cardinality(Live(l))])

BeginUpdate(r, t, s, l) ==
  /\ Found(t)
  /\ Begin(r, [Read(t) EXCEPT !.pc = "update", !.status = s, !.list = l])

\* equal positions: no shift, and the handler goes on to the update of its row
BeginUpdatePosition(r, t, p) ==
  /\ Found(t)
  /\ Begin(r, [Read(t) EXCEPT !.pc = IF p = row[t].position THEN "set" ELSE "shift",
                              !.position = p])

BeginRemove(r, t) ==
  /\ Found(t)
  /\ Begin(r, [Read(t) EXCEPT !.pc = "remove"])

BeginMove(r, t, l, p) ==
  /\ Found(t)
  /\ Begin(r, [Read(t) EXCEPT !.pc = "move", !.list = l, !.position = p])

-----------------------------------------------------------------------------
(* The writes *)

\* all that is left to do is to log what was done
ThenLog(r, t, entry) ==
  req' = [req EXCEPT ![r] = [Idle EXCEPT !.pc = "log", !.task = t, !.entry = entry]]

\* seeded bug: the status of the body is not stored
CreatedRowNoStatus(q) ==
  [state |-> "live", list |-> q.list, position |-> q.position,
   status |-> None, completed |-> q.status = DONE]

CreatedRow(q) ==
  [state |-> "live", list |-> q.list, position |-> q.position,
   status |-> q.status, completed |-> q.status = DONE]

CreateInsert(r) ==
  /\ req[r].pc = "create"
  /\ \E t \in Tasks :
       /\ row[t].state = "absent"
       /\ row' = [row EXCEPT ![t] = CreatedRow(req[r])]
       /\ ThenLog(r, t, Entry("TASK_CREATED"))
  /\ UNCHANGED <<audit, failures>>

\* isStatusChanging: judged against the row the handler read, not the row it writes
StatusChanging(q) == q.status # None /\ q.status # q.seen.status

\* seeded bug: no automation towards the DONE column
SyncedListNotDone(q) ==
  IF StatusChanging(q) /\ q.status # DONE
  THEN ColumnsFor(BoardOf[q.seen.list], q.status) \ {q.seen.list}
  ELSE {}

\* syncedListId: the column mapped to the new status, unless the task was seen there
SyncedList(q) ==
  IF StatusChanging(q)
  THEN ColumnsFor(BoardOf[q.seen.list], q.status) \ {q.seen.list}
  ELSE {}

\* listId of the update: syncedListId overrides the listId of the body
UpdatedList(q) ==
  IF SyncedList(q) # {} THEN CHOOSE l \in SyncedList(q) : TRUE
  ELSE IF q.list # None THEN q.list ELSE row[q.task].list

UpdatedRow(q) ==
  [row[q.task] EXCEPT
     !.list = UpdatedList(q),
     !.status = IF q.status # None THEN q.status ELSE @,
     !.completed = \/ StatusChanging(q) /\ q.status = DONE
                   \/ @ /\ ~ (StatusChanging(q) /\ q.seen.status = DONE)]

\* seeded bug: from and to of the log row are swapped
UpdateEntrySwapped(q) ==
  IF StatusChanging(q) THEN [action |-> "TASK_STATUS_CHANGED", to |-> q.seen.status]
                       ELSE Entry("TASK_UPDATED")

UpdateEntry(q) ==
  IF StatusChanging(q) THEN [action |-> "TASK_STATUS_CHANGED", to |-> q.status]
                       ELSE Entry("TASK_UPDATED")

UpdateWrite(r) ==
  /\ req[r].pc = "update"
  /\ row' = [row EXCEPT ![req[r].task] = UpdatedRow(req[r])]
  /\ ThenLog(r, req[r].task, UpdateEntry(req[r]))
  /\ UNCHANGED <<audit, failures>>

\* seeded bug: off by one in the range that steps aside
ShiftedRowsOffByOne(q) ==
  LET old == q.seen.position
      new == q.position
  IN  IF new < old
      THEN UpdateMany(row, q.seen.list, new + 1 .. old - 1, 1)
      ELSE UpdateMany(row, q.seen.list, old + 1 .. new, -1)

\* the first of the two statements of updatePosition: the tasks between the
\* old and the new position step aside
ShiftedRows(q) ==
  LET old == q.seen.position
      new == q.position
  IN  IF new < old
      THEN UpdateMany(row, q.seen.list, new .. old - 1, 1)
      ELSE UpdateMany(row, q.seen.list, old + 1 .. new, -1)

ShiftOthers(r) ==
  /\ req[r].pc = "shift"
  /\ row' = ShiftedRows(req[r])
  /\ req' = [req EXCEPT ![r].pc = "set"]
  /\ UNCHANGED <<audit, failures>>

\* the second: the task takes its place; updatePosition writes no log
SetPosition(r) ==
  /\ req[r].pc = "set"
  /\ row' = [row EXCEPT ![req[r].task].position = req[r].position]
  /\ req' = [req EXCEPT ![r] = Idle]
  /\ UNCHANGED <<audit, failures>>

\* seeded bug: gte instead of gt
RemovedRowsGte(q) ==
  UpdateMany([row EXCEPT ![q.task].state = "deleted"], q.seen.list,
             From(q.seen.position), -1)

\* one $transaction: deletedAt, and the tasks after the read position close the gap
RemovedRows(q) ==
  UpdateMany([row EXCEPT ![q.task].state = "deleted"], q.seen.list,
             From(q.seen.position + 1), -1)

RemoveCommit(r) ==
  /\ req[r].pc = "remove"
  /\ row' = RemovedRows(req[r])
  /\ ThenLog(r, req[r].task, Entry("TASK_DELETED"))
  /\ UNCHANGED <<audit, failures>>

\* seeded bug: a DONE task keeps its status in any column
SyncStatusKeepsDone(q) ==
  IF ColumnStatus[q.list] # q.seen.status /\ q.seen.status # DONE
  THEN ColumnStatus[q.list] ELSE None

\* syncStatus: the status of the target column, unless the task was seen with it
SyncStatus(q) ==
  IF ColumnStatus[q.list] # q.seen.status THEN ColumnStatus[q.list] ELSE None

\* seeded bug: completedAt is not cleared when the task leaves DONE
MovedRowKeepsDate(q) ==
  [row[q.task] EXCEPT
     !.list = q.list,
     !.position = q.position,
     !.status = IF SyncStatus(q) # None THEN SyncStatus(q) ELSE @,
     !.completed = SyncStatus(q) = DONE \/ @]

MovedRow(q) ==
  [row[q.task] EXCEPT
     !.list = q.list,
     !.position = q.position,
     !.status = IF SyncStatus(q) # None THEN SyncStatus(q) ELSE @,
     !.completed = \/ SyncStatus(q) = DONE
                   \/ @ /\ ~ (SyncStatus(q) # None /\ q.seen.status = DONE)]

\* seeded bug: the gap in the old list is not closed
MovedRowsKeepGap(q) ==
  [UpdateMany(row, q.list, From(q.position), 1)
     EXCEPT ![q.task] = MovedRow(q)]

\* one $transaction: close the gap, open a new one, put the task there
MovedRows(q) ==
  LET closed == UpdateMany(row, q.seen.list, From(q.seen.position + 1), -1)
      opened == UpdateMany(closed, q.list, From(q.position), 1)
  IN  [opened EXCEPT ![q.task] = MovedRow(q)]

MoveCommit(r) ==
  /\ req[r].pc = "move"
  /\ row' = MovedRows(req[r])
  /\ ThenLog(r, req[r].task, Entry("TASK_MOVED"))
  /\ UNCHANGED <<audit, failures>>

\* taskLogService.createLog, the last await of the handler
WriteLog(r) ==
  /\ req[r].pc = "log"
  /\ audit' = [audit EXCEPT ![req[r].task] = req[r].entry]
  /\ req' = [req EXCEPT ![r] = Idle]
  /\ UNCHANGED <<row, failures>>

(***************************************************************************)
(* A handler ends before its next statement: a check on the assignee or    *)
(* the sprint refuses it, the database answers with an error, or the       *)
(* process is restarted (then every handler in flight fails). What the     *)
(* handler already wrote stays.                                            *)
(***************************************************************************)
Fail(r) ==
  /\ InFlight(r)
  /\ failures < MaxFailures
  /\ failures' = failures + 1
  /\ req' = [req EXCEPT ![r] = Idle]
  /\ UNCHANGED <<row, audit>>

-----------------------------------------------------------------------------
Accept(r) ==
  \/ \E l \in Lists, s \in Status : BeginCreate(r, l, s)
  \/ \E t \in Tasks :
       \/ \E s \in Status \cup {None}, l \in UpdateLists \cup {None} :
            BeginUpdate(r, t, s, l)
       \/ \E p \in PositionsFor(t, row[t].list) : BeginUpdatePosition(r, t, p)
       \/ BeginRemove(r, t)
       \/ \E l \in Lists : \E p \in PositionsFor(t, l) : BeginMove(r, t, l, p)

Advance(r) ==
  \/ CreateInsert(r)
  \/ UpdateWrite(r)
  \/ ShiftOthers(r)
  \/ SetPosition(r)
  \/ RemoveCommit(r)
  \/ MoveCommit(r)
  \/ WriteLog(r)

Next == \E r \in Requests : Accept(r) \/ Advance(r) \/ Fail(r)

Spec == Init /\ [][Next]_vars

-----------------------------------------------------------------------------
(* Properties *)

(***************************************************************************)
(* While no two requests in flight name the same task, a live task carries *)
(* a completion date exactly when its status is DONE                       *)
(* (the date create, update and moveTaskToList set and clear, which the    *)
(* completed-tasks report of AnalysisService counts).                      *)
(***************************************************************************)
CompletedIffDone ==
  \A t \in Tasks : row[t].state = "live" => (row[t].completed <=> row[t].status = DONE)

(***************************************************************************)
(* A shift never runs away: whatever requests interleave on a list, and    *)
(* wherever a handler ends half way, no position ever falls below the      *)
(* lowest one a client has sent (or the 0 of the first task), although     *)
(* every shift trusts a position read at an earlier await and the same gap *)
(* can be closed twice.                                                    *)
(***************************************************************************)
ShiftsKeepFloor == \A t \in Tasks : row[t].position >= LowestPosition

(***************************************************************************)
(* While no two requests in flight touch the same list, and no list is     *)
(* mapped to a status, the positions of the live tasks of a list are       *)
(* exactly 0..n-1, except between the two statements of updatePosition on  *)
(* that list.                                                              *)
(***************************************************************************)
BeingReordered(l) == \E r \in Requests : req[r].pc = "set" /\ req[r].seen.list = l

PositionsDense ==
  \A l \in Lists :
    ~ BeingReordered(l) =>
      {row[t].position : t \in Live(l)} = 0 .. Cardinality(Live(l)) - 1

(***************************************************************************)
(* A soft-deleted task stays deleted, whatever requests interleave, and no *)
(* shift made for another task touches it: only a handler that found this  *)
(* very task alive still writes it by its id (task.service.ts:304 and the  *)
(* other updates look at no deletedAt).                                    *)
(***************************************************************************)
WritesById(r, t) ==
  /\ req[r].task = t /\ req'[r] # req[r]
  /\ req[r].pc \in {"update", "set", "remove", "move"}

DeletedTasksFrozen ==
  [][\A t \in Tasks : row[t].state = "deleted" =>
       /\ row'[t].state = "deleted"
       /\ row'[t] = row[t] \/ \E r \in Requests : WritesById(r, t)]_vars

Commits(r, pc) == req[r].pc = pc /\ req'[r].pc = "log"

(***************************************************************************)
(* Column -> status: whatever else interleaves, a task moved to a column   *)
(* mapped to a status has that status afterwards, unless its status was    *)
(* changed between the read of moveTaskToList and its transaction.         *)
(***************************************************************************)
MoveAdoptsColumnStatus ==
  [][\A r \in Requests :
       /\ Commits(r, "move")
       /\ ColumnStatus[req[r].list] # None
       /\ row[req[r].task].status = req[r].seen.status
       => row'[req[r].task].status = ColumnStatus[req[r].list]]_vars

(***************************************************************************)
(* Status -> column: while no two requests in flight name the same task,   *)
(* an update that changes the status of a task and names no list, on a     *)
(* board that has a column for the new status, leaves it in that column.   *)
(***************************************************************************)
StatusMovesToColumn ==
  [][\A r \in Requests :
       LET q == req[r] IN
       /\ Commits(r, "update")
       /\ q.list = None
       /\ q.status \notin {None, row[q.task].status}
       /\ ColumnsFor(BoardOf[row[q.task].list], q.status) # {}
       => row'[q.task].list \in ColumnsFor(BoardOf[row[q.task].list], q.status)]_vars

(***************************************************************************)
(* An update whose body names no list never takes a task off its board:    *)
(* the automation only looks for a column on the task's own board.         *)
(***************************************************************************)
AutomationKeepsBoard ==
  [][\A r \in Requests :
       Commits(r, "update") /\ req[r].list = None
         => BoardOf[row'[req[r].task].list] = BoardOf[row[req[r].task].list]]_vars

(***************************************************************************)
(* As long as no handler ended half way, the newest log row of a task no   *)
(* handler works on agrees with the table: a task has one exactly when it  *)
(* exists, the last entry of a deleted task (and of no other) is           *)
(* TASK_DELETED, and the last status change logged is the status it has.   *)
(***************************************************************************)
AuditTrailAgrees ==
  failures = 0 =>
    \A t \in Tasks :
      (\A r \in Requests : req[r].task # t) =>
        /\ row[t].state = "absent" <=> audit[t].action = None
        /\ row[t].state = "deleted" <=> audit[t].action = "TASK_DELETED"
        /\ audit[t].action = "TASK_STATUS_CHANGED" => row[t].status = audit[t].to

=============================================================================
