---------------------------- MODULE BoardContents ----------------------------
(***************************************************************************)
(* What hangs together on a board: columns, tasks, their log, labels and   *)
(* comments. ListService (back-end/src/list), LabelService                 *)
(* (back-end/src/label), TaskCommentService (back-end/src/task-comment),   *)
(* BoardService.remove, and of TaskService what creates, moves, deletes    *)
(* and logs.                                                               *)
(*                                                                         *)
(* The tables refer to one another. A foreign key without onDelete refuses *)
(* to delete a row that is still referred to (tasks of a list, log and     *)
(* labels of a task, uses of a label); comments go with their task. What   *)
(* ListService.remove does in five statements therefore depends on nobody  *)
(* adding a row behind it.                                                 *)
(*                                                                         *)
(* Left out: the order of the tasks and the status of a column             *)
(* (TaskBoard), and who may do what.                                       *)
(***************************************************************************)
EXTENDS Integers, FiniteSets

CONSTANTS
  Tasks, Lists, Labels,  \* ids (uuids: an id is used once)
  Boards,
  LabelBoard,   \* Label.boardId
  ClientPositions,  \* the positions that clients send for a column: any integer
  None,
  Requests,     \* the handlers that can be in flight at one time
  Isolation,    \* "apart": requests in flight share no column, task or label; or "none"
  MaxFailures   \* bound: how many handlers may end in the middle

ASSUME ContentsAssumption ==
  /\ LabelBoard \in [Labels -> Boards] /\ ClientPositions \subseteq Int
  /\ None \notin Tasks \cup Lists \cup Labels \cup Boards
  /\ Isolation \in {"apart", "none"}
  /\ MaxFailures \in Nat

VARIABLES
  board,     \* the boards that are there
  list,      \* the table List: state, position and boardId of each column
  task,      \* of the table Task: state and listId
  log,       \* the table TaskLog: the tasks with rows in it, and the boards those name
  label,     \* the labels that are there, and those that are gone
  labelled,  \* the table TaskLabel
  comment,   \* the tasks with comments
  req,       \* for each handler what it is about to do, and what it remembers
  failures,  \* how many handlers have ended in the middle
  clashed,   \* history: boards where a client has sent a position that was taken
  crossed    \* history: tasks that came from one board to another

tables == <<board, list, task, log, label, labelled, comment>>
history == <<clashed, crossed>>
vars == <<tables, req, failures, history>>

RowState == {"absent", "there", "gone"}

ListRow == [state: RowState, position: Int, board: Boards \cup {None}]

\* "deleted" is a row with deletedAt set
TaskRow == [state: {"absent", "live", "deleted", "gone"}, list: Lists \cup {None}]

\* of a row that has been deleted only the id is left, which is not used again
GoneList == [state |-> "gone", position |-> 0, board |-> None]
GoneTask == [state |-> "gone", list |-> None]

Request == [pc: {"idle", "insert", "change", "move", "delete", "log",
                 "readTasks", "unlabel", "unlog", "deleteTasks", "deleteList",
                 "shift", "set", "attach", "detach", "unlabelAll", "deleteLabel",
                 "comment"},
            list: Lists \cup {None}, task: Tasks \cup {None},
            label: Labels \cup {None}, ids: SUBSET Tasks,
            board: Boards \cup {None}, old: Int, new: Int]

Idle == [pc |-> "idle", list |-> None, task |-> None, label |-> None, ids |-> {},
         board |-> None, old |-> 0, new |-> 0]

Init ==
  /\ board = Boards
  /\ list = [l \in Lists |-> [GoneList EXCEPT !.state = "absent"]]
  /\ task = [t \in Tasks |-> [state |-> "absent", list |-> None]]
  /\ log = {}
  /\ label = [g \in Labels |-> "absent"]
  /\ labelled = {}
  /\ comment = {}
  /\ req = [r \in Requests |-> Idle]
  /\ failures = 0
  /\ clashed = {} /\ crossed = {}

-----------------------------------------------------------------------------
(* Queries *)

IsThere(l) == list[l].state = "there"
Row(t) == task[t].state \in {"live", "deleted"}
Live(t) == task[t].state = "live"

Columns(b) == {l \in Lists : IsThere(l) /\ list[l].board = b}

\* every row of Task with this listId, the soft-deleted ones included
TasksIn(l) == {t \in Tasks : Row(t) /\ task[t].list = l}

\* the board of the column of t
BoardOfTask(t) == list[task[t].list].board

\* the rows that keep t from being deleted
Logged(t) == \E x \in log : x[1] = t
Referred(t) == Logged(t) \/ \E g \in Labels : <<t, g>> \in labelled

InFlight(r) == req[r].pc # "idle"
Reordering(r, b) == req[r].pc \in {"shift", "set"} /\ req[r].board = b

(***************************************************************************)
(* Isolation is no mechanism of the code: with "apart" the requests in     *)
(* flight happen to be about different columns and labels, and while a     *)
(* board is reordered nobody else reorders it or puts a column on it.      *)
(***************************************************************************)
ListsOf(q) == ({q.list} \cup {task[t].list : t \in {q.task} \ {None}}) \ {None}

Free(some) ==
  Isolation = "apart" =>
    \A r \in Requests : InFlight(r) => ListsOf(req[r]) \cap some = {}

Still(b) == Isolation = "apart" => \A r \in Requests : ~ Reordering(r, b)

Apart(q) ==
  /\ Free(ListsOf(q))
  /\ q.pc \in {"shift", "set"} => Still(q.board)
  /\ Isolation = "apart" =>
       \A r \in Requests : InFlight(r) => req[r].label # q.label \/ q.label = None

Begin(r, q) ==
  /\ ~ InFlight(r)
  /\ Apart(q)
  /\ req' = [req EXCEPT ![r] = q]
  /\ UNCHANGED <<tables, failures, history>>

Then(r, pc) == req' = [req EXCEPT ![r].pc = pc]
Done(r) == req' = [req EXCEPT ![r] = Idle]

\* the log names the board that the handler read at first
ThenLog(r, t) ==
  req' = [req EXCEPT ![r] = [Idle EXCEPT !.pc = "log", !.task = t, !.board = req[r].board]]

-----------------------------------------------------------------------------
(* Columns *)

\* a client puts l at position p of board b
Put(l, p, b) ==
  /\ b \in board
  /\ Still(b)
  /\ list' = [list EXCEPT ![l] = [state |-> "there", position |-> p, board |-> b]]
  /\ clashed' = IF \E k \in Columns(b) \ {l} : list[k].position = p THEN clashed \cup {b}
                ELSE clashed

\* create stores the position that the client sends
CreateList(l, p, b) ==
  /\ list[l].state = "absent"
  /\ Put(l, p, b)
  /\ UNCHANGED <<board, task, log, label, labelled, comment, req, failures, crossed>>

\* update stores whatever the body has: a position, a boardId, both
PatchList(l, p, b) ==
  /\ IsThere(l) /\ Free({l})
  /\ Put(l, p, b)
  /\ crossed' = IF b = list[l].board THEN crossed ELSE crossed \cup TasksIn(l)
  /\ UNCHANGED <<board, task, log, label, labelled, comment, req, failures>>

\* updatePosition; its body is not validated
BeginReorder(r, l, p) ==
  /\ IsThere(l)
  /\ Begin(r, [Idle EXCEPT !.pc = IF p = list[l].position THEN "set" ELSE "shift",
                           !.list = l, !.board = list[l].board,
                           !.old = list[l].position, !.new = p])

\* seeded bug: the columns move to the wrong side
StepAsideUp(q, p) == IF q.new <= p /\ p < q.old THEN p + 1 ELSE p

\* the two updateMany of updatePosition
StepAside(q, p) ==
  IF q.new <= p /\ p < q.old THEN p + 1
  ELSE IF q.old < p /\ p <= q.new THEN p - 1 ELSE p

ShiftColumns(r) ==
  /\ req[r].pc = "shift"
  /\ list' = [l \in Lists |->
                IF l \in Columns(req[r].board)
                THEN [list[l] EXCEPT !.position = StepAside(req[r], @)] ELSE list[l]]
  /\ Then(r, "set")
  /\ UNCHANGED <<board, task, log, label, labelled, comment, failures, history>>

SetColumn(r) ==
  /\ req[r].pc = "set"
  /\ IsThere(req[r].list)
  /\ list' = [list EXCEPT ![req[r].list].position = req[r].new]
  /\ Done(r)
  /\ UNCHANGED <<board, task, log, label, labelled, comment, failures, history>>

BeginRemoveList(r, l) ==
  /\ IsThere(l)
  /\ Begin(r, [Idle EXCEPT !.pc = "readTasks", !.list = l])

\* seeded bug: only the tasks that are shown are looked for
LiveTasksOf(l) == {t \in TasksIn(l) : Live(t)}

\* seeded bug: the tasks of the board are looked for
TasksOfBoard(l) == UNION {TasksIn(k) : k \in Columns(list[l].board)}

\* task.findMany({ where: { listId } })
TasksOf(l) == TasksIn(l)

ReadTasks(r) ==
  /\ req[r].pc = "readTasks"
  /\ LET ids == TasksOf(req[r].list)
     IN  req' = [req EXCEPT ![r].ids = ids,
                            ![r].pc = IF ids = {} THEN "deleteList" ELSE "unlabel"]
  /\ UNCHANGED <<tables, failures, history>>

Unlabel(r) ==
  /\ req[r].pc = "unlabel"
  /\ labelled' = {x \in labelled : x[1] \notin req[r].ids}
  /\ Then(r, "unlog")
  /\ UNCHANGED <<board, list, task, log, label, comment, failures, history>>

Unlog(r) ==
  /\ req[r].pc = "unlog"
  /\ log' = {x \in log : x[1] \notin req[r].ids}
  /\ Then(r, "deleteTasks")
  /\ UNCHANGED <<board, list, task, label, labelled, comment, failures, history>>

\* task.deleteMany({ where: { listId } }): not the ones that were read
DeleteTasks(r) ==
  LET l == req[r].list IN
  /\ req[r].pc = "deleteTasks"
  /\ \A t \in TasksIn(l) : ~ Referred(t)
  /\ task' = [t \in Tasks |-> IF t \in TasksIn(l) THEN GoneTask
                              ELSE task[t]]
  /\ comment' = comment \ TasksIn(l)
  /\ Then(r, "deleteList")
  /\ UNCHANGED <<board, list, log, label, labelled, failures, history>>

DeleteList(r) ==
  /\ req[r].pc = "deleteList"
  /\ IsThere(req[r].list) /\ TasksIn(req[r].list) = {}
  /\ list' = [list EXCEPT ![req[r].list] = GoneList]
  /\ Done(r)
  /\ UNCHANGED <<board, task, log, label, labelled, comment, failures, history>>

-----------------------------------------------------------------------------
(* Tasks and their log *)

BeginCreateTask(r, l) ==
  /\ IsThere(l)
  /\ Begin(r, [Idle EXCEPT !.pc = "insert", !.list = l, !.board = list[l].board])

InsertTask(r) ==
  /\ req[r].pc = "insert"
  /\ IsThere(req[r].list)
  /\ \E t \in Tasks :
       /\ task[t].state = "absent"
       /\ task' = [task EXCEPT ![t] = [state |-> "live", list |-> req[r].list]]
       /\ ThenLog(r, t)
       /\ crossed' = IF list[req[r].list].board = req[r].board THEN crossed
                     ELSE crossed \cup {t}
  /\ UNCHANGED <<board, list, log, label, labelled, comment, failures, clashed>>

\* update, which changes nothing of a task that matters here
BeginChange(r, t) ==
  /\ Live(t)
  /\ Begin(r, [Idle EXCEPT !.pc = "change", !.task = t, !.board = BoardOfTask(t)])

ChangeTask(r) ==
  /\ req[r].pc = "change"
  /\ Row(req[r].task)
  /\ ThenLog(r, req[r].task)
  /\ UNCHANGED <<tables, failures, history>>

\* moveTaskToList, and update with a listId: a list of any board
BeginMove(r, t, l) ==
  /\ Live(t) /\ IsThere(l)
  /\ Begin(r, [Idle EXCEPT !.pc = "move", !.task = t, !.list = l, !.board = BoardOfTask(t)])

MoveTask(r) ==
  /\ req[r].pc = "move"
  /\ Row(req[r].task) /\ IsThere(req[r].list)
  /\ task' = [task EXCEPT ![req[r].task].list = req[r].list]
  /\ ThenLog(r, req[r].task)
  /\ crossed' = IF list[req[r].list].board = BoardOfTask(req[r].task) THEN crossed
                ELSE crossed \cup {req[r].task}
  /\ UNCHANGED <<board, list, log, label, labelled, comment, failures, clashed>>

BeginDelete(r, t) ==
  /\ Live(t)
  /\ Begin(r, [Idle EXCEPT !.pc = "delete", !.task = t, !.board = BoardOfTask(t)])

DeleteTask(r) ==
  /\ req[r].pc = "delete"
  /\ Row(req[r].task)
  /\ task' = [task EXCEPT ![req[r].task].state = "deleted"]
  /\ ThenLog(r, req[r].task)
  /\ UNCHANGED <<board, list, log, label, labelled, comment, failures, history>>

\* createLog: its foreign keys ask for the rows of the task and of the board
WriteLog(r) ==
  /\ req[r].pc = "log"
  /\ Row(req[r].task) /\ req[r].board \in board
  /\ log' = log \cup {<<req[r].task, req[r].board>>}
  /\ Done(r)
  /\ UNCHANGED <<board, list, task, label, labelled, comment, failures, history>>

-----------------------------------------------------------------------------
(* Labels and comments *)

CreateLabel(g) ==
  /\ label[g] = "absent" /\ LabelBoard[g] \in board
  /\ label' = [label EXCEPT ![g] = "there"]
  /\ UNCHANGED <<board, list, task, log, labelled, comment, req, failures, history>>

BeginRemoveLabel(r, g) ==
  /\ label[g] = "there"
  /\ Begin(r, [Idle EXCEPT !.pc = "unlabelAll", !.label = g])

UnlabelAll(r) ==
  /\ req[r].pc = "unlabelAll"
  /\ labelled' = {x \in labelled : x[2] # req[r].label}
  /\ Then(r, "deleteLabel")
  /\ UNCHANGED <<board, list, task, log, label, comment, failures, history>>

DeleteLabel(r) ==
  LET g == req[r].label IN
  /\ req[r].pc = "deleteLabel"
  /\ label[g] = "there" /\ \A x \in labelled : x[2] # g
  /\ label' = [label EXCEPT ![g] = "gone"]
  /\ Done(r)
  /\ UNCHANGED <<board, list, task, log, labelled, comment, failures, history>>

BeginAttach(r, t, g) ==
  /\ Live(t) /\ label[g] = "there" /\ LabelBoard[g] = BoardOfTask(t)
  /\ Begin(r, [Idle EXCEPT !.pc = "attach", !.task = t, !.label = g])

\* the upsert of addToTask: both rows must still be there
Attach(r) ==
  /\ req[r].pc = "attach"
  /\ Row(req[r].task) /\ label[req[r].label] = "there"
  /\ labelled' = labelled \cup {<<req[r].task, req[r].label>>}
  /\ Done(r)
  /\ UNCHANGED <<board, list, task, log, label, comment, failures, history>>

BeginDetach(r, t, g) ==
  /\ Live(t)
  /\ Begin(r, [Idle EXCEPT !.pc = "detach", !.task = t, !.label = g])

Detach(r) ==
  /\ req[r].pc = "detach"
  /\ labelled' = labelled \ {<<req[r].task, req[r].label>>}
  /\ Done(r)
  /\ UNCHANGED <<board, list, task, log, label, comment, failures, history>>

BeginComment(r, t) ==
  /\ Live(t)
  /\ Begin(r, [Idle EXCEPT !.pc = "comment", !.task = t])

InsertComment(r) ==
  /\ req[r].pc = "comment"
  /\ Row(req[r].task)
  /\ comment' = comment \cup {req[r].task}
  /\ Done(r)
  /\ UNCHANGED <<board, list, task, log, label, labelled, failures, history>>

\* the last comment of a task
RemoveComment(t) ==
  /\ t \in comment
  /\ comment' = comment \ {t}
  /\ UNCHANGED <<board, list, task, log, label, labelled, req, failures, history>>

-----------------------------------------------------------------------------
\* seeded bug: only the tasks that are shown are looked for
LiveTasksOn(b) == {t \in UNION {TasksIn(l) : l \in Columns(b)} : Live(t)}

\* task.findMany({ where: { list: { boardId } } })
TasksOn(b) == UNION {TasksIn(l) : l \in Columns(b)}

(***************************************************************************)
(* BoardService.remove: one transaction that meets every foreign key in    *)
(* the right order. It takes every log row that names the board, whatever  *)
(* board the task is on by now.                                            *)
(***************************************************************************)
RemoveBoard(b) ==
  LET gone == TasksOn(b) IN
  /\ b \in board
  /\ board' = board \ {b}
  /\ list' = [l \in Lists |-> IF l \in Columns(b) THEN GoneList
                              ELSE list[l]]
  /\ task' = [t \in Tasks |-> IF t \in gone THEN GoneTask
                              ELSE task[t]]
  /\ log' = {x \in log : x[1] \notin gone /\ x[2] # b}
  /\ label' = [g \in Labels |-> IF LabelBoard[g] = b /\ label[g] = "there" THEN "gone"
                                ELSE label[g]]
  /\ labelled' = {x \in labelled : x[1] \notin gone /\ LabelBoard[x[2]] # b}
  /\ comment' = comment \ gone
  /\ UNCHANGED <<req, failures, history>>

(***************************************************************************)
(* A statement finds its row gone (P2025) or a foreign key refuses it      *)
(* (P2003); the handler ends, and what it wrote stays.                     *)
(***************************************************************************)
Refuse(r) ==
  LET q == req[r] IN
  /\ \/ q.pc \in {"set", "insert", "move"} /\ ~ IsThere(q.list)
     \/ q.pc \in {"change", "move", "delete", "log", "attach", "comment"} /\ ~ Row(q.task)
     \/ q.pc = "log" /\ q.board \notin board
     \/ q.pc = "deleteTasks" /\ \E t \in TasksIn(q.list) : Referred(t)
     \/ q.pc = "deleteList" /\ (TasksIn(q.list) # {} \/ ~ IsThere(q.list))
     \/ q.pc = "attach" /\ label[q.label] # "there"
     \/ q.pc = "deleteLabel" /\ (label[q.label] # "there" \/ \E x \in labelled : x[2] = q.label)
  /\ Done(r)
  /\ UNCHANGED <<tables, failures, history>>

\* a database error or a restart between two statements
Fail(r) ==
  /\ InFlight(r)
  /\ failures < MaxFailures
  /\ failures' = failures + 1
  /\ Done(r)
  /\ UNCHANGED <<tables, history>>

Accept(r) ==
  \/ \E l \in Lists :
       \/ \E p \in ClientPositions : BeginReorder(r, l, p)
       \/ BeginRemoveList(r, l)
       \/ BeginCreateTask(r, l)
  \/ \E t \in Tasks :
       \/ BeginChange(r, t)
       \/ BeginDelete(r, t)
       \/ BeginComment(r, t)
       \/ \E l \in Lists : BeginMove(r, t, l)
       \/ \E g \in Labels : BeginAttach(r, t, g) \/ BeginDetach(r, t, g)
  \/ \E g \in Labels : BeginRemoveLabel(r, g)

Advance(r) ==
  \/ ShiftColumns(r) \/ SetColumn(r)
  \/ ReadTasks(r) \/ Unlabel(r) \/ Unlog(r) \/ DeleteTasks(r) \/ DeleteList(r)
  \/ InsertTask(r) \/ ChangeTask(r) \/ MoveTask(r) \/ DeleteTask(r) \/ WriteLog(r)
  \/ UnlabelAll(r) \/ DeleteLabel(r) \/ Attach(r) \/ Detach(r) \/ InsertComment(r)
  \/ Refuse(r)

AtOnce ==
  \/ \E l \in Lists, b \in Boards :
       \/ \E p \in ClientPositions : CreateList(l, p, b)
       \/ \E p \in ClientPositions \cup {list[l].position} : PatchList(l, p, b)
  \/ \E g \in Labels : CreateLabel(g)
  \/ \E t \in Tasks : RemoveComment(t)
  \/ \E b \in Boards : RemoveBoard(b)

Next == AtOnce \/ \E r \in Requests : Accept(r) \/ Advance(r) \/ Fail(r)

Spec == Init /\ [][Next]_vars

-----------------------------------------------------------------------------
(* Properties *)

\* Every row and every handler is well formed, and no row refers to one that is gone.
TypeOK ==
  /\ board \subseteq Boards
  /\ list \in [Lists -> ListRow]
  /\ task \in [Tasks -> TaskRow]
  /\ log \subseteq Tasks \X Boards
  /\ label \in [Labels -> RowState]
  /\ labelled \subseteq Tasks \X Labels
  /\ comment \subseteq Tasks
  /\ req \in [Requests -> Request]
  /\ failures \in Nat
  /\ clashed \subseteq Boards /\ crossed \subseteq Tasks
  /\ \A l \in Lists : IsThere(l) => list[l].board \in board
  /\ \A t \in Tasks : IF Row(t) THEN task[t].list \in Lists /\ IsThere(task[t].list)
                      ELSE ~ Referred(t) /\ t \notin comment
  /\ \A x \in labelled : label[x[2]] = "there"
  /\ \A x \in log : x[2] \in board

(***************************************************************************)
(* While requests in flight are about different columns, tasks and labels, *)
(* the removal of a column or of a label never meets a foreign key: what   *)
(* ListService.remove has read and cleared is all there is when it deletes *)
(* the tasks, then the column, also when an earlier removal was cut off    *)
(* half way and is repeated.                                               *)
(***************************************************************************)
RemovalNeverBlocked ==
  \A r \in Requests :
    /\ req[r].pc = "deleteTasks" => \A t \in TasksIn(req[r].list) : ~ Referred(t)
    /\ req[r].pc = "deleteList" => TasksIn(req[r].list) = {}
    /\ req[r].pc = "deleteLabel" => \A x \in labelled : x[2] # req[r].label

(***************************************************************************)
(* While requests are apart and none is cut off, a task that is shown has  *)
(* its log (the history of EditTaskDialog), except before create has       *)
(* written the first row and while its own column is being removed; unless *)
(* it came from another board, and a board was removed.                    *)
(***************************************************************************)
HistoryKept ==
  failures = 0 =>
    \A t \in Tasks : Live(t) =>
      \/ Logged(t)
      \/ \E r \in Requests : req[r].pc = "log" /\ req[r].task = t
      \/ \E r \in Requests : req[r].pc = "deleteTasks" /\ req[r].list = task[t].list
      \/ t \in crossed /\ board # Boards

(***************************************************************************)
(* Whatever positions clients send, reordering the columns of a board      *)
(* never brings two of them to the same position, except between the two   *)
(* statements of updatePosition or after a handler was cut off: only a     *)
(* client that creates or patches a column with a position that is taken   *)
(* does, a stale number of columns for example.                            *)
(***************************************************************************)
ColumnsApart ==
  failures = 0 =>
    \A b \in board \ clashed :
      \/ \E r \in Requests : req[r].pc = "set" /\ req[r].board = b
      \/ \A k, l \in Columns(b) : list[k].position = list[l].position => k = l

(***************************************************************************)
(* BoardService.remove says of the log rows it deletes by their board:     *)
(* "Logs orfaos do board (sem task associada)". So no task that is still   *)
(* there loses a row of its log. The code deletes the rows of tasks that   *)
(* have moved on to another board.                                         *)
(***************************************************************************)
OnlyOrphanLogs ==
  [][\A b \in Boards : RemoveBoard(b) => \A x \in log \ log' : ~ Row(x[1])']_vars

=============================================================================
