---------------------------- MODULE ContentsProofs ----------------------------
(***************************************************************************)
(* Proofs about BoardContents, for any boards, columns, tasks and labels.  *)
(***************************************************************************)
EXTENDS BoardContents, TLAPS

\* a handler remembers what its next statement needs
RequestOK(q) ==
  /\ q.pc \in {"insert", "move", "readTasks", "unlabel", "unlog", "deleteTasks",
               "deleteList", "shift", "set"} => q.list \in Lists
  /\ q.pc \in {"change", "move", "delete", "log", "attach", "detach", "comment"}
       => q.task \in Tasks
  /\ q.pc \in {"attach", "detach", "unlabelAll", "deleteLabel"} => q.label \in Labels
  /\ q.pc \in {"insert", "change", "move", "delete", "log", "shift", "set"}
       => q.board \in Boards

RequestsOK == \A r \in Requests : RequestOK(req[r])

-----------------------------------------------------------------------------
(* Types *)

LEMMA IdleType == Idle \in Request /\ RequestOK(Idle) /\ Idle.pc = "idle"
BY DEF Idle, Request, RequestOK

\* a column that is there is on a board, and so is a task that has a row
LEMMA OnBoard ==
  ASSUME TypeOK
  PROVE  /\ \A l \in Lists : IsThere(l) => list[l].board \in Boards
         /\ \A t \in Tasks : Row(t) => BoardOfTask(t) \in Boards
BY DEF TypeOK, BoardOfTask

\* one handler goes on and the others stay where they are
LEMMA DoneReq ==
  ASSUME req \in [Requests -> Request], NEW r \in Requests, Done(r)
  PROVE  /\ req' \in [Requests -> Request]
         /\ req'[r] = Idle
         /\ \A s \in Requests \ {r} : req'[s] = req[s]
BY IdleType DEF Done

LEMMA ThenReq ==
  ASSUME req \in [Requests -> Request], NEW r \in Requests,
         NEW pc \in {"unlabel", "unlog", "deleteTasks", "deleteList", "set", "deleteLabel"},
         Then(r, pc)
  PROVE  /\ req' \in [Requests -> Request]
         /\ req'[r].pc = pc
         /\ req'[r].list = req[r].list /\ req'[r].task = req[r].task
         /\ req'[r].label = req[r].label /\ req'[r].ids = req[r].ids
         /\ req'[r].new = req[r].new /\ req'[r].old = req[r].old
         /\ req'[r].board = req[r].board
         /\ \A s \in Requests \ {r} : req'[s] = req[s]
<1>1. [req[r] EXCEPT !.pc = pc] \in Request  BY DEF Request
<1> QED  BY <1>1 DEF Then, Request

LEMMA LogReq ==
  ASSUME req \in [Requests -> Request], NEW r \in Requests, NEW t \in Tasks, ThenLog(r, t)
  PROVE  /\ req' \in [Requests -> Request]
         /\ req'[r].pc = "log" /\ req'[r].task = t /\ req'[r].board = req[r].board
         /\ req'[r].list = None /\ req'[r].label = None /\ req'[r].ids = {}
         /\ \A s \in Requests \ {r} : req'[s] = req[s]
<1> DEFINE q == [Idle EXCEPT !.pc = "log", !.task = t, !.board = req[r].board]
<1>1. q \in Request  BY IdleType DEF Request
<1>2. /\ q.pc = "log" /\ q.task = t /\ q.board = req[r].board
      /\ q.list = None /\ q.label = None /\ q.ids = {}
  BY DEF Idle
<1>3. req' = [req EXCEPT ![r] = q]  BY DEF ThenLog
<1> HIDE DEF q
<1> QED  BY <1>1, <1>2, <1>3

LEMMA ReadReq ==
  ASSUME req \in [Requests -> Request], NEW r \in Requests, ReadTasks(r)
  PROVE  /\ req' \in [Requests -> Request]
         /\ req'[r].ids = TasksIn(req[r].list)
         /\ req'[r].pc \in {"deleteList", "unlabel"}
         /\ req'[r].pc = "deleteList" => TasksIn(req[r].list) = {}
         /\ req'[r].list = req[r].list /\ req'[r].task = req[r].task
         /\ req'[r].label = req[r].label /\ req'[r].board = req[r].board
         /\ \A s \in Requests \ {r} : req'[s] = req[s]
<1> DEFINE ids == TasksIn(req[r].list)
           pc == IF ids = {} THEN "deleteList" ELSE "unlabel"
<1>1. ids \subseteq Tasks /\ pc \in {"deleteList", "unlabel"}  BY DEF TasksIn
<1>2. pc = "deleteList" => ids = {}  OBVIOUS
<1>3. req' = [req EXCEPT ![r].ids = ids, ![r].pc = pc]  BY DEF ReadTasks, TasksOf
<1> HIDE DEF ids, pc
<1>4. [req[r] EXCEPT !.ids = ids, !.pc = pc] \in Request  BY <1>1 DEF Request
<1> QED  BY <1>1, <1>2, <1>3, <1>4 DEF Request, ids

\* the requests that a handler begins with, each with what it is about
LEMMA BeginReq ==
  ASSUME req \in [Requests -> Request], NEW r \in Requests, NEW q \in Request, Begin(r, q)
  PROVE  /\ req' \in [Requests -> Request]
         /\ req'[r] = q
         /\ \A s \in Requests \ {r} : req'[s] = req[s]
BY DEF Begin

LEMMA Accepted ==
  ASSUME TypeOK, NEW r \in Requests, Accept(r)
  PROVE  \E q \in Request :
           /\ Begin(r, q) /\ RequestOK(q) /\ q.pc # "idle"
           /\ q.pc \notin {"unlabel", "unlog", "deleteTasks", "deleteList", "deleteLabel",
                           "log"}
           /\ q.task # None => task[q.task].state # "absent"
           /\ q.ids = {}
           /\ q.pc \in {"change", "move", "delete"} => q.board = BoardOfTask(q.task)
<1>0. list \in [Lists -> ListRow]  BY DEF TypeOK
<1>1. ASSUME NEW l \in Lists, NEW p \in ClientPositions, BeginReorder(r, l, p)
      PROVE  \E q \in Request :
               /\ Begin(r, q) /\ RequestOK(q) /\ q.pc \in {"set", "shift"}
               /\ q.task = None /\ q.ids = {}
  <2> DEFINE pc == IF p = list[l].position THEN "set" ELSE "shift"
             q == [Idle EXCEPT !.pc = pc, !.list = l, !.board = list[l].board,
                               !.old = list[l].position, !.new = p]
  <2>1. /\ p \in Int /\ list[l].position \in Int /\ list[l].board \in Boards
        /\ pc \in {"set", "shift"}
    BY <1>0, <1>1, OnBoard, ContentsAssumption DEF BeginReorder, ListRow
  <2>2. Begin(r, q)  BY <1>1 DEF BeginReorder
  <2> HIDE DEF pc
  <2>3. q \in Request  BY <2>1, IdleType DEF Request
  <2>4. q.pc = pc /\ q.list = l /\ q.board = list[l].board /\ q.task = None /\ q.ids = {}
    BY DEF Idle
  <2> HIDE DEF q
  <2> QED  BY <2>1, <2>2, <2>3, <2>4 DEF RequestOK
<1>2. ASSUME NEW l \in Lists, BeginRemoveList(r, l) \/ BeginCreateTask(r, l)
      PROVE  \E q \in Request :
               /\ Begin(r, q) /\ RequestOK(q) /\ q.pc \in {"readTasks", "insert"}
               /\ q.task = None /\ q.ids = {}
  <2> DEFINE q == [Idle EXCEPT !.pc = "readTasks", !.list = l]
             c == [Idle EXCEPT !.pc = "insert", !.list = l, !.board = list[l].board]
  <2>1. list[l].board \in Boards  BY <1>2, OnBoard DEF BeginRemoveList, BeginCreateTask
  <2>2. q \in Request /\ c \in Request  BY <2>1, IdleType DEF Request
  <2>3. /\ q.pc = "readTasks" /\ q.list = l /\ q.task = None /\ q.ids = {}
        /\ c.pc = "insert" /\ c.list = l /\ c.task = None /\ c.ids = {}
        /\ c.board = list[l].board
    BY DEF Idle
  <2>4. Begin(r, q) \/ Begin(r, c)  BY <1>2 DEF BeginRemoveList, BeginCreateTask
  <2> HIDE DEF q, c
  <2> QED  BY <2>1, <2>2, <2>3, <2>4 DEF RequestOK
<1>3. ASSUME NEW t \in Tasks, BeginChange(r, t) \/ BeginDelete(r, t)
      PROVE  \E q \in Request :
               /\ Begin(r, q) /\ RequestOK(q) /\ q.pc \in {"change", "delete"}
               /\ task[q.task].state # "absent" /\ q.ids = {}
               /\ q.board = BoardOfTask(q.task)
  <2> DEFINE b == BoardOfTask(t)
             q(pc) == [Idle EXCEPT !.pc = pc, !.task = t, !.board = b]
  <2>1. Live(t) /\ (Begin(r, q("change")) \/ Begin(r, q("delete")))
    BY <1>3 DEF BeginChange, BeginDelete
  <2>2. b \in Boards  BY <2>1, OnBoard DEF Live, Row
  <2> HIDE DEF b
  <2>3. \A pc \in {"change", "delete"} : q(pc) \in Request
    BY <2>2, IdleType DEF Request
  <2>4. \A pc \in {"change", "delete"} :
          q(pc).pc = pc /\ q(pc).task = t /\ q(pc).ids = {} /\ q(pc).board = b
    BY DEF Idle
  <2> HIDE DEF q
  <2>5. \A pc \in {"change", "delete"} : RequestOK(q(pc))
    BY <2>2, <2>4 DEF RequestOK
  <2> QED  BY <2>1, <2>3, <2>4, <2>5 DEF Live, b
<1>4. ASSUME NEW t \in Tasks, NEW l \in Lists, BeginMove(r, t, l)
      PROVE  \E q \in Request :
               /\ Begin(r, q) /\ RequestOK(q) /\ q.pc = "move"
               /\ task[q.task].state # "absent" /\ q.ids = {}
               /\ q.board = BoardOfTask(q.task)
  <2> DEFINE b == BoardOfTask(t)
             q == [Idle EXCEPT !.pc = "move", !.task = t, !.list = l, !.board = b]
  <2>1. Begin(r, q) /\ Live(t)  BY <1>4 DEF BeginMove
  <2>2. b \in Boards  BY <2>1, OnBoard DEF Live, Row
  <2> HIDE DEF b
  <2>3. q \in Request  BY <2>2, IdleType DEF Request
  <2>4. q.pc = "move" /\ q.list = l /\ q.task = t /\ q.ids = {} /\ q.board = b
    BY DEF Idle
  <2> HIDE DEF q
  <2> QED  BY <2>1, <2>2, <2>3, <2>4 DEF Live, RequestOK, b
<1>5. ASSUME NEW t \in Tasks, NEW g \in Labels,
             BeginAttach(r, t, g) \/ BeginDetach(r, t, g)
      PROVE  \E q \in Request :
               /\ Begin(r, q) /\ RequestOK(q) /\ q.pc \in {"attach", "detach"}
               /\ task[q.task].state # "absent" /\ q.ids = {}
  <2> DEFINE q(pc) == [Idle EXCEPT !.pc = pc, !.task = t, !.label = g]
  <2>1. \A pc \in {"attach", "detach"} : q(pc) \in Request
    BY IdleType DEF Request
  <2>2. \A pc \in {"attach", "detach"} :
          q(pc).pc = pc /\ q(pc).task = t /\ q(pc).label = g /\ q(pc).ids = {}
    BY DEF Idle
  <2>3. Live(t) /\ (Begin(r, q("attach")) \/ Begin(r, q("detach")))
    BY <1>5 DEF BeginAttach, BeginDetach
  <2> HIDE DEF q
  <2> QED  BY <2>1, <2>2, <2>3 DEF Live, RequestOK
<1>6. ASSUME NEW g \in Labels, BeginRemoveLabel(r, g)
      PROVE  \E q \in Request :
               /\ Begin(r, q) /\ RequestOK(q) /\ q.pc = "unlabelAll"
               /\ q.task = None /\ q.ids = {}
  <2> DEFINE q == [Idle EXCEPT !.pc = "unlabelAll", !.label = g]
  <2>1. q \in Request  BY IdleType DEF Request
  <2>2. q.pc = "unlabelAll" /\ q.label = g /\ q.task = None /\ q.ids = {}
    BY DEF Idle
  <2>3. Begin(r, q)  BY <1>6 DEF BeginRemoveLabel
  <2> HIDE DEF q
  <2> QED  BY <2>1, <2>2, <2>3 DEF RequestOK
<1>7. ASSUME NEW t \in Tasks, BeginComment(r, t)
      PROVE  \E q \in Request :
               /\ Begin(r, q) /\ RequestOK(q) /\ q.pc = "comment"
               /\ task[q.task].state # "absent" /\ q.ids = {}
  <2> DEFINE q == [Idle EXCEPT !.pc = "comment", !.task = t]
  <2>1. q \in Request  BY IdleType DEF Request
  <2>2. q.pc = "comment" /\ q.task = t /\ q.ids = {}
    BY DEF Idle
  <2>3. Begin(r, q) /\ Live(t)  BY <1>7 DEF BeginComment
  <2> HIDE DEF q
  <2> QED  BY <2>1, <2>2, <2>3 DEF Live, RequestOK
<1> QED
  BY <1>1, <1>2, <1>3, <1>4, <1>5, <1>6, <1>7 DEF Accept

(***************************************************************************)
(* What a handler's step does to the handlers: it ends, goes on with the   *)
(* same request, or turns to the log of its task.                          *)
(***************************************************************************)
LEMMA Advanced ==
  ASSUME req \in [Requests -> Request], RequestsOK, NEW r \in Requests, Advance(r)
  PROVE  /\ req' \in [Requests -> Request] /\ RequestsOK'
         /\ \A s \in Requests \ {r} : req'[s] = req[s]
         /\ InFlight(r)
<1>1. CASE \/ SetColumn(r) \/ DeleteList(r) \/ WriteLog(r) \/ DeleteLabel(r)
           \/ Attach(r) \/ Detach(r) \/ InsertComment(r) \/ Refuse(r)
  <2>1. Done(r) /\ InFlight(r)
    BY <1>1 DEF SetColumn, DeleteList, WriteLog, DeleteLabel, Attach, Detach,
                InsertComment, Refuse, InFlight
  <2> QED  BY <2>1, DoneReq, IdleType DEF RequestsOK
<1>2. CASE \/ ShiftColumns(r) \/ Unlabel(r) \/ Unlog(r) \/ DeleteTasks(r)
  <2>1. PICK pc \in {"unlog", "deleteTasks", "deleteList", "set"} :
          /\ Then(r, pc) /\ InFlight(r) /\ req[r].list \in Lists
          /\ pc = "set" => req[r].board \in Boards
    BY <1>2 DEF ShiftColumns, Unlabel, Unlog, DeleteTasks, InFlight, RequestsOK, RequestOK
  <2> QED  BY <2>1, ThenReq DEF RequestsOK, RequestOK
<1>3. CASE UnlabelAll(r)
  BY <1>3, ThenReq DEF UnlabelAll, InFlight, RequestsOK, RequestOK
<1>4. CASE ReadTasks(r)
  <2>1. InFlight(r) /\ req[r].list \in Lists
    BY <1>4 DEF ReadTasks, InFlight, RequestsOK, RequestOK
  <2> QED  BY <1>4, <2>1, ReadReq DEF RequestsOK, RequestOK
<1>5. CASE InsertTask(r) \/ ChangeTask(r) \/ MoveTask(r) \/ DeleteTask(r)
  <2>1. PICK t \in Tasks : ThenLog(r, t) /\ InFlight(r) /\ req[r].board \in Boards
    BY <1>5 DEF InsertTask, ChangeTask, MoveTask, DeleteTask, InFlight, RequestsOK, RequestOK
  <2> QED  BY <2>1, LogReq DEF RequestsOK, RequestOK
<1> QED  BY <1>1, <1>2, <1>3, <1>4, <1>5 DEF Advance

LEMMA TypeInit == Init => TypeOK /\ RequestsOK
BY IdleType, ContentsAssumption
DEF Init, TypeOK, RequestsOK, ListRow, TaskRow, RowState, IsThere, Row, Referred, Logged,
    GoneList

LEMMA ColumnType ==
  ASSUME TypeOK, RequestsOK, NEW r \in Requests,
         ShiftColumns(r) \/ SetColumn(r) \/ DeleteList(r), req' \in [Requests -> Request]
  PROVE  TypeOK'
<1> USE DEF ListRow, RowState
<1>1. CASE ShiftColumns(r)
  <2>1. \A p \in Int : StepAside(req[r], p) \in Int
    BY DEF StepAside, TypeOK, Request
  <2>2. /\ list' \in [Lists -> ListRow]
        /\ \A l \in Lists : list'[l].state = list[l].state /\ list'[l].board = list[l].board
    BY <1>1, <2>1 DEF ShiftColumns, history, TypeOK
  <2> QED  BY <1>1, <2>2 DEF ShiftColumns, history, TypeOK, IsThere, Row, Referred, Logged
<1>2. CASE SetColumn(r)
  <2>1. req[r].list \in Lists /\ req[r].new \in Int
    BY <1>2 DEF SetColumn, history, TypeOK, Request, RequestsOK, RequestOK
  <2>2. /\ list' \in [Lists -> ListRow]
        /\ \A l \in Lists : list'[l].state = list[l].state /\ list'[l].board = list[l].board
    BY <1>2, <2>1 DEF SetColumn, history, TypeOK
  <2> QED  BY <1>2, <2>2 DEF SetColumn, history, TypeOK, IsThere, Row, Referred, Logged
<1>3. CASE DeleteList(r)
  <2>0. GoneList \in ListRow /\ GoneList.state = "gone"  BY DEF GoneList
  <2>1. /\ list' \in [Lists -> ListRow]
        /\ \A l \in Lists : IF l = req[r].list THEN list'[l].state = "gone"
                            ELSE list'[l] = list[l]
    <3>1. list' = [list EXCEPT ![req[r].list] = GoneList]  BY <1>3 DEF DeleteList
    <3> QED  BY <2>0, <3>1 DEF TypeOK
  <2> QED  BY <1>3, <2>1 DEF DeleteList, history, TypeOK, IsThere, Row, Referred, Logged, TasksIn
<1> QED  BY <1>1, <1>2, <1>3

LEMMA TaskType ==
  ASSUME TypeOK, RequestsOK, NEW r \in Requests,
         \/ DeleteTasks(r) \/ InsertTask(r) \/ MoveTask(r) \/ DeleteTask(r)
         \/ WriteLog(r) \/ InsertComment(r),
         req' \in [Requests -> Request]
  PROVE  TypeOK'
<1>1. CASE DeleteTasks(r)
  <2>1. /\ task' \in [Tasks -> TaskRow]
        /\ \A t \in Tasks : IF t \in TasksIn(req[r].list) THEN task'[t] = GoneTask
                            ELSE task'[t] = task[t]
    BY <1>1 DEF DeleteTasks, history, TypeOK, GoneTask, TaskRow
  <2> QED
    BY <1>1, <2>1 DEF DeleteTasks, history, TypeOK, IsThere, Row, Referred, Logged, TasksIn, GoneTask
<1>2. CASE InsertTask(r)
  <2>1. req[r].list \in Lists  BY <1>2 DEF InsertTask, history, RequestsOK, RequestOK
  <2>2. PICK t \in Tasks :
          /\ task[t].state = "absent"
          /\ task' = [task EXCEPT ![t] = [state |-> "live", list |-> req[r].list]]
    BY <1>2 DEF InsertTask
  <2>3. task' \in [Tasks -> TaskRow]  BY <2>1, <2>2 DEF TypeOK, TaskRow
  <2> QED
    BY <1>2, <2>1, <2>2, <2>3 DEF InsertTask, history, TypeOK, IsThere, Row, Referred, Logged
<1>3. CASE MoveTask(r) \/ DeleteTask(r)
  <2> DEFINE t == req[r].task
  <2>1. t \in Tasks /\ Row(t)
    BY <1>3 DEF MoveTask, DeleteTask, RequestsOK, RequestOK
  <2>2. /\ task' \in [Tasks -> TaskRow] /\ task'[t].state \in {"live", "deleted"}
        /\ task'[t].list \in Lists /\ IsThere(task'[t].list)
        /\ \A u \in Tasks : u # t => task'[u] = task[u]
    BY <1>3, <2>1
    DEF MoveTask, DeleteTask, TypeOK, TaskRow, Row, RequestsOK, RequestOK
  <2>3. UNCHANGED <<board, list, log, label, labelled, comment, failures, clashed>>
    BY <1>3 DEF MoveTask, DeleteTask, history
  <2>4. crossed' \subseteq Tasks
    BY <1>3, <2>1 DEF MoveTask, DeleteTask, history, TypeOK
  <2> QED
    BY <2>1, <2>2, <2>3, <2>4 DEF TypeOK, IsThere, Row, Referred, Logged
<1>4. CASE InsertComment(r)
  <2>1. req[r].task \in Tasks /\ Row(req[r].task)
    BY <1>4 DEF InsertComment, RequestsOK, RequestOK
  <2>2. /\ comment' = comment \cup {req[r].task}
        /\ UNCHANGED <<board, list, task, log, label, labelled, failures, clashed, crossed>>
    BY <1>4 DEF InsertComment, history
  <2> QED  BY <2>1, <2>2 DEF TypeOK, IsThere, Row, Referred, Logged
<1>5. CASE WriteLog(r)
  <2> DEFINE t == req[r].task
             b == req[r].board
  <2>1. /\ t \in Tasks /\ Row(t) /\ b \in board
        /\ log' = log \cup {<<t, b>>}
        /\ UNCHANGED <<board, list, task, label, labelled, comment, failures, clashed, crossed>>
    BY <1>5 DEF WriteLog, RequestsOK, RequestOK, history
  <2> HIDE DEF t, b
  <2>2. log' \subseteq Tasks \X Boards /\ \A x \in log' : x[2] \in board
    BY <2>1 DEF TypeOK
  <2>3. \A u \in Tasks : u # t /\ Referred(u)' => Referred(u)
    BY <2>1 DEF Referred, Logged
  <2> QED  BY <2>1, <2>2, <2>3 DEF TypeOK, IsThere, Row
<1> QED  BY <1>1, <1>2, <1>3, <1>4, <1>5

LEMMA LabelType ==
  ASSUME TypeOK, RequestsOK, NEW r \in Requests,
         Unlabel(r) \/ Unlog(r) \/ UnlabelAll(r) \/ DeleteLabel(r) \/ Attach(r) \/ Detach(r),
         req' \in [Requests -> Request]
  PROVE  TypeOK'
<1>1. CASE Unlabel(r) \/ Unlog(r) \/ UnlabelAll(r) \/ Detach(r)
  BY <1>1 DEF Unlabel, history, Unlog, UnlabelAll, Detach, TypeOK, IsThere, Row, Referred, Logged
<1>2. CASE DeleteLabel(r)
  BY <1>2 DEF DeleteLabel, history, TypeOK, IsThere, Row, Referred, Logged, RowState
<1>3. CASE Attach(r)
  <2>1. req[r].task \in Tasks /\ req[r].label \in Labels
    BY <1>3 DEF Attach, RequestsOK, RequestOK
  <2> DEFINE t == req[r].task
             g == req[r].label
  <2>2. /\ labelled' = labelled \cup {<<t, g>>} /\ Row(t) /\ label[g] = "there"
        /\ UNCHANGED <<board, list, task, log, label, comment, failures, clashed, crossed>>
    BY <1>3 DEF Attach, history
  <2> HIDE DEF t, g
  <2>3. t \in Tasks /\ g \in Labels /\ <<t, g>>[2] = g  BY <2>1 DEF t, g
  <2>4. labelled' \subseteq Tasks \X Labels  BY <2>2, <2>3 DEF TypeOK
  <2>5. \A x \in labelled' : label[x[2]] = "there"  BY <2>2, <2>3 DEF TypeOK
  <2>6. \A u \in Tasks : u # t /\ Referred(u)' => Referred(u)
    BY <2>2 DEF Referred, Logged
  <2> QED  BY <2>2, <2>3, <2>4, <2>5, <2>6 DEF TypeOK, IsThere, Row
<1> QED  BY <1>1, <1>2, <1>3

LEMMA AtOnceType == ASSUME TypeOK, AtOnce PROVE TypeOK'
<1>1. ASSUME NEW l \in Lists, NEW b \in Boards, NEW p \in Int,
             CreateList(l, p, b) \/ PatchList(l, p, b)
      PROVE  TypeOK'
  <2>1. /\ list' \in [Lists -> ListRow] /\ list'[l].state = "there"
        /\ list'[l].board = b /\ b \in board
        /\ \A k \in Lists : k # l => list'[k] = list[k]
    BY <1>1 DEF CreateList, PatchList, Put, TypeOK, ListRow, RowState
  <2>2. crossed' \subseteq Tasks /\ clashed' \subseteq Boards
    BY <1>1 DEF CreateList, PatchList, Put, TypeOK, TasksIn
  <2>3. UNCHANGED <<board, task, log, label, labelled, comment, req, failures>>
    BY <1>1 DEF CreateList, PatchList
  <2> QED  BY <2>1, <2>2, <2>3 DEF TypeOK, IsThere, Row, Referred, Logged
<1>2. ASSUME NEW g \in Labels, CreateLabel(g) PROVE TypeOK'
  BY <1>2 DEF CreateLabel, TypeOK, IsThere, Row, Referred, Logged, RowState, history
<1>3. ASSUME NEW t \in Tasks, RemoveComment(t) PROVE TypeOK'
  BY <1>3 DEF RemoveComment, TypeOK, IsThere, Row, Referred, Logged, history
<1>4. ASSUME NEW b \in Boards, RemoveBoard(b) PROVE TypeOK'
  <2> DEFINE gone == TasksOn(b)
  <2>1. \A t \in Tasks : t \in gone <=> Row(t) /\ task[t].list \in Columns(b)
    BY DEF TasksOn, TasksIn, Columns
  <2>2. /\ board' = board \ {b} /\ comment' = comment \ gone
        /\ log' = {x \in log : x[1] \notin gone /\ x[2] # b}
        /\ list' = [l \in Lists |-> IF l \in Columns(b) THEN GoneList ELSE list[l]]
        /\ task' = [t \in Tasks |-> IF t \in gone THEN GoneTask ELSE task[t]]
        /\ label' = [g \in Labels |-> IF LabelBoard[g] = b /\ label[g] = "there" THEN "gone"
                                      ELSE label[g]]
        /\ labelled' = {x \in labelled : x[1] \notin gone /\ LabelBoard[x[2]] # b}
        /\ UNCHANGED <<req, failures, clashed, crossed>>
    BY <1>4 DEF RemoveBoard, history
  <2> HIDE DEF gone
  <2>3. list' \in [Lists -> ListRow] /\ label' \in [Labels -> RowState]
    BY <2>2 DEF TypeOK, GoneList, ListRow, RowState
  <2>4. task' \in [Tasks -> TaskRow]
    BY <2>2 DEF TypeOK, GoneTask, TaskRow
  <2>5. \A l \in Lists : IsThere(l)' => IsThere(l) /\ list'[l] = list[l] /\ list[l].board # b
    BY <2>2 DEF IsThere, Columns, GoneList
  <2>6. \A t \in Tasks : IF t \in gone THEN ~ Row(t)'
                         ELSE Row(t)' = Row(t) /\ task'[t] = task[t]
    BY <2>2 DEF Row, GoneTask
  <2>7. \A t \in Tasks : Row(t)' => task[t].list \in Lists /\ IsThere(task[t].list)'
    BY <2>1, <2>2, <2>6 DEF TypeOK, IsThere, Columns
  <2>8. \A t \in Tasks : ~ Row(t)' => ~ Referred(t)' /\ t \notin comment'
    BY <2>2, <2>6 DEF TypeOK, Referred, Logged
  <2>9. \A x \in labelled' : label'[x[2]] = "there"
    BY <2>2 DEF TypeOK
  <2>10. \A l \in Lists : IsThere(l)' => list'[l].board \in board'
    BY <2>2, <2>5 DEF TypeOK
  <2>11. log' \subseteq log /\ \A x \in log' : x[2] \in board'
    BY <2>2 DEF TypeOK
  <2> QED
    BY <2>2, <2>3, <2>4, <2>6, <2>7, <2>8, <2>9, <2>10, <2>11 DEF TypeOK
<1>5. \A l \in Lists : \A p \in ClientPositions \cup {list[l].position} : p \in Int
  BY ContentsAssumption DEF TypeOK, ListRow
<1> QED  BY <1>1, <1>2, <1>3, <1>4, <1>5, ContentsAssumption DEF AtOnce

LEMMA TypeStep == TypeOK /\ RequestsOK /\ [Next]_vars => TypeOK' /\ RequestsOK'
<1> SUFFICES ASSUME TypeOK, RequestsOK, [Next]_vars PROVE TypeOK' /\ RequestsOK'
  OBVIOUS
<1>0. req \in [Requests -> Request] /\ list \in [Lists -> ListRow]  BY DEF TypeOK
<1>1. CASE AtOnce
  <2>1. UNCHANGED req
    BY <1>1 DEF AtOnce, CreateList, PatchList, CreateLabel, RemoveComment, RemoveBoard
  <2> QED  BY <1>1, <2>1, AtOnceType DEF RequestsOK, RequestOK
<1>2. ASSUME NEW r \in Requests, Accept(r) PROVE TypeOK' /\ RequestsOK'
  <2>1. PICK q \in Request : Begin(r, q) /\ RequestOK(q)
    BY <1>2, Accepted
  <2>2. req' \in [Requests -> Request] /\ RequestsOK'
    BY <1>0, <2>1, BeginReq DEF RequestsOK, RequestOK
  <2> QED  BY <2>1, <2>2 DEF Begin, TypeOK, tables, history, IsThere, Row, Referred, Logged
<1>3. ASSUME NEW r \in Requests, Advance(r) PROVE TypeOK' /\ RequestsOK'
  <2>1. req' \in [Requests -> Request] /\ RequestsOK'  BY <1>0, <1>3, Advanced
  <2>2. CASE ReadTasks(r) \/ ChangeTask(r) \/ Refuse(r)
    BY <2>1, <2>2
    DEF ReadTasks, ChangeTask, Refuse, TypeOK, tables, history, IsThere, Row, Referred, Logged
  <2> QED
    BY <1>3, <2>1, <2>2, ColumnType, TaskType, LabelType DEF Advance
<1>4. ASSUME NEW r \in Requests, Fail(r) PROVE TypeOK' /\ RequestsOK'
  <2>1. req' \in [Requests -> Request] /\ RequestsOK'
    BY <1>0, <1>4, DoneReq, IdleType DEF Fail, RequestsOK
  <2>2. failures' \in Nat  BY <1>4 DEF Fail, TypeOK
  <2> QED  BY <1>4, <2>1, <2>2 DEF Fail, TypeOK, tables, history, IsThere, Row, Referred, Logged
<1>5. CASE UNCHANGED vars
  BY <1>5 DEF vars, tables, history, TypeOK, RequestsOK, RequestOK, IsThere, Row, Referred, Logged
<1> QED  BY <1>1, <1>2, <1>3, <1>4, <1>5 DEF Next

(***************************************************************************)
(* No order of requests and no failure leaves a row that refers to one     *)
(* that is gone: what every foreign key of the tables asks for.            *)
(***************************************************************************)
THEOREM TypeCorrect == Spec => []TypeOK
<1> DEFINE Inv == TypeOK /\ RequestsOK
<1>1. Init => Inv  BY TypeInit
<1>2. Inv /\ [Next]_vars => Inv'  BY TypeStep
<1>3. Inv => TypeOK  OBVIOUS
<1> HIDE DEF Inv
<1> QED  BY <1>1, <1>2, <1>3, PTL DEF Spec

-----------------------------------------------------------------------------
(* Requests apart *)

Exclusive ==
  \A r, s \in Requests :
    r # s /\ InFlight(r) /\ InFlight(s)
      => /\ ListsOf(req[r]) \cap ListsOf(req[s]) = {}
         /\ req[r].label # req[s].label \/ req[r].label = None

\* nobody is about a task that has yet to be created
Known ==
  \A r \in Requests : InFlight(r) =>
    /\ req[r].task # None => task[req[r].task].state # "absent"
    /\ \A t \in req[r].ids : task[t].state # "absent"

\* what the removal of a column has cleared so far is all there is to clear
ColumnCleared(q) ==
  /\ q.pc \in {"unlabel", "unlog", "deleteTasks"} =>
       /\ TasksIn(q.list) \subseteq q.ids
       /\ \A t \in q.ids : Row(t) => task[t].list = q.list
  /\ q.pc \in {"unlog", "deleteTasks"} =>
       \A t \in TasksIn(q.list), g \in Labels : <<t, g>> \notin labelled
  /\ q.pc = "deleteTasks" => \A t \in TasksIn(q.list) : ~ Logged(t)
  /\ q.pc = "deleteList" => TasksIn(q.list) = {}
  /\ q.pc = "deleteLabel" => \A x \in labelled : x[2] # q.label

Cleared == \A r \in Requests : ColumnCleared(req[r])

ApartInv == Exclusive /\ Known /\ Cleared

(***************************************************************************)
(* What a handler's step does to the tables, seen from outside of what its *)
(* request is about: no task comes into another column, and a task that    *)
(* stays there gets neither a log nor a label.                             *)
(***************************************************************************)
Outside(q) ==
  /\ \A t \in Tasks :
       /\ task[t].state # "absent" =>
            /\ task'[t].state # "absent"
            /\ Row(t)' => Row(t)
            /\ task'[t].list \in {task[t].list, None} \/ task[t].list \in ListsOf(q)
       /\ task'[t].list \in {task[t].list, None} \/ task'[t].list \in ListsOf(q)
       /\ Row(t)' /\ task'[t].list \notin ListsOf(q) =>
            /\ Row(t) /\ task'[t].list = task[t].list
            /\ Logged(t)' => Logged(t)
            /\ \A g \in Labels : <<t, g>> \in labelled' => <<t, g>> \in labelled
       /\ Row(t) /\ Row(t)' /\ task[t].list \notin ListsOf(q) => task'[t].list = task[t].list
  /\ \A x \in labelled' : x \in labelled \/ x[2] = q.label

LEMMA StepOutside ==
  ASSUME TypeOK, RequestsOK, NEW r \in Requests, Advance(r)
  PROVE  Outside(req[r])
<1> DEFINE q == req[r]
<1> USE ContentsAssumption DEF Outside, ListsOf, Logged
<1>1. CASE \/ ShiftColumns(r) \/ SetColumn(r) \/ ReadTasks(r) \/ ChangeTask(r)
           \/ DeleteLabel(r) \/ InsertComment(r) \/ Refuse(r) \/ DeleteList(r)
  <2>1. UNCHANGED <<task, log, labelled>>
    BY <1>1 DEF ShiftColumns, SetColumn, ReadTasks, ChangeTask, DeleteLabel,
                InsertComment, Refuse, DeleteList, tables
  <2> QED  BY <2>1 DEF Row
<1>2. CASE Unlabel(r) \/ Unlog(r) \/ UnlabelAll(r) \/ Detach(r)
  <2>1. UNCHANGED task /\ log' \subseteq log /\ labelled' \subseteq labelled
    BY <1>2 DEF Unlabel, Unlog, UnlabelAll, Detach
  <2> QED  BY <2>1 DEF Row
<1>3. CASE DeleteTasks(r)
  <2>1. /\ UNCHANGED <<log, labelled>>
        /\ \A t \in Tasks : task'[t] = GoneTask \/ task'[t] = task[t]
    BY <1>3 DEF DeleteTasks
  <2> QED  BY <2>1 DEF Row, GoneTask
<1>4. CASE InsertTask(r)
  <2>1. PICK t \in Tasks :
          /\ task[t].state = "absent"
          /\ task' = [task EXCEPT ![t] = [state |-> "live", list |-> req[r].list]]
    BY <1>4 DEF InsertTask
  <2>2. q.list \in ListsOf(q)  BY <1>4 DEF InsertTask, RequestsOK, RequestOK
  <2>3. UNCHANGED <<log, labelled>>  BY <1>4 DEF InsertTask
  <2>4. task'[t].list = q.list /\ \A u \in Tasks : u # t => task'[u] = task[u]
    BY <2>1 DEF TypeOK
  <2> HIDE DEF ListsOf
  <2> QED  BY <2>1, <2>2, <2>3, <2>4 DEF Row
<1>5. CASE MoveTask(r) \/ DeleteTask(r) \/ WriteLog(r) \/ Attach(r)
  <2> DEFINE t == q.task
  <2>1. /\ t \in Tasks /\ Row(t)
        /\ MoveTask(r) => q.list \in Lists
        /\ Attach(r) => q.label \in Labels
    BY <1>5 DEF MoveTask, DeleteTask, WriteLog, Attach, RequestsOK, RequestOK
  <2>2. task[t].list \in ListsOf(q) /\ (MoveTask(r) => q.list \in ListsOf(q))
    BY <2>1 DEF TypeOK
  <2>3. \A u \in Tasks : u # t => task'[u] = task[u]
    BY <1>5, <2>1 DEF MoveTask, DeleteTask, WriteLog, Attach, TypeOK
  <2>4. task'[t].state \in {task[t].state, "deleted"} /\ task'[t].list \in ListsOf(q)
    BY <1>5, <2>1, <2>2 DEF MoveTask, DeleteTask, WriteLog, Attach, TypeOK, TaskRow
  <2>5. log' \subseteq log \cup {<<t, q.board>>} /\ labelled' \subseteq labelled \cup {<<t, q.label>>}
    BY <1>5 DEF MoveTask, DeleteTask, WriteLog, Attach
  <2> HIDE DEF q, t, ListsOf
  <2>6. \A x \in labelled' : x \in labelled \/ x[2] = q.label
    BY <2>5
  <2>7. \A u \in Tasks, g \in Labels :
          u # t /\ <<u, g>> \in labelled' => <<u, g>> \in labelled
    BY <2>5
  <2>8. Row(t) /\ task[t].state # "absent" /\ task'[t].state # "absent"
    BY <2>1, <2>4 DEF Row
  <2> QED  BY <2>1, <2>2, <2>3, <2>4, <2>5, <2>6, <2>7, <2>8 DEF Row, q
<1> QED  BY <1>1, <1>2, <1>3, <1>4, <1>5 DEF Advance

LEMMA AtOnceOutside ==
  ASSUME TypeOK, AtOnce
  PROVE  Outside(Idle) /\ UNCHANGED req
<1> USE ContentsAssumption DEF Outside, ListsOf, Logged
<1>1. ASSUME NEW l, NEW p, NEW b, CreateList(l, p, b) \/ PatchList(l, p, b)
      PROVE  Outside(Idle) /\ UNCHANGED req
  BY <1>1 DEF CreateList, PatchList, Row
<1>2. ASSUME NEW g \in Labels, CreateLabel(g) PROVE Outside(Idle) /\ UNCHANGED req
  BY <1>2 DEF CreateLabel, Row
<1>3. ASSUME NEW t \in Tasks, RemoveComment(t) PROVE Outside(Idle) /\ UNCHANGED req
  BY <1>3 DEF RemoveComment, Row
<1>4. ASSUME NEW b \in Boards, RemoveBoard(b) PROVE Outside(Idle) /\ UNCHANGED req
  <2>1. /\ UNCHANGED req /\ log' \subseteq log /\ labelled' \subseteq labelled
        /\ \A t \in Tasks : task'[t] = GoneTask \/ task'[t] = task[t]
    BY <1>4 DEF RemoveBoard
  <2> QED  BY <2>1 DEF Row, GoneTask
<1> QED  BY <1>1, <1>2, <1>3, <1>4 DEF AtOnce

\* a handler whose request is apart from q keeps what it has cleared
LEMMA KeepsCleared ==
  ASSUME TypeOK, NEW r \in Requests, InFlight(r), RequestOK(req[r]), UNCHANGED req[r],
         NEW q, Outside(q),
         ListsOf(req[r]) \cap ListsOf(q) = {}, req[r].label # q.label \/ req[r].label = None,
         task' \in [Tasks -> TaskRow], labelled' \subseteq Tasks \X Labels,
         ColumnCleared(req[r]), \A t \in req[r].ids : task[t].state # "absent"
  PROVE  ColumnCleared(req[r])'
<1> DEFINE l == req[r].list
<1>1. l \in Lists => l \notin ListsOf(q)
  BY ContentsAssumption DEF ListsOf
<1>2. l \in Lists =>
        \A t \in TasksIn(l)' :
          /\ t \in TasksIn(l)
          /\ Logged(t)' => Logged(t)
          /\ \A g \in Labels : <<t, g>> \in labelled' => <<t, g>> \in labelled
  BY <1>1 DEF TasksIn, Outside
<1>3. req[r].label \in Labels => \A x \in labelled' : x[2] = req[r].label => x \in labelled
  BY ContentsAssumption DEF Outside
<1>4. l \in Lists =>
        \A t \in Tasks : Row(t)' /\ task[t].state # "absent" /\ (Row(t) => task[t].list = l)
                            => task'[t].list = l
  BY <1>1 DEF Outside
<1>5. req[r].ids \subseteq Tasks  BY DEF TypeOK, Request
<1>6. ASSUME l \in Lists,
             /\ req[r].pc \in {"unlabel", "unlog", "deleteTasks"} =>
                  /\ TasksIn(l) \subseteq req[r].ids
                  /\ \A t \in req[r].ids : Row(t) => task[t].list = l
             /\ req[r].pc \in {"unlog", "deleteTasks"} =>
                  \A t \in TasksIn(l), g \in Labels : <<t, g>> \notin labelled
             /\ req[r].pc = "deleteTasks" => \A t \in TasksIn(l) : ~ Logged(t)
             /\ req[r].pc = "deleteList" => TasksIn(l) = {}
      PROVE  /\ req[r].pc \in {"unlabel", "unlog", "deleteTasks"} =>
                  /\ TasksIn(l)' \subseteq req[r].ids
                  /\ \A t \in req[r].ids : Row(t)' => task'[t].list = l
             /\ req[r].pc \in {"unlog", "deleteTasks"} =>
                  \A t \in TasksIn(l)', g \in Labels : <<t, g>> \notin labelled'
             /\ req[r].pc = "deleteTasks" => \A t \in TasksIn(l)' : ~ Logged(t)'
             /\ req[r].pc = "deleteList" => TasksIn(l)' = {}
  BY <1>2, <1>4, <1>5, <1>6
<1>7. req[r].pc = "deleteLabel" => \A x \in labelled' : x[2] # req[r].label
  BY <1>3 DEF ColumnCleared, RequestOK
<1>8. req[r].pc \notin {"unlabel", "unlog", "deleteTasks", "deleteList"} \/ l \in Lists
  BY DEF RequestOK
<1> QED  BY <1>6, <1>7, <1>8 DEF ColumnCleared

(***************************************************************************)
(* No request in flight comes to be about more than when it began.         *)
(***************************************************************************)
Narrows ==
  \A s \in Requests : InFlight(s)' =>
    /\ InFlight(s)
    /\ ListsOf(req[s])' \subseteq ListsOf(req[s])
    /\ req'[s].label \in {req[s].label, None}

LEMMA ExclusiveKept == ASSUME Exclusive, Narrows PROVE Exclusive'
BY DEF Exclusive, Narrows, InFlight

LEMMA OthersNarrow ==
  ASSUME TypeOK, Known, NEW s \in Requests, InFlight(s), UNCHANGED req[s],
         NEW q, Outside(q), ListsOf(req[s]) \cap ListsOf(q) = {}
  PROVE  ListsOf(req[s])' \subseteq ListsOf(req[s])
<1> DEFINE t == req[s].task
<1>1. t # None => t \in Tasks /\ task[t].state # "absent"
  BY DEF TypeOK, Request, Known
<1>2. t # None => task[t].list \in ListsOf(req[s]) \/ task[t].list = None
  BY DEF ListsOf
<1>3. t # None => task'[t].list \in {task[t].list, None}
  BY <1>1, <1>2 DEF Outside, ListsOf
<1> QED  BY <1>3 DEF ListsOf

LEMMA AdvanceNarrows ==
  ASSUME TypeOK, RequestsOK, Exclusive, Known, NEW r \in Requests, Advance(r)
  PROVE  Narrows /\ Known'
<1> DEFINE q == req[r]
<1>0. req \in [Requests -> Request] /\ q \in Request  BY DEF TypeOK
<1>1. /\ InFlight(r) /\ Outside(q)
      /\ \A s \in Requests \ {r} : req'[s] = req[s]
  BY <1>0, Advanced, StepOutside
<1>2. \A s \in Requests \ {r} : InFlight(s) => ListsOf(req[s])' \subseteq ListsOf(req[s])
  BY <1>1, OthersNarrow DEF Exclusive
<1>3. \A t \in Tasks : task[t].state # "absent" => task'[t].state # "absent"
  BY <1>1 DEF Outside
<1>4. \A s \in Requests \ {r} : InFlight(s) =>
        /\ req[s].task # None => task'[req[s].task].state # "absent"
        /\ \A t \in req[s].ids : task'[t].state # "absent"
  BY <1>3 DEF TypeOK, Request, Known
<1>5. /\ InFlight(r)' => ListsOf(q)' \subseteq ListsOf(q) /\ req'[r].label \in {q.label, None}
      /\ InFlight(r)' =>
           /\ req'[r].task # None => task'[req'[r].task].state # "absent"
           /\ \A t \in req'[r].ids : task'[t].state # "absent"
  <2>1. CASE req'[r] = Idle  BY <2>1 DEF InFlight, Idle
  <2>2. CASE /\ req'[r].list = q.list /\ req'[r].task = q.task /\ req'[r].label = q.label
             /\ \A t \in req'[r].ids : t \in Tasks /\ task[t].state # "absent"
    <3>1. q.task # None => q.task \in Tasks /\ task[q.task].state # "absent"
      BY <1>0, <1>1 DEF Known, Request
    <3>2. q.task # None => task[q.task].list \in ListsOf(q) \/ task[q.task].list = None
      BY DEF ListsOf
    <3>3. q.task # None => task'[q.task].list \in ListsOf(q) \/ task'[q.task].list = None
      BY <1>1, <3>1, <3>2 DEF Outside
    <3> QED  BY <1>3, <2>2, <3>1, <3>3 DEF ListsOf
  <2>3. CASE \E t \in Tasks :
               /\ ThenLog(r, t) /\ task'[t].state # "absent"
               /\ task'[t].list \in ListsOf(q) \/ task'[t].list = None
    BY <1>0, <2>3, LogReq DEF ListsOf
  <2>4. CASE \/ SetColumn(r) \/ DeleteList(r) \/ WriteLog(r) \/ DeleteLabel(r)
             \/ Attach(r) \/ Detach(r) \/ InsertComment(r) \/ Refuse(r)
    BY <1>0, <2>1, <2>4, DoneReq
    DEF SetColumn, DeleteList, WriteLog, DeleteLabel, Attach, Detach, InsertComment, Refuse
  <2>5. CASE ShiftColumns(r) \/ Unlabel(r) \/ Unlog(r) \/ DeleteTasks(r) \/ UnlabelAll(r)
    <3>1. PICK pc \in {"unlog", "deleteTasks", "deleteList", "set", "deleteLabel"} :
            Then(r, pc)
      BY <2>5 DEF ShiftColumns, Unlabel, Unlog, DeleteTasks, UnlabelAll
    <3>2. \A t \in q.ids : t \in Tasks /\ task[t].state # "absent"
      BY <1>0, <1>1 DEF Known, Request
    <3> QED  BY <1>0, <2>2, <3>1, <3>2, ThenReq
  <2>6. CASE ReadTasks(r)
    BY <1>0, <2>2, <2>6, ReadReq DEF TasksIn, Row, Logged
  <2>7. CASE InsertTask(r)
    <3>1. PICK t \in Tasks :
            /\ task' = [task EXCEPT ![t] = [state |-> "live", list |-> q.list]]
            /\ ThenLog(r, t)
      BY <2>7 DEF InsertTask
    <3>2. q.list \in ListsOf(q)
      BY <2>7, ContentsAssumption DEF InsertTask, RequestsOK, RequestOK, ListsOf
    <3> QED  BY <2>3, <3>1, <3>2 DEF TypeOK
  <2>8. CASE ChangeTask(r) \/ MoveTask(r) \/ DeleteTask(r)
    <3>1. q.task \in Tasks /\ ThenLog(r, q.task) /\ Row(q.task)
      BY <2>8 DEF ChangeTask, MoveTask, DeleteTask, RequestsOK, RequestOK
    <3>2. task[q.task].list \in ListsOf(q)
      BY <3>1, ContentsAssumption DEF TypeOK, ListsOf
    <3>3. task'[q.task].state # "absent"
      BY <1>3, <3>1 DEF Row
    <3>4. task'[q.task].list \in ListsOf(q) \/ task'[q.task].list = None
      BY <1>1, <3>1, <3>2 DEF Outside
    <3> QED  BY <2>3, <3>1, <3>3, <3>4
  <2> QED  BY <2>4, <2>5, <2>6, <2>7, <2>8 DEF Advance
<1> QED  BY <1>1, <1>2, <1>4, <1>5 DEF Narrows, Known, InFlight

\* what the removal itself does next
LEMMA Clears ==
  ASSUME TypeOK, RequestsOK, Cleared, NEW r \in Requests, Advance(r)
  PROVE  ColumnCleared(req[r])'
<1> USE DEF ColumnCleared
<1>0. req \in [Requests -> Request] /\ ColumnCleared(req[r])  BY DEF TypeOK, Cleared
<1>1. CASE req'[r].pc \in {"idle", "log", "set"}  BY <1>1
<1>2. CASE \/ SetColumn(r) \/ DeleteList(r) \/ WriteLog(r) \/ DeleteLabel(r)
           \/ Attach(r) \/ Detach(r) \/ InsertComment(r) \/ Refuse(r)
  <2>1. Done(r)
    BY <1>2 DEF SetColumn, DeleteList, WriteLog, DeleteLabel, Attach, Detach,
                InsertComment, Refuse
  <2> QED  BY <1>0, <1>1, <2>1, DoneReq, IdleType
<1>3. CASE InsertTask(r) \/ ChangeTask(r) \/ MoveTask(r) \/ DeleteTask(r)
  <2>1. PICK t \in Tasks : ThenLog(r, t)
    BY <1>3 DEF InsertTask, ChangeTask, MoveTask, DeleteTask, RequestsOK, RequestOK
  <2> QED  BY <1>0, <1>1, <2>1, LogReq
<1>4. CASE ShiftColumns(r)  BY <1>0, <1>1, <1>4, ThenReq DEF ShiftColumns
<1>5. CASE ReadTasks(r)
  <2>1. UNCHANGED tables  BY <1>5 DEF ReadTasks
  <2> QED  BY <1>0, <1>5, <2>1, ReadReq DEF tables, TasksIn, Row, Logged
<1>6. CASE Unlabel(r)
  <2>1. /\ UNCHANGED <<task, log>> /\ req[r].pc = "unlabel"
        /\ labelled' = {x \in labelled : x[1] \notin req[r].ids}
        /\ req'[r].pc = "unlog" /\ req'[r].list = req[r].list /\ req'[r].ids = req[r].ids
    BY <1>0, <1>6, ThenReq DEF Unlabel
  <2> QED  BY <1>0, <2>1 DEF TasksIn, Row, Logged
<1>7. CASE Unlog(r)
  <2>1. /\ UNCHANGED <<task, labelled>> /\ req[r].pc = "unlog"
        /\ log' = {x \in log : x[1] \notin req[r].ids}
        /\ req'[r].pc = "deleteTasks"
        /\ req'[r].list = req[r].list /\ req'[r].ids = req[r].ids
    BY <1>0, <1>7, ThenReq DEF Unlog
  <2> QED  BY <1>0, <2>1 DEF TasksIn, Row, Logged
<1>8. CASE DeleteTasks(r)
  <2>1. req'[r].pc = "deleteList" /\ req'[r].list = req[r].list
    BY <1>0, <1>8, ThenReq DEF DeleteTasks
  <2>2. TasksIn(req[r].list)' = {}
    BY <1>8, <2>1 DEF DeleteTasks, TasksIn, Row, GoneTask
  <2> QED  BY <2>1, <2>2
<1>9. CASE UnlabelAll(r)
  BY <1>0, <1>9, ThenReq DEF UnlabelAll
<1> QED  BY <1>2, <1>3, <1>4, <1>5, <1>6, <1>7, <1>8, <1>9 DEF Advance

LEMMA ApartStep ==
  ASSUME Isolation = "apart", TypeOK, RequestsOK, ApartInv, [Next]_vars
  PROVE  ApartInv'
<1> USE DEF ApartInv
<1>0. /\ req \in [Requests -> Request] /\ list \in [Lists -> ListRow]
      /\ TypeOK' /\ RequestsOK'
  BY TypeStep DEF TypeOK
<1>1. ASSUME NEW r \in Requests, UNCHANGED <<task, log, labelled>>, req'[r] = req[r]
      PROVE  /\ ListsOf(req[r])' = ListsOf(req[r])
             /\ ColumnCleared(req[r])'
             /\ InFlight(r) =>
                  /\ req[r].task # None => task'[req[r].task].state # "absent"
                  /\ \A t \in req[r].ids : task'[t].state # "absent"
  BY <1>1 DEF ListsOf, Cleared, ColumnCleared, Known, TasksIn, Row, Logged
<1>2. CASE AtOnce
  <2>1. Outside(Idle) /\ UNCHANGED req  BY <1>2, AtOnceOutside
  <2>2. ListsOf(Idle) = {} /\ Idle.label = None  BY DEF ListsOf, Idle
  <2>3. Narrows  BY <2>1, <2>2, OthersNarrow DEF Narrows, InFlight
  <2>4. Known'
    BY <2>1 DEF Outside, Known, InFlight, TypeOK, Request
  <2>5. \A r \in Requests : InFlight(r) => ColumnCleared(req[r])'
    BY <1>0, <2>1, <2>2, KeepsCleared DEF Cleared, Known, RequestsOK, TypeOK
  <2>6. \A r \in Requests : ~ InFlight(r) => ColumnCleared(req[r])'
    BY <2>1 DEF InFlight, ColumnCleared
  <2> QED  BY <2>3, <2>4, <2>5, <2>6, ExclusiveKept DEF Cleared
<1>3. ASSUME NEW r \in Requests, Accept(r) PROVE ApartInv'
  <2>1. PICK q \in Request :
          /\ Begin(r, q)
          /\ q.pc \notin {"unlabel", "unlog", "deleteTasks", "deleteList", "deleteLabel"}
          /\ q.task # None => task[q.task].state # "absent"
          /\ q.ids = {}
    BY <1>3, Accepted
  <2>2. /\ UNCHANGED <<task, log, labelled>> /\ req'[r] = q /\ ~ InFlight(r)
        /\ \A s \in Requests \ {r} : req'[s] = req[s]
    BY <1>0, <2>1, BeginReq DEF Begin, tables
  <2>3. \A s \in Requests : InFlight(s) =>
          ListsOf(req[s]) \cap ListsOf(q) = {} /\ (req[s].label # q.label \/ q.label = None)
    BY <2>1 DEF Begin, Apart, Free
  <2>4. ListsOf(q)' = ListsOf(q)  BY <2>2 DEF ListsOf
  <2>5. Exclusive'  BY <1>1, <2>2, <2>3, <2>4 DEF Exclusive, InFlight
  <2>6. Known'  BY <1>1, <2>1, <2>2 DEF Known, InFlight
  <2>7. ColumnCleared(req[r])'  BY <2>1, <2>2 DEF ColumnCleared
  <2> QED  BY <1>1, <2>2, <2>5, <2>6, <2>7 DEF Cleared
<1>4. ASSUME NEW r \in Requests, Advance(r) PROVE ApartInv'
  <2>1. Narrows /\ Known'  BY <1>4, AdvanceNarrows
  <2>2. /\ InFlight(r) /\ Outside(req[r])
        /\ \A s \in Requests \ {r} : req'[s] = req[s]
    BY <1>0, <1>4, Advanced, StepOutside
  <2>3. \A s \in Requests \ {r} : InFlight(s) => ColumnCleared(req[s])'
    BY <1>0, <2>2, KeepsCleared DEF Cleared, Known, RequestsOK, Exclusive, TypeOK
  <2>4. \A s \in Requests \ {r} : ~ InFlight(s) => ColumnCleared(req[s])'
    BY <2>2 DEF InFlight, ColumnCleared
  <2>5. ColumnCleared(req[r])'  BY <1>4, Clears
  <2> QED  BY <2>1, <2>3, <2>4, <2>5, ExclusiveKept DEF Cleared
<1>5. ASSUME NEW r \in Requests, Fail(r) PROVE ApartInv'
  <2>1. /\ UNCHANGED <<task, log, labelled>> /\ req'[r] = Idle
        /\ \A s \in Requests \ {r} : req'[s] = req[s]
    BY <1>0, <1>5, DoneReq DEF Fail, tables
  <2>2. ~ InFlight(r)' /\ ColumnCleared(req[r])'
    BY <2>1, IdleType DEF InFlight, ColumnCleared
  <2> QED  BY <1>1, <2>1, <2>2 DEF Exclusive, Known, Cleared, InFlight
<1>6. CASE UNCHANGED vars
  BY <1>1, <1>6 DEF vars, tables, Exclusive, Known, Cleared, InFlight
<1> QED  BY <1>2, <1>3, <1>4, <1>5, <1>6 DEF Next

LEMMA ApartInit == Init => ApartInv
BY IdleType DEF Init, ApartInv, Exclusive, Known, Cleared, ColumnCleared, InFlight

(***************************************************************************)
(* As long as requests are about different columns, tasks and labels, the  *)
(* removal of a column or of a label never meets a foreign key, whatever   *)
(* other handlers do and however many were cut off.                        *)
(***************************************************************************)
THEOREM RemovalSucceeds ==
  ASSUME Isolation = "apart"
  PROVE  Spec => []RemovalNeverBlocked
<1> DEFINE Inv == TypeOK /\ RequestsOK /\ ApartInv
<1>1. Init => Inv  BY TypeInit, ApartInit
<1>2. Inv /\ [Next]_vars => Inv'  BY TypeStep, ApartStep
<1>3. Inv => RemovalNeverBlocked
  BY DEF ApartInv, Cleared, ColumnCleared, RemovalNeverBlocked, Referred
<1> HIDE DEF Inv
<1> QED  BY <1>1, <1>2, <1>3, PTL DEF Spec

-----------------------------------------------------------------------------
(* The log of a task *)

(***************************************************************************)
(* As long as a task stays on its board, all that is known of the board it *)
(* is on - the rows of its log, the handlers about it - names that board.  *)
(***************************************************************************)
Names(q, t) == q.task = t /\ q.pc \in {"change", "move", "delete", "log"}

LogBoards ==
  \A t \in Tasks : t \notin crossed /\ Row(t) =>
    /\ \A b \in Boards : <<t, b>> \in log => b = BoardOfTask(t)
    /\ \A r \in Requests : Names(req[r], t) => req[r].board = BoardOfTask(t)

\* what has crossed stays so, and no board comes back
LEMMA Lasting ==
  ASSUME TypeOK, [Next]_vars
  PROVE  crossed \subseteq crossed' /\ board' \subseteq board
<1> USE DEF history, tables
<1>1. CASE AtOnce
  BY <1>1 DEF AtOnce, CreateList, PatchList, CreateLabel, RemoveComment, RemoveBoard
<1>2. ASSUME NEW r \in Requests, Advance(r)
      PROVE  crossed \subseteq crossed' /\ board' \subseteq board
  BY <1>2
  DEF Advance, ShiftColumns, SetColumn, ReadTasks, Unlabel, Unlog, DeleteTasks,
      DeleteList, InsertTask, ChangeTask, MoveTask, DeleteTask, WriteLog, UnlabelAll,
      DeleteLabel, Attach, Detach, InsertComment, Refuse
<1>3. ASSUME NEW r \in Requests, Accept(r)
      PROVE  crossed \subseteq crossed' /\ board' \subseteq board
  <2>1. PICK q \in Request : Begin(r, q)  BY <1>3, Accepted
  <2> QED  BY <2>1 DEF Begin
<1>4. ASSUME NEW r \in Requests, Fail(r)
      PROVE  crossed \subseteq crossed' /\ board' \subseteq board
  BY <1>4 DEF Fail
<1>5. CASE UNCHANGED vars  BY <1>5 DEF vars
<1> QED  BY <1>1, <1>2, <1>3, <1>4, <1>5 DEF Next

LEMMA LogBoardsStep ==
  ASSUME TypeOK, RequestsOK, ApartInv, LogBoards, [Next]_vars, TypeOK'
  PROVE  LogBoards'
<1> SUFFICES ASSUME NEW t \in Tasks, t \notin crossed', Row(t)'
             PROVE  /\ \A b \in Boards : <<t, b>> \in log' => b = BoardOfTask(t)'
                    /\ \A r \in Requests : Names(req'[r], t) => req'[r].board = BoardOfTask(t)'
  BY DEF LogBoards
<1> DEFINE Goal == /\ \A b \in Boards : <<t, b>> \in log' => b = BoardOfTask(t)'
                   /\ \A r \in Requests : Names(req'[r], t)
                                           => req'[r].board = BoardOfTask(t)'
           Same(s) == req'[s] = req[s] \/ ~ Names(req'[s], t)
                      \/ req'[s].board = BoardOfTask(t)
<1>0. req \in [Requests -> Request] /\ list \in [Lists -> ListRow] /\ t \notin crossed
  BY Lasting DEF TypeOK
<1>1. ASSUME Row(t), BoardOfTask(t)' = BoardOfTask(t),
             \A b \in Boards : <<t, b>> \in log' => <<t, b>> \in log \/ b = BoardOfTask(t),
             \A s \in Requests : Same(s)
      PROVE  Goal
  BY <1>0, <1>1 DEF LogBoards
<1>2. ASSUME UNCHANGED <<task, list, log>>, \A s \in Requests : Same(s)
      PROVE  Goal
  BY <1>1, <1>2 DEF Row, BoardOfTask
<1>3. Row(t) => task[t].list \in Lists /\ IsThere(task[t].list)
  BY DEF TypeOK
<1>4. CASE AtOnce
  <2>1. ASSUME NEW l \in Lists, NEW p, NEW b \in Boards,
               CreateList(l, p, b) \/ PatchList(l, p, b)
        PROVE  Goal
    <3>1. UNCHANGED <<task, log, req>> /\ Row(t)
      BY <2>1 DEF CreateList, PatchList, Row
    <3>2. list' = [list EXCEPT ![l] = [state |-> "there", position |-> p, board |-> b]]
      BY <2>1 DEF CreateList, PatchList, Put
    <3>3. task[t].list = l => list[l].board = b
      BY <1>0, <1>3, <2>1, <3>1 DEF CreateList, PatchList, IsThere, TasksIn
    <3>4. BoardOfTask(t)' = BoardOfTask(t)
      BY <1>0, <1>3, <3>1, <3>2, <3>3 DEF BoardOfTask
    <3> QED  BY <1>1, <3>1, <3>4
  <2>2. ASSUME NEW b \in Boards, RemoveBoard(b) PROVE Goal
    <3> DEFINE gone == TasksOn(b)
    <3>1. /\ task'[t] = IF t \in gone THEN GoneTask ELSE task[t]
          /\ log' \subseteq log /\ UNCHANGED req
          /\ list' = [l \in Lists |-> IF l \in Columns(b) THEN GoneList ELSE list[l]]
      BY <2>2 DEF RemoveBoard
    <3>2. t \notin gone /\ Row(t) /\ task'[t] = task[t]
      BY <3>1 DEF Row, GoneTask
    <3>3. task[t].list \notin Columns(b)
      BY <3>2 DEF TasksOn, TasksIn
    <3>4. BoardOfTask(t)' = BoardOfTask(t)
      BY <1>3, <3>1, <3>2, <3>3 DEF BoardOfTask
    <3> QED  BY <1>1, <3>1, <3>2, <3>4
  <2> QED  BY <1>2, <1>4, <2>1, <2>2 DEF AtOnce, CreateLabel, RemoveComment
<1>5. ASSUME NEW r \in Requests, Accept(r) PROVE Goal
  <2>1. PICK q \in Request :
          /\ Begin(r, q) /\ q.pc # "log"
          /\ q.pc \in {"change", "move", "delete"} => q.board = BoardOfTask(q.task)
    BY <1>5, Accepted
  <2>2. /\ UNCHANGED <<task, list, log>> /\ req'[r] = q
        /\ \A s \in Requests \ {r} : req'[s] = req[s]
    BY <1>0, <2>1, BeginReq DEF Begin, tables
  <2> QED  BY <1>2, <2>1, <2>2 DEF Names
<1>6. ASSUME NEW r \in Requests, Advance(r) PROVE Goal
  <2>0. \A s \in Requests \ {r} : req'[s] = req[s]  BY <1>0, <1>6, Advanced
  <2>1. CASE \/ WriteLog(r) \/ Refuse(r) \/ DeleteLabel(r) \/ Attach(r) \/ Detach(r)
             \/ InsertComment(r) \/ Unlabel(r) \/ UnlabelAll(r) \/ ReadTasks(r)
             \/ Unlog(r)
    <3>1. ~ Names(req'[r], t)
      <4>1. CASE ReadTasks(r)  BY <1>0, <4>1, ReadReq DEF Names
      <4>2. CASE Unlabel(r) \/ UnlabelAll(r) \/ Unlog(r)
        <5>1. PICK pc \in {"unlog", "deleteLabel", "deleteTasks"} : Then(r, pc)
          BY <4>2 DEF Unlabel, UnlabelAll, Unlog
        <5> QED  BY <1>0, <5>1, ThenReq DEF Names
      <4>3. CASE Done(r)  BY <1>0, <4>3, DoneReq, IdleType DEF Names
      <4> QED
        BY <2>1, <4>1, <4>2, <4>3
        DEF WriteLog, Refuse, DeleteLabel, Attach, Detach, InsertComment
    <3>2. UNCHANGED <<task, list>> /\ Row(t)
      BY <2>1 DEF WriteLog, Refuse, DeleteLabel, Attach, Detach, InsertComment, Unlabel,
                  UnlabelAll, ReadTasks, Unlog, tables, Row
    <3>3. \A b \in Boards : <<t, b>> \in log' => <<t, b>> \in log \/ b = BoardOfTask(t)
      <4>1. CASE WriteLog(r)
        <5>1. log' = log \cup {<<req[r].task, req[r].board>>} /\ req[r].pc = "log"
          BY <4>1 DEF WriteLog
        <5>2. req[r].task = t => req[r].board = BoardOfTask(t)
          BY <1>0, <3>2, <5>1 DEF LogBoards, Names
        <5> QED  BY <5>1, <5>2
      <4>2. CASE log' \subseteq log  BY <4>2
      <4> QED
        BY <2>1, <4>1, <4>2 DEF Refuse, DeleteLabel, Attach, Detach, InsertComment, Unlabel,
                                UnlabelAll, ReadTasks, Unlog, tables
    <3> QED  BY <1>1, <2>0, <3>1, <3>2, <3>3 DEF BoardOfTask
  <2>2. CASE ShiftColumns(r) \/ SetColumn(r) \/ DeleteList(r) \/ DeleteTasks(r)
    <3>1. ~ Names(req'[r], t)
      <4>1. CASE ShiftColumns(r) \/ DeleteTasks(r)
        <5>1. PICK pc \in {"set", "deleteList"} : Then(r, pc)
          BY <4>1 DEF ShiftColumns, DeleteTasks
        <5> QED  BY <1>0, <5>1, ThenReq DEF Names
      <4>2. CASE Done(r)  BY <1>0, <4>2, DoneReq, IdleType DEF Names
      <4> QED  BY <2>2, <4>1, <4>2 DEF SetColumn, DeleteList
    <3>2. task'[t] = task[t] /\ UNCHANGED log /\ Row(t)
      BY <2>2 DEF ShiftColumns, SetColumn, DeleteList, DeleteTasks, Row, GoneTask
    <3>3. list'[task[t].list].board = list[task[t].list].board
      <4>1. CASE ShiftColumns(r) \/ SetColumn(r)
        BY <1>0, <1>3, <3>2, <4>1 DEF ShiftColumns, SetColumn, ListRow
      <4>2. CASE DeleteList(r)
        BY <1>0, <3>2, <4>2 DEF DeleteList, TasksIn
      <4>3. CASE DeleteTasks(r)  BY <4>3 DEF DeleteTasks
      <4> QED  BY <2>2, <4>1, <4>2, <4>3
    <3> QED  BY <1>1, <2>0, <3>1, <3>2, <3>3 DEF BoardOfTask
  <2>3. CASE InsertTask(r)
    <3>1. PICK u \in Tasks :
            /\ task[u].state = "absent"
            /\ task' = [task EXCEPT ![u] = [state |-> "live", list |-> req[r].list]]
            /\ ThenLog(r, u)
            /\ crossed' = IF list[req[r].list].board = req[r].board THEN crossed
                          ELSE crossed \cup {u}
      BY <2>3 DEF InsertTask
    <3>2. UNCHANGED <<list, log>>  BY <2>3 DEF InsertTask
    <3>3. req'[r].task = u /\ req'[r].board = req[r].board
      BY <1>0, <3>1, LogReq
    <3>4. CASE t = u
      <4>1. BoardOfTask(t)' = req[r].board
        BY <3>1, <3>2, <3>4 DEF BoardOfTask, TypeOK
      <4>2. \A b \in Boards : <<t, b>> \notin log
        BY <3>1, <3>4 DEF TypeOK, Row, Referred, Logged
      <4>3. \A s \in Requests \ {r} : ~ Names(req[s], t)
        BY <3>1, <3>4, ContentsAssumption DEF ApartInv, Known, Names, InFlight
      <4> QED  BY <2>0, <3>2, <3>3, <4>1, <4>2, <4>3
    <3>5. CASE t # u
      <4>1. task'[t] = task[t]  BY <3>1, <3>5
      <4> QED  BY <1>1, <2>0, <3>2, <3>3, <3>5, <4>1 DEF Row, BoardOfTask, Names
    <3> QED  BY <3>4, <3>5
  <2>4. CASE ChangeTask(r) \/ MoveTask(r) \/ DeleteTask(r)
    <3> DEFINE u == req[r].task
    <3>1. /\ u \in Tasks /\ Row(u) /\ ThenLog(r, u) /\ UNCHANGED <<list, log>>
          /\ req[r].pc \in {"change", "move", "delete"}
      BY <2>4 DEF ChangeTask, MoveTask, DeleteTask, RequestsOK, RequestOK, tables
    <3>2. req'[r].task = u /\ req'[r].board = req[r].board
      BY <1>0, <3>1, LogReq
    <3>3. \A v \in Tasks : v # u => task'[v] = task[v]
      BY <2>4, <3>1 DEF ChangeTask, MoveTask, DeleteTask, tables, TypeOK
    <3>4. CASE t # u
      <4>1. task'[t] = task[t]  BY <3>3, <3>4
      <4> QED  BY <1>1, <2>0, <3>1, <3>2, <3>4, <4>1 DEF Row, BoardOfTask, Names
    <3>5. CASE t = u
      <4>1. BoardOfTask(t)' = BoardOfTask(t)
        <5>1. CASE MoveTask(r)
          <6>1. list[req[r].list].board = BoardOfTask(t)
            BY <1>0, <3>5, <5>1 DEF MoveTask
          <6>2. task'[t].list = req[r].list
            BY <3>1, <3>5, <5>1 DEF MoveTask, TypeOK, TaskRow
          <6> QED  BY <3>1, <6>1, <6>2 DEF BoardOfTask
        <5>2. CASE ChangeTask(r) \/ DeleteTask(r)
          <6>1. task'[t].list = task[t].list
            BY <3>1, <3>5, <5>2 DEF ChangeTask, DeleteTask, tables, TypeOK, TaskRow
          <6> QED  BY <3>1, <6>1 DEF BoardOfTask
        <5> QED  BY <2>4, <5>1, <5>2
      <4>2. req[r].board = BoardOfTask(t)
        BY <1>0, <3>1, <3>5 DEF LogBoards, Names
      <4> QED  BY <1>1, <2>0, <3>1, <3>2, <3>5, <4>1, <4>2
    <3> QED  BY <3>4, <3>5
  <2> QED  BY <1>6, <2>1, <2>2, <2>3, <2>4 DEF Advance
<1>7. ASSUME NEW r \in Requests, Fail(r) PROVE Goal
  <2>1. UNCHANGED <<task, list, log>> /\ req'[r] = Idle
        /\ \A s \in Requests \ {r} : req'[s] = req[s]
    BY <1>0, <1>7, DoneReq DEF Fail, tables
  <2> QED  BY <1>2, <2>1, IdleType DEF Names
<1>8. CASE UNCHANGED vars
  BY <1>2, <1>8 DEF vars, tables
<1> QED  BY <1>4, <1>5, <1>6, <1>7, <1>8 DEF Next

LEMMA HistoryStep ==
  ASSUME TypeOK, RequestsOK, ApartInv, LogBoards, HistoryKept, [Next]_vars
  PROVE  HistoryKept'
<1> SUFFICES ASSUME failures' = 0, NEW t \in Tasks, Live(t)', ~ Logged(t)',
                    ~ (t \in crossed' /\ board' # Boards)
             PROVE  \/ \E r \in Requests : req'[r].pc = "log" /\ req'[r].task = t
                    \/ \E r \in Requests : /\ req'[r].pc = "deleteTasks"
                                           /\ req'[r].list = task'[t].list
  BY DEF HistoryKept, Live
<1> DEFINE Goal == \/ \E r \in Requests : req'[r].pc = "log" /\ req'[r].task = t
                   \/ \E r \in Requests : /\ req'[r].pc = "deleteTasks"
                                          /\ req'[r].list = task'[t].list
           Writes(r) == req[r].pc = "log" /\ req[r].task = t
           Removes(r) == req[r].pc = "deleteTasks" /\ req[r].list = task[t].list
<1> USE DEF ApartInv
<1>0. /\ req \in [Requests -> Request] /\ list \in [Lists -> ListRow]
      /\ ~ (t \in crossed /\ board # Boards)
      /\ board \subseteq Boards /\ log \subseteq Tasks \X Boards
  BY Lasting DEF TypeOK
<1>1. ASSUME failures = 0, Live(t), ~ Logged(t) PROVE \E r \in Requests : Writes(r) \/ Removes(r)
  BY <1>0, <1>1 DEF HistoryKept
\* a step of r that adds nothing to what the others wait for
<1>2. ASSUME NEW r \in Requests, failures = 0, Live(t), ~ Logged(t),
             ~ Writes(r), ~ Removes(r), task'[t].list = task[t].list,
             \A s \in Requests \ {r} : req'[s] = req[s]
      PROVE  Goal
  BY <1>1, <1>2
<1>3. ASSUME Live(t), ~ Logged(t), failures = 0, task'[t].list = task[t].list, UNCHANGED req
      PROVE  Goal
  BY <1>1, <1>3
<1>4. CASE AtOnce
  <2>1. UNCHANGED <<req, failures>>
    BY <1>4 DEF AtOnce, CreateList, PatchList, CreateLabel, RemoveComment, RemoveBoard
  <2>2. Live(t) /\ task'[t].list = task[t].list /\ ~ Logged(t)
    <3>1. CASE UNCHANGED <<task, log>>  BY <3>1 DEF Live, Logged
    <3>2. ASSUME NEW b \in Boards, RemoveBoard(b)
          PROVE  Live(t) /\ task'[t].list = task[t].list /\ ~ Logged(t)
      <4> DEFINE gone == TasksOn(b)
      <4>1. /\ task'[t] = IF t \in gone THEN GoneTask ELSE task[t]
            /\ log' = {x \in log : x[1] \notin gone /\ x[2] # b}
            /\ board' = board \ {b} /\ UNCHANGED crossed
        BY <3>2 DEF RemoveBoard, history
      <4>2. t \notin gone /\ Live(t) /\ task'[t] = task[t]
        BY <4>1 DEF Live, GoneTask
      <4>3. Row(t) /\ task[t].list \in Lists /\ IsThere(task[t].list)
        BY <4>2 DEF TypeOK, Live, Row
      <4>4. BoardOfTask(t) # b
        BY <4>2, <4>3 DEF TasksOn, TasksIn, Columns, BoardOfTask
      <4>5. t \notin crossed
        BY <3>2, <4>1
      <4>6. \A c \in Boards : <<t, c>> \in log => c = BoardOfTask(t)
        BY <4>3, <4>5 DEF LogBoards
      <4> HIDE DEF gone
      <4>7. \A x \in log : x[1] # t
        <5> SUFFICES ASSUME NEW x \in log, x[1] = t PROVE FALSE
          OBVIOUS
        <5>1. x[2] \in Boards /\ x = <<t, x[2]>>  BY <1>0
        <5>2. x[2] # b  BY <4>4, <4>6, <5>1
        <5>3. x \in log'  BY <4>1, <4>2, <5>2
        <5> QED  BY <5>3 DEF Logged
      <4> QED  BY <4>2, <4>7 DEF Logged
    <3> QED
      BY <1>4, <3>1, <3>2 DEF AtOnce, CreateList, PatchList, CreateLabel, RemoveComment
  <2> QED  BY <1>3, <2>1, <2>2
<1>5. ASSUME NEW r \in Requests, Accept(r) PROVE Goal
  <2>1. PICK q \in Request : Begin(r, q)  BY <1>5, Accepted
  <2>2. UNCHANGED <<tables, failures>> /\ ~ InFlight(r)  BY <2>1 DEF Begin
  <2> QED  BY <1>0, <1>2, <2>1, <2>2, BeginReq DEF tables, Live, InFlight, Logged
<1>6. ASSUME NEW r \in Requests, Advance(r) PROVE Goal
  <2>0. /\ UNCHANGED failures /\ \A s \in Requests \ {r} : req'[s] = req[s]
        /\ ColumnCleared(req[r])
    BY <1>0, <1>6, Advanced
    DEF Cleared, Advance, ShiftColumns, SetColumn, ReadTasks, Unlabel, Unlog, DeleteTasks,
        DeleteList, InsertTask, ChangeTask, MoveTask, DeleteTask, WriteLog, UnlabelAll,
        DeleteLabel, Attach, Detach, InsertComment, Refuse
  <2>1. CASE \/ ShiftColumns(r) \/ SetColumn(r) \/ ReadTasks(r) \/ Unlabel(r)
             \/ DeleteList(r) \/ ChangeTask(r) \/ UnlabelAll(r) \/ DeleteLabel(r)
             \/ Attach(r) \/ Detach(r) \/ InsertComment(r)
    <3>1. UNCHANGED <<task, log>> /\ req[r].pc \notin {"log", "deleteTasks"}
      BY <2>1 DEF ShiftColumns, SetColumn, ReadTasks, Unlabel, DeleteList, ChangeTask,
                  UnlabelAll, DeleteLabel, Attach, Detach, InsertComment, tables
    <3> QED  BY <1>2, <2>0, <3>1 DEF Live, Logged
  <2>2. CASE Refuse(r)
    <3>1. UNCHANGED <<task, log>>  BY <2>2 DEF Refuse, tables
    <3>2. ~ Writes(r)
      <4>1. t \notin crossed => BoardOfTask(t) \in board
        BY <3>1 DEF TypeOK, BoardOfTask, Live, Row
      <4>2. Writes(r) /\ t \notin crossed => req[r].board = BoardOfTask(t)
        BY <3>1 DEF LogBoards, Names, Live, Row
      <4>3. Writes(r) => req[r].board \in Boards
        BY DEF RequestsOK, RequestOK
      <4> QED  BY <1>0, <2>2, <3>1, <4>1, <4>2, <4>3 DEF Refuse, Row, Live
    <3>3. req[r].pc # "deleteTasks"
      BY <2>0, <2>2 DEF Refuse, ColumnCleared, Referred
    <3> QED  BY <1>2, <2>0, <3>1, <3>2, <3>3 DEF Live, Logged
  <2>3. CASE Unlog(r)
    <3>1. /\ UNCHANGED task /\ log' = {x \in log : x[1] \notin req[r].ids}
          /\ req'[r].pc = "deleteTasks" /\ req'[r].list = req[r].list
          /\ req[r].pc = "unlog"
      BY <1>0, <2>3, ThenReq DEF Unlog
    <3>2. CASE t \in req[r].ids
      <4>1. task[t].list = req[r].list
        BY <2>0, <3>1, <3>2 DEF ColumnCleared, Live, Row
      <4> QED  BY <3>1, <4>1
    <3>3. CASE t \notin req[r].ids
      BY <1>2, <2>0, <3>1, <3>3 DEF Live, Logged
    <3> QED  BY <3>2, <3>3
  <2>4. CASE DeleteTasks(r)
    <3>1. /\ UNCHANGED log /\ req[r].pc = "deleteTasks"
          /\ task'[t] = IF t \in TasksIn(req[r].list) THEN GoneTask ELSE task[t]
      BY <2>4 DEF DeleteTasks
    <3>2. t \notin TasksIn(req[r].list)  BY <3>1 DEF Live, GoneTask
    <3>3. Live(t) /\ task'[t] = task[t]  BY <3>1, <3>2 DEF Live
    <3>4. ~ Removes(r)  BY <3>2, <3>3 DEF TasksIn, Row, Live
    <3> QED  BY <1>2, <2>0, <3>1, <3>3, <3>4 DEF Logged
  <2>5. CASE InsertTask(r)
    <3>1. PICK u \in Tasks :
            /\ task' = [task EXCEPT ![u] = [state |-> "live", list |-> req[r].list]]
            /\ ThenLog(r, u)
      BY <2>5 DEF InsertTask
    <3>2. CASE t = u  BY <1>0, <3>1, <3>2, LogReq
    <3>3. CASE t # u
      <4>1. task'[t] = task[t] /\ UNCHANGED log /\ req[r].pc = "insert"
        BY <2>5, <3>1, <3>3 DEF InsertTask
      <4> QED  BY <1>2, <2>0, <4>1 DEF Live, Logged
    <3> QED  BY <3>2, <3>3
  <2>6. CASE MoveTask(r) \/ DeleteTask(r)
    <3>1. /\ req[r].task \in Tasks /\ ThenLog(r, req[r].task) /\ UNCHANGED log
          /\ req[r].pc \in {"move", "delete"}
      BY <2>6 DEF MoveTask, DeleteTask, RequestsOK, RequestOK
    <3>2. CASE t = req[r].task  BY <1>0, <3>1, <3>2, LogReq
    <3>3. CASE t # req[r].task
      <4>1. task'[t] = task[t]  BY <2>6, <3>3 DEF MoveTask, DeleteTask, TypeOK
      <4> QED  BY <1>2, <2>0, <3>1, <4>1 DEF Live, Logged
    <3> QED  BY <3>2, <3>3
  <2>7. CASE WriteLog(r)
    <3> DEFINE u == req[r].task
               b == req[r].board
    <3>1. UNCHANGED task /\ log' = log \cup {<<u, b>>} /\ req[r].pc = "log"
      BY <2>7 DEF WriteLog
    <3>2. u # t /\ ~ Logged(t)
      <4> HIDE DEF u, b
      <4>1. <<u, b>> \in log' /\ log \subseteq log' /\ <<u, b>>[1] = u  BY <3>1
      <4> QED  BY <4>1 DEF Logged
    <3> QED  BY <1>2, <2>0, <3>1, <3>2 DEF Live
  <2> QED  BY <1>6, <2>1, <2>2, <2>3, <2>4, <2>5, <2>6, <2>7 DEF Advance
<1>7. ASSUME NEW r \in Requests, Fail(r) PROVE FALSE
  BY <1>7 DEF Fail, TypeOK
<1>8. CASE UNCHANGED vars
  BY <1>3, <1>8 DEF vars, tables, Live, Logged
<1> QED  BY <1>4, <1>5, <1>6, <1>7, <1>8 DEF Next

(***************************************************************************)
(* As long as requests are about different columns, tasks and labels and   *)
(* none is cut off, a task that is shown has its log: no handler deletes   *)
(* the log of a task that another column still shows, except the removal   *)
(* of a board which the task has left.                                     *)
(***************************************************************************)
THEOREM HistoriesKept ==
  ASSUME Isolation = "apart"
  PROVE  Spec => []HistoryKept
<1> DEFINE Inv == TypeOK /\ RequestsOK /\ ApartInv /\ LogBoards /\ HistoryKept
<1>1. Init => Inv
  BY TypeInit, ApartInit DEF Init, HistoryKept, LogBoards, Live, Row
<1>2. Inv /\ [Next]_vars => Inv'
  BY TypeStep, ApartStep, LogBoardsStep, HistoryStep
<1>3. Inv => HistoryKept  OBVIOUS
<1> HIDE DEF Inv
<1> QED  BY <1>1, <1>2, <1>3, PTL DEF Spec

-----------------------------------------------------------------------------
(* The positions of columns *)

Distinct(f, S) == \A k, l \in S : f[k] = f[l] => k = l

Positions == [l \in Lists |-> list[l].position]
PositionsWith(q) == [Positions EXCEPT ![q.list] = q.new]

(***************************************************************************)
(* A board that is there is reordered by one handler at a time, and the    *)
(* column it moves stays on that board.                                    *)
(***************************************************************************)
OneReorder ==
  \A r \in Requests : \A b \in Boards : Reordering(r, b) =>
    /\ list[req[r].list].state # "absent"
    /\ IsThere(req[r].list) => list[req[r].list].board = b
    /\ b \in board => /\ IsThere(req[r].list)
                      /\ \A s \in Requests : Reordering(s, b) => s = r

\* between the two statements the positions differ but for the one still to be set
Tidy(b) ==
  /\ \A r \in Requests : Reordering(r, b) =>
       /\ req[r].pc = "shift" => /\ list[req[r].list].position = req[r].old
                                 /\ Distinct(Positions, Columns(b))
       /\ req[r].pc = "set" => Distinct(PositionsWith(req[r]), Columns(b))
  /\ (\A r \in Requests : ~ Reordering(r, b)) => Distinct(Positions, Columns(b))

BoardsTidy == failures = 0 => \A b \in board \ clashed : Tidy(b)

\* one column goes to its new place and the others step aside
LEMMA StepsApart ==
  ASSUME NEW S, NEW l \in S, NEW q, q.old \in Int, q.new \in Int,
         NEW f, NEW g, Distinct(f, S), f[l] = q.old, \A k \in S : f[k] \in Int,
         \A k \in S : g[k] = IF k = l THEN q.new ELSE StepAside(q, f[k])
  PROVE  Distinct(g, S)
<1> DEFINE old == q.old
           new == q.new
<1>1. /\ old \in Int /\ new \in Int /\ f[l] = old /\ g[l] = new
      /\ \A k, m \in S : f[k] = f[m] => k = m
      /\ \A k \in S : f[k] \in Int
  BY DEF Distinct
<1>2. \A k \in S \ {l} :
        g[k] = IF new <= f[k] /\ f[k] < old THEN f[k] + 1
               ELSE IF old < f[k] /\ f[k] <= new THEN f[k] - 1 ELSE f[k]
  BY DEF StepAside
<1> HIDE DEF old, new
<1>3. \A k \in S \ {l} : f[k] # old  BY <1>1
<1>4. \A k \in S \ {l} : g[k] # new
  BY <1>1, <1>2, <1>3
<1>5. \A k, m \in S \ {l} : g[k] = g[m] => f[k] = f[m]
  BY <1>1, <1>2, <1>3
<1> QED  BY <1>1, <1>4, <1>5 DEF Distinct

-----------------------------------------------------------------------------

LEMMA ReorderBegins ==
  ASSUME req \in [Requests -> Request], NEW r \in Requests, Accept(r),
         req'[r].pc \in {"shift", "set"}
  PROVE  \E l \in Lists, p \in ClientPositions : BeginReorder(r, l, p)
<1>1. ASSUME NEW q, Begin(r, q) PROVE req'[r] = q
  BY <1>1 DEF Begin
<1>2. ASSUME NEW l, BeginRemoveList(r, l) \/ BeginCreateTask(r, l) PROVE FALSE
  BY <1>1, <1>2 DEF BeginRemoveList, BeginCreateTask, Idle
<1>3. ASSUME NEW t, BeginChange(r, t) \/ BeginDelete(r, t) \/ BeginComment(r, t) PROVE FALSE
  BY <1>1, <1>3 DEF BeginChange, BeginDelete, BeginComment, Idle
<1>4. ASSUME NEW t, NEW l, BeginMove(r, t, l) PROVE FALSE
  BY <1>1, <1>4 DEF BeginMove, Idle
<1>5. ASSUME NEW t, NEW g, BeginAttach(r, t, g) \/ BeginDetach(r, t, g) PROVE FALSE
  BY <1>1, <1>5 DEF BeginAttach, BeginDetach, Idle
<1>6. ASSUME NEW g, BeginRemoveLabel(r, g) PROVE FALSE
  BY <1>1, <1>6 DEF BeginRemoveLabel, Idle
<1> QED  BY <1>2, <1>3, <1>4, <1>5, <1>6 DEF Accept

\* what a reordering begins with
LEMMA ReorderFresh ==
  ASSUME Isolation = "apart", TypeOK, NEW r \in Requests, NEW l \in Lists, NEW p \in Int,
         BeginReorder(r, l, p)
  PROVE  /\ IsThere(l) /\ req'[r].list = l /\ req'[r].board = list[l].board
         /\ req'[r].pc \in {"shift", "set"}
         /\ req'[r].old = list[l].position /\ req'[r].new = p
         /\ req'[r].pc = "set" => p = list[l].position
         /\ Still(list[l].board)
         /\ UNCHANGED <<tables, failures, history>> /\ ~ InFlight(r)
         /\ \A s \in Requests \ {r} : req'[s] = req[s]
<1> DEFINE pc == IF p = list[l].position THEN "set" ELSE "shift"
           q == [Idle EXCEPT !.pc = pc, !.list = l, !.board = list[l].board,
                             !.old = list[l].position, !.new = p]
<1>1. pc \in {"set", "shift"} /\ (pc = "set" => p = list[l].position)
  OBVIOUS
<1>2. IsThere(l) /\ Begin(r, q)  BY DEF BeginReorder
<1> HIDE DEF pc
<1>3. /\ q.pc = pc /\ q.list = l /\ q.board = list[l].board
      /\ q.old = list[l].position /\ q.new = p
  BY DEF Idle
<1> HIDE DEF q
<1>4. req'[r] = q /\ \A s \in Requests \ {r} : req'[s] = req[s]
  BY <1>2 DEF Begin, TypeOK
<1> QED  BY <1>1, <1>2, <1>3, <1>4 DEF Begin, Apart

\* a request that is moving a column is about that column
LEMMA MovesOwn ==
  ASSUME RequestsOK, NEW r \in Requests, NEW b, Reordering(r, b)
  PROVE  InFlight(r) /\ req[r].list \in Lists /\ req[r].list \in ListsOf(req[r])
BY ContentsAssumption DEF Reordering, RequestsOK, RequestOK, InFlight, ListsOf

\* only ShiftColumns goes on to "set"
LEMMA OthersReorder ==
  ASSUME TypeOK, RequestsOK, NEW r \in Requests, Advance(r), ~ ShiftColumns(r), NEW b
  PROVE  /\ ~ Reordering(r, b)'
         /\ \A s \in Requests \ {r} : req'[s] = req[s]
<1>0. req \in [Requests -> Request]  BY DEF TypeOK
<1>1. CASE \/ SetColumn(r) \/ DeleteList(r) \/ WriteLog(r) \/ DeleteLabel(r)
           \/ Attach(r) \/ Detach(r) \/ InsertComment(r) \/ Refuse(r)
  <2>1. Done(r)
    BY <1>1 DEF SetColumn, DeleteList, WriteLog, DeleteLabel, Attach, Detach,
                InsertComment, Refuse
  <2> QED  BY <1>0, <2>1, DoneReq, IdleType DEF Reordering
<1>2. CASE Unlabel(r) \/ Unlog(r) \/ DeleteTasks(r) \/ UnlabelAll(r)
  <2>1. PICK pc \in {"unlog", "deleteTasks", "deleteList", "deleteLabel"} : Then(r, pc)
    BY <1>2 DEF Unlabel, Unlog, DeleteTasks, UnlabelAll
  <2> QED  BY <1>0, <2>1, ThenReq DEF Reordering
<1>3. CASE ReadTasks(r)
  BY <1>0, <1>3, ReadReq DEF Reordering
<1>4. CASE InsertTask(r) \/ ChangeTask(r) \/ MoveTask(r) \/ DeleteTask(r)
  <2>1. PICK t \in Tasks : ThenLog(r, t)
    BY <1>4 DEF InsertTask, ChangeTask, MoveTask, DeleteTask, RequestsOK, RequestOK
  <2> QED  BY <1>0, <2>1, LogReq DEF Reordering
<1> QED  BY <1>1, <1>2, <1>3, <1>4 DEF Advance

LEMMA OneReorderStep ==
  ASSUME Isolation = "apart", TypeOK, RequestsOK, Exclusive, OneReorder, [Next]_vars
  PROVE  OneReorder'
<1> SUFFICES ASSUME NEW r \in Requests, NEW b \in Boards, Reordering(r, b)'
             PROVE  /\ list'[req'[r].list].state # "absent"
                    /\ list'[req'[r].list].state = "there" => list'[req'[r].list].board = b
                    /\ b \in board' => /\ list'[req'[r].list].state = "there"
                                       /\ \A s \in Requests : Reordering(s, b)' => s = r
  BY DEF OneReorder, IsThere
<1> DEFINE l == req[r].list
           Goal == /\ list'[req'[r].list].state # "absent"
                   /\ list'[req'[r].list].state = "there" => list'[req'[r].list].board = b
                   /\ b \in board' => /\ list'[req'[r].list].state = "there"
                                      /\ \A s \in Requests : Reordering(s, b)' => s = r
<1>0. req \in [Requests -> Request] /\ list \in [Lists -> ListRow] /\ board' \subseteq board
  BY Lasting DEF TypeOK
\* a step after which r and the others still move what they moved
<1>1. ASSUME Reordering(r, b), req'[r].list = l,
             \A s \in Requests : Reordering(s, b)' => Reordering(s, b),
             list'[l].state # "absent", IsThere(l)' => IsThere(l),
             list'[l].board = list[l].board \/ ~ IsThere(l)',
             b \in board' /\ IsThere(l) => IsThere(l)'
      PROVE  Goal
  BY <1>0, <1>1 DEF OneReorder, IsThere
<1>2. ASSUME Reordering(r, b), UNCHANGED req, list'[l] = list[l] PROVE Goal
  BY <1>1, <1>2 DEF OneReorder, Reordering, IsThere
<1>3. CASE AtOnce
  <2>1. UNCHANGED req
    BY <1>3 DEF AtOnce, CreateList, PatchList, CreateLabel, RemoveComment, RemoveBoard
  <2>2. Reordering(r, b)  BY <2>1 DEF Reordering
  <2>3. InFlight(r) /\ l \in Lists /\ l \in ListsOf(req[r]) /\ list[l].state # "absent"
    BY <2>2, MovesOwn DEF OneReorder
  <2>4. ASSUME NEW k \in Lists, NEW p, NEW c, CreateList(k, p, c) \/ PatchList(k, p, c)
        PROVE  Goal
    <3>1. k # l  BY <2>3, <2>4 DEF CreateList, PatchList, Free
    <3>2. list'[l] = list[l]
      BY <1>0, <2>3, <2>4, <3>1 DEF CreateList, PatchList, Put
    <3> QED  BY <1>2, <2>1, <2>2, <3>2
  <2>5. ASSUME NEW c \in Boards, RemoveBoard(c) PROVE Goal
    <3>1. /\ board' = board \ {c}
          /\ list'[l] = IF l \in Columns(c) THEN GoneList ELSE list[l]
      BY <2>3, <2>5 DEF RemoveBoard
    <3>2. CASE l \notin Columns(c)  BY <1>2, <2>1, <2>2, <3>1, <3>2
    <3>3. CASE l \in Columns(c)
      <4>1. c = b  BY <2>2, <3>3 DEF Columns, OneReorder
      <4>2. list'[l].state = "gone"  BY <3>1, <3>3 DEF GoneList
      <4> QED  BY <2>1, <3>1, <4>1, <4>2 DEF IsThere
    <3> QED  BY <3>2, <3>3
  <2> QED
    BY <1>2, <1>3, <2>1, <2>2, <2>4, <2>5 DEF AtOnce, CreateLabel, RemoveComment
<1>4. ASSUME NEW z \in Requests, Accept(z) PROVE Goal
  <2>1. PICK q \in Request : Begin(z, q)  BY <1>4, Accepted
  <2>2. /\ UNCHANGED <<list, board>> /\ ~ InFlight(z)
        /\ \A s \in Requests \ {z} : req'[s] = req[s]
    BY <1>0, <2>1, BeginReq DEF Begin, tables
  <2>3. CASE ~ Reordering(z, b)'
    <3>1. z # r  BY <2>3
    <3>2. \A s \in Requests : Reordering(s, b)' => Reordering(s, b)
      BY <2>2, <2>3 DEF Reordering
    <3> QED  BY <1>1, <2>2, <3>1, <3>2 DEF OneReorder, IsThere
  <2>4. CASE Reordering(z, b)'
    <3>1. PICK k \in Lists, p \in ClientPositions : BeginReorder(z, k, p)
      BY <1>0, <1>4, <2>4, ReorderBegins DEF Reordering
    <3>2. /\ IsThere(k) /\ req'[z].list = k /\ req'[z].board = list[k].board
          /\ Still(list[k].board)
      BY <3>1, ReorderFresh, ContentsAssumption
    <3>3. list[k].board = b  BY <2>4, <3>2 DEF Reordering
    <3>4. \A s \in Requests : Reordering(s, b)' => s = z
      BY <2>2, <3>2, <3>3 DEF Still, Reordering
    <3> QED  BY <2>2, <3>2, <3>3, <3>4 DEF IsThere
  <2> QED  BY <2>3, <2>4
<1>5. ASSUME NEW z \in Requests, Advance(z) PROVE Goal
  <2>1. CASE ShiftColumns(z)
    <3>1. /\ req[z].pc = "shift" /\ req'[z].list = req[z].list
          /\ req'[z].board = req[z].board
          /\ \A s \in Requests \ {z} : req'[s] = req[s]
      BY <1>0, <2>1, ThenReq DEF ShiftColumns
    <3>2. \A s \in Requests : Reordering(s, b)' => Reordering(s, b)
      BY <3>1 DEF Reordering
    <3>3. l \in Lists /\ list[l].state # "absent"  BY <3>2, MovesOwn DEF OneReorder
    <3>4. list'[l].state = list[l].state /\ list'[l].board = list[l].board
      BY <1>0, <2>1, <3>3 DEF ShiftColumns, ListRow
    <3> QED  BY <1>1, <3>1, <3>2, <3>3, <3>4 DEF IsThere
  <2>2. CASE ~ ShiftColumns(z)
    <3>1. /\ ~ Reordering(z, b)' /\ r # z
          /\ \A s \in Requests \ {z} : req'[s] = req[s]
      BY <1>5, <2>2, OthersReorder
    <3>2. \A s \in Requests : Reordering(s, b)' => Reordering(s, b)
      BY <3>1 DEF Reordering
    <3>3. l \in Lists /\ l \in ListsOf(req[r]) /\ InFlight(r) /\ list[l].state # "absent"
      BY <3>2, MovesOwn DEF OneReorder
    <3>4. /\ list'[l].state = list[l].state /\ list'[l].board = list[l].board
      <4>1. CASE SetColumn(z)
        BY <1>0, <3>3, <4>1 DEF SetColumn, ListRow
      <4>2. CASE DeleteList(z)
        <5>1. req[z].list \in ListsOf(req[z]) /\ InFlight(z)
          BY <4>2, ContentsAssumption DEF DeleteList, RequestsOK, RequestOK, ListsOf, InFlight
        <5>2. req[z].list # l  BY <3>1, <3>3, <5>1 DEF Exclusive
        <5> QED  BY <1>0, <3>3, <4>2, <5>2 DEF DeleteList
      <4>3. CASE UNCHANGED list  BY <4>3
      <4> QED
        BY <1>5, <2>2, <4>1, <4>2, <4>3
        DEF Advance, ReadTasks, Unlabel, Unlog, DeleteTasks, InsertTask, ChangeTask, MoveTask,
            DeleteTask, WriteLog, UnlabelAll, DeleteLabel, Attach, Detach, InsertComment,
            Refuse, tables
    <3> QED  BY <1>1, <3>1, <3>2, <3>3, <3>4 DEF IsThere
  <2> QED  BY <2>1, <2>2
<1>6. ASSUME NEW z \in Requests, Fail(z) PROVE Goal
  <2>1. UNCHANGED list /\ req'[z] = Idle /\ \A s \in Requests \ {z} : req'[s] = req[s]
    BY <1>0, <1>6, DoneReq DEF Fail, tables
  <2>2. z # r /\ \A s \in Requests : Reordering(s, b)' => Reordering(s, b)
    BY <2>1, IdleType DEF Reordering
  <2> QED  BY <1>1, <2>1, <2>2 DEF OneReorder, IsThere
<1>7. CASE UNCHANGED vars
  BY <1>2, <1>7 DEF vars, tables, Reordering
<1> QED  BY <1>3, <1>4, <1>5, <1>6, <1>7 DEF Next

\* what brings no column to a board and leaves alone who reorders it
LEMMA SameBoard ==
  ASSUME NEW b, Tidy(b), RequestsOK,
         \A l \in Columns(b)' : l \in Columns(b) /\ list'[l] = list[l],
         \A s \in Requests : IF Reordering(s, b)
                             THEN req'[s] = req[s] /\ list'[req[s].list] = list[req[s].list]
                             ELSE ~ Reordering(s, b)'
  PROVE  Tidy(b)'
<1>1. \A l \in Columns(b)' : l \in Lists /\ Positions'[l] = Positions[l]
  BY DEF Columns, Positions
<1>2. Distinct(Positions, Columns(b)) => Distinct(Positions', Columns(b)')
  BY <1>1 DEF Distinct
<1>3. ASSUME NEW r \in Requests, Reordering(r, b)'
      PROVE  /\ Reordering(r, b) /\ req'[r] = req[r]
             /\ list'[req[r].list] = list[req[r].list]
             /\ Distinct(PositionsWith(req[r]), Columns(b))
                  => Distinct(PositionsWith(req[r])', Columns(b)')
  <2>1. Reordering(r, b) /\ req'[r] = req[r] /\ list'[req[r].list] = list[req[r].list]
    BY <1>3
  <2>2. \A l \in Columns(b)' : PositionsWith(req[r])'[l] = PositionsWith(req[r])[l]
    BY <1>1, <2>1 DEF PositionsWith, Positions
  <2> QED  BY <2>1, <2>2 DEF Distinct
<1>4. \A r \in Requests : Reordering(r, b) => Reordering(r, b)'
  BY DEF Reordering
<1> QED  BY <1>2, <1>3, <1>4 DEF Tidy

\* a column that a client puts on a board that nobody is reordering
LEMMA PutTidy ==
  ASSUME Isolation = "apart", TypeOK, RequestsOK, OneReorder, NEW b \in board \ clashed',
         Tidy(b), NEW l \in Lists, NEW p, NEW c,
         CreateList(l, p, c) \/ PatchList(l, p, c)
  PROVE  Tidy(b)'
<1>0. /\ list \in [Lists -> ListRow] /\ UNCHANGED req /\ Still(c)
      /\ list' = [list EXCEPT ![l] = [state |-> "there", position |-> p, board |-> c]]
  BY DEF CreateList, PatchList, Put, TypeOK
<1>1. \A k \in Lists : k # l => list'[k] = list[k]  BY <1>0
<1>2. list'[l].state = "there" /\ list'[l].position = p /\ list'[l].board = c
  BY <1>0
<1>3. CASE c # b
  <2>1. \A k \in Columns(b)' : k \in Columns(b) /\ list'[k] = list[k]
    BY <1>1, <1>2, <1>3 DEF Columns, IsThere
  <2>2. ASSUME NEW s \in Requests, Reordering(s, b)
        PROVE  list'[req[s].list] = list[req[s].list]
    <3>1. InFlight(s) /\ req[s].list \in Lists /\ req[s].list \in ListsOf(req[s])
      BY <2>2, MovesOwn
    <3>2. list[req[s].list].state # "absent"
      BY <2>2 DEF OneReorder, TypeOK
    <3>3. req[s].list # l
      BY <3>1, <3>2 DEF CreateList, PatchList, Free
    <3> QED  BY <1>1, <3>1, <3>3
  <2> QED  BY <1>0, <2>1, <2>2, SameBoard DEF Reordering
<1>4. CASE c = b
  <2>1. \A s \in Requests : ~ Reordering(s, b) /\ ~ Reordering(s, b)'
    BY <1>0, <1>4 DEF Still, Reordering
  <2>2. Columns(b)' = Columns(b) \cup {l}
    BY <1>1, <1>2, <1>4 DEF Columns, IsThere
  <2>3. \A k \in Columns(b) \ {l} : list[k].position # p
    BY <1>4 DEF CreateList, PatchList, Put
  <2>4. Distinct(Positions, Columns(b))  BY <2>1 DEF Tidy
  <2>5. Positions'[l] = p /\ \A k \in Columns(b) \ {l} : Positions'[k] = Positions[k]
    BY <1>1, <1>2 DEF Positions, Columns
  <2>6. \A k \in Columns(b) \ {l} : Positions[k] # p
    BY <2>3 DEF Positions, Columns
  <2>7. Distinct(Positions', Columns(b)')
    BY <2>2, <2>4, <2>5, <2>6 DEF Distinct
  <2> QED  BY <2>1, <2>7 DEF Tidy
<1> QED  BY <1>3, <1>4

LEMMA BeginTidy ==
  ASSUME Isolation = "apart", TypeOK, RequestsOK, NEW b, Tidy(b),
         NEW r \in Requests, Accept(r)
  PROVE  Tidy(b)'
<1>0. req \in [Requests -> Request] /\ list \in [Lists -> ListRow]  BY DEF TypeOK
<1>1. PICK q \in Request : Begin(r, q)  BY Accepted
<1>2. /\ UNCHANGED list /\ ~ InFlight(r)
      /\ \A s \in Requests \ {r} : req'[s] = req[s]
  BY <1>0, <1>1, BeginReq DEF Begin, tables
<1>3. ~ Reordering(r, b)  BY <1>2 DEF InFlight, Reordering
<1>4. CASE ~ Reordering(r, b)'
  <2>1. Columns(b)' = Columns(b)  BY <1>2 DEF Columns, IsThere
  <2>2. \A s \in Requests : IF Reordering(s, b) THEN req'[s] = req[s] ELSE ~ Reordering(s, b)'
    BY <1>2, <1>3, <1>4 DEF Reordering
  <2> QED  BY <1>2, <2>1, <2>2, SameBoard
<1>5. CASE Reordering(r, b)'
  <2>1. PICK l \in Lists, p \in ClientPositions : BeginReorder(r, l, p)
    BY <1>0, <1>5, ReorderBegins DEF Reordering
  <2>2. /\ req'[r].list = l /\ req'[r].board = list[l].board
        /\ req'[r].old = list[l].position /\ req'[r].new = p
        /\ req'[r].pc = "set" => p = list[l].position
        /\ Still(list[l].board)
    BY <2>1, ReorderFresh, ContentsAssumption
  <2>3. \A s \in Requests : ~ Reordering(s, b)
    BY <1>5, <2>2 DEF Still, Reordering
  <2>4. Distinct(Positions, Columns(b))  BY <2>3 DEF Tidy
  <2>5. Columns(b)' = Columns(b) /\ Positions' = Positions
    BY <1>2 DEF Columns, IsThere, Positions
  <2>6. req'[r].pc = "set" => PositionsWith(req[r])' = Positions
    BY <2>2, <2>5 DEF PositionsWith, Positions
  <2>7. \A s \in Requests : Reordering(s, b)' => s = r
    BY <1>2, <2>3 DEF Reordering
  <2> QED
    BY <1>2, <1>5, <2>2, <2>4, <2>5, <2>6, <2>7 DEF Tidy
<1> QED  BY <1>4, <1>5

LEMMA ShiftTidy ==
  ASSUME TypeOK, RequestsOK, OneReorder, NEW b \in board, Tidy(b),
         NEW r \in Requests, ShiftColumns(r)
  PROVE  Tidy(b)'
<1> DEFINE q == req[r]
           l == req[r].list
           c == req[r].board
<1>0. /\ req \in [Requests -> Request] /\ list \in [Lists -> ListRow] /\ board \subseteq Boards
      /\ q.pc = "shift" /\ q \in Request /\ l \in Lists /\ c \in Boards
      /\ list' = [k \in Lists |->
                    IF k \in Columns(c)
                    THEN [list[k] EXCEPT !.position = StepAside(q, @)] ELSE list[k]]
  BY DEF TypeOK, ShiftColumns, RequestsOK, RequestOK
<1>1. /\ req'[r].pc = "set" /\ req'[r].list = l /\ req'[r].new = q.new
      /\ req'[r].board = c
      /\ \A s \in Requests \ {r} : req'[s] = req[s]
  BY <1>0, ThenReq DEF ShiftColumns
<1>2. \A k \in Lists : list'[k].state = list[k].state /\ list'[k].board = list[k].board
  BY <1>0 DEF ListRow
<1>3. Columns(b)' = Columns(b)  BY <1>2 DEF Columns, IsThere
<1>4. Reordering(r, c)  BY <1>0 DEF Reordering
<1>5. CASE c # b
  <2>1. \A k \in Lists : k \notin Columns(c) => list'[k] = list[k]  BY <1>0
  <2>2. \A k \in Columns(b)' : k \in Columns(b) /\ list'[k] = list[k]
    BY <1>3, <1>5, <2>1 DEF Columns
  <2>3. ASSUME NEW s \in Requests, Reordering(s, b)
        PROVE  req'[s] = req[s] /\ list'[req[s].list] = list[req[s].list]
    <3>1. s # r  BY <1>5, <2>3 DEF Reordering
    <3>2. req[s].list \in Lists /\ list[req[s].list].board = b
      BY <1>0, <2>3, MovesOwn DEF OneReorder
    <3> QED  BY <1>1, <1>5, <2>1, <3>1, <3>2 DEF Columns
  <2>4. \A s \in Requests : ~ Reordering(s, b) => ~ Reordering(s, b)'
    BY <1>1, <1>5 DEF Reordering
  <2> QED  BY <2>2, <2>3, <2>4, SameBoard
<1>6. CASE c = b
  <2> DEFINE S == Columns(b)
             g == PositionsWith(req[r])'
  <2>1. /\ IsThere(l) /\ list[l].board = b
        /\ \A s \in Requests : Reordering(s, b) => s = r
    BY <1>0, <1>4, <1>6 DEF OneReorder
  <2>2. list[l].position = q.old /\ Distinct(Positions, S)
    BY <1>0, <1>4, <1>6 DEF Tidy
  <2>3. l \in S  BY <1>0, <2>1 DEF Columns
  <2>4. \A k \in S : g[k] = IF k = l THEN q.new ELSE StepAside(q, Positions[k])
    BY <1>0, <1>1, <1>6 DEF PositionsWith, Positions, Columns
  <2>5. /\ q.old \in Int /\ q.new \in Int /\ Positions[l] = q.old
        /\ \A k \in S : Positions[k] \in Int
    BY <1>0, <2>2 DEF Request, Positions, ListRow, Columns
  <2> HIDE DEF S, g
  <2>6. Distinct(g, S)
    <3> HIDE DEF q, l
    <3> QED  BY <2>2, <2>3, <2>4, <2>5, StepsApart
  <2> HIDE DEF q
  <2>7. \A s \in Requests : Reordering(s, b)' => s = r
    BY <1>1, <2>1 DEF Reordering
  <2>8. Reordering(r, b)'  BY <1>1, <1>6 DEF Reordering
  <2> QED
    BY <1>1, <1>3, <2>6, <2>7, <2>8 DEF Tidy, S, g
<1> QED  BY <1>5, <1>6

LEMMA SetTidy ==
  ASSUME TypeOK, RequestsOK, OneReorder, NEW b \in board, Tidy(b),
         NEW r \in Requests, SetColumn(r)
  PROVE  Tidy(b)'
<1> DEFINE q == req[r]
<1>0. /\ req \in [Requests -> Request] /\ list \in [Lists -> ListRow] /\ board \subseteq Boards
      /\ q.pc = "set" /\ q.list \in Lists /\ q.board \in Boards /\ IsThere(q.list)
      /\ list' = [list EXCEPT ![q.list].position = q.new]
      /\ req'[r] = Idle /\ \A s \in Requests \ {r} : req'[s] = req[s]
  BY DoneReq DEF TypeOK, SetColumn, RequestsOK, RequestOK
<1>1. Reordering(r, q.board) /\ ~ Reordering(r, b)'
  BY <1>0, IdleType DEF Reordering
<1>2. list[q.list].board = q.board  BY <1>0, <1>1 DEF OneReorder
<1>3. \A k \in Lists :
        /\ list'[k].state = list[k].state /\ list'[k].board = list[k].board
        /\ list'[k].position = IF k = q.list THEN q.new ELSE list[k].position
        /\ k # q.list => list'[k] = list[k]
  BY <1>0 DEF ListRow
<1>4. Columns(b)' = Columns(b)  BY <1>3 DEF Columns, IsThere
<1>5. CASE q.board # b
  <2>1. \A k \in Columns(b)' : k \in Columns(b) /\ list'[k] = list[k]
    BY <1>2, <1>3, <1>4, <1>5 DEF Columns
  <2>2. ASSUME NEW s \in Requests, Reordering(s, b)
        PROVE  req'[s] = req[s] /\ list'[req[s].list] = list[req[s].list]
    <3>1. s # r  BY <1>5, <2>2 DEF Reordering
    <3>2. req[s].list \in Lists /\ list[req[s].list].board = b
      BY <1>0, <2>2, MovesOwn DEF OneReorder
    <3> QED  BY <1>0, <1>2, <1>3, <1>5, <3>1, <3>2
  <2>3. \A s \in Requests : ~ Reordering(s, b) => ~ Reordering(s, b)'
    BY <1>0, <1>1 DEF Reordering
  <2> QED  BY <2>1, <2>2, <2>3, SameBoard
<1>6. CASE q.board = b
  <2>1. /\ \A s \in Requests : Reordering(s, b) => s = r
        /\ Distinct(PositionsWith(q), Columns(b))
    BY <1>0, <1>1, <1>6 DEF OneReorder, Tidy
  <2>2. Positions' = PositionsWith(q)
    <3> HIDE DEF q
    <3> QED  BY <1>0, <1>3 DEF Positions, PositionsWith
  <2>3. \A s \in Requests : ~ Reordering(s, b)'
    BY <1>0, <1>1, <2>1 DEF Reordering
  <2> QED  BY <1>4, <2>1, <2>2, <2>3 DEF Tidy
<1> QED  BY <1>5, <1>6

LEMMA TidyStep ==
  ASSUME Isolation = "apart", TypeOK, RequestsOK, Exclusive, OneReorder, BoardsTidy,
         [Next]_vars
  PROVE  BoardsTidy'
<1> SUFFICES ASSUME failures' = 0, NEW b \in board' \ clashed' PROVE Tidy(b)'
  BY DEF BoardsTidy
<1>0. /\ req \in [Requests -> Request] /\ list \in [Lists -> ListRow]
      /\ b \in board /\ b \in Boards
  BY Lasting DEF TypeOK
<1>1. ASSUME UNCHANGED failures, clashed \subseteq clashed' PROVE Tidy(b)
  BY <1>0, <1>1 DEF BoardsTidy
\* a step of r that changes no column
<1>2. ASSUME UNCHANGED <<list, failures, clashed>>, NEW r \in Requests,
             ~ Reordering(r, b), ~ Reordering(r, b)',
             \A s \in Requests \ {r} : req'[s] = req[s]
      PROVE  Tidy(b)'
  <2>1. Columns(b)' = Columns(b)  BY <1>2 DEF Columns, IsThere
  <2>2. \A s \in Requests : IF Reordering(s, b) THEN req'[s] = req[s] ELSE ~ Reordering(s, b)'
    BY <1>2 DEF Reordering
  <2> QED  BY <1>1, <1>2, <2>1, <2>2, SameBoard
<1>3. ASSUME UNCHANGED <<list, req, failures, clashed>> PROVE Tidy(b)'
  BY <1>1, <1>3, SameBoard DEF Columns, IsThere, Reordering
<1>4. CASE AtOnce
  <2>1. ASSUME NEW l \in Lists, NEW p, NEW c, CreateList(l, p, c) \/ PatchList(l, p, c)
        PROVE  Tidy(b)'
    <3>1. UNCHANGED failures /\ clashed \subseteq clashed'
      BY <2>1 DEF CreateList, PatchList, Put
    <3> QED  BY <1>0, <1>1, <2>1, <3>1, PutTidy
  <2>2. ASSUME NEW c \in Boards, RemoveBoard(c) PROVE Tidy(b)'
    <3>1. /\ UNCHANGED <<req, failures, clashed>> /\ board' = board \ {c}
          /\ list' = [l \in Lists |-> IF l \in Columns(c) THEN GoneList ELSE list[l]]
      BY <2>2 DEF RemoveBoard, history
    <3>2. \A l \in Lists : l \notin Columns(c) => list'[l] = list[l]  BY <3>1
    <3>3. \A l \in Columns(c) : list'[l].state = "gone"
      BY <3>1 DEF Columns, GoneList
    <3>4. \A l \in Columns(b)' : l \in Columns(b) /\ list'[l] = list[l]
      BY <3>2, <3>3 DEF Columns, IsThere
    <3>5. \A s \in Requests : Reordering(s, b) => list'[req[s].list] = list[req[s].list]
      BY <1>0, <3>1, <3>2, MovesOwn DEF OneReorder, Columns
    <3> QED  BY <1>1, <3>1, <3>4, <3>5, SameBoard DEF Reordering
  <2> QED
    BY <1>3, <1>4, <2>1, <2>2 DEF AtOnce, CreateLabel, RemoveComment, history
<1>5. ASSUME NEW r \in Requests, Accept(r) PROVE Tidy(b)'
  <2>1. UNCHANGED <<failures, clashed>>
    BY <1>5, Accepted DEF Begin, history
  <2> QED  BY <1>1, <1>5, <2>1, BeginTidy
<1>6. ASSUME NEW r \in Requests, Advance(r) PROVE Tidy(b)'
  <2>1. CASE ShiftColumns(r)
    BY <1>0, <1>1, <2>1, ShiftTidy DEF ShiftColumns, history
  <2>2. CASE SetColumn(r)
    BY <1>0, <1>1, <2>2, SetTidy DEF SetColumn, history
  <2>3. CASE DeleteList(r)
    <3>1. /\ UNCHANGED <<failures, clashed>> /\ req[r].list \in Lists
          /\ list' = [list EXCEPT ![req[r].list] = GoneList] /\ req[r].pc = "deleteList"
      BY <2>3 DEF DeleteList, RequestsOK, RequestOK, history
    <3>2. \A s \in Requests \ {r} : req'[s] = req[s]
      BY <1>0, <2>3, DoneReq DEF DeleteList
    <3>3. ~ Reordering(r, b) /\ ~ Reordering(r, b)'
      BY <1>0, <2>3, <3>1, DoneReq, IdleType DEF DeleteList, Reordering
    <3>4. \A l \in Lists : l # req[r].list => list'[l] = list[l]  BY <1>0, <3>1
    <3>5. list'[req[r].list].state = "gone"  BY <1>0, <3>1 DEF GoneList
    <3>6. \A l \in Columns(b)' : l \in Columns(b) /\ list'[l] = list[l]
      BY <3>4, <3>5 DEF Columns, IsThere
    <3>7. ASSUME NEW s \in Requests, Reordering(s, b)
          PROVE  req'[s] = req[s] /\ list'[req[s].list] = list[req[s].list]
      <4>1. s # r /\ InFlight(r) /\ req[r].list \in ListsOf(req[r])
        BY <3>1, <3>3, <3>7, ContentsAssumption DEF InFlight, ListsOf
      <4>2. InFlight(s) /\ req[s].list \in Lists /\ req[s].list \in ListsOf(req[s])
        BY <3>7, MovesOwn
      <4> QED  BY <3>2, <3>4, <4>1, <4>2 DEF Exclusive
    <3>8. \A s \in Requests : ~ Reordering(s, b) => ~ Reordering(s, b)'
      BY <3>2, <3>3 DEF Reordering
    <3> QED  BY <1>1, <3>1, <3>6, <3>7, <3>8, SameBoard
  <2>4. CASE ~ ShiftColumns(r) /\ ~ SetColumn(r) /\ ~ DeleteList(r)
    <3>1. UNCHANGED <<list, failures, clashed>> /\ ~ Reordering(r, b)
      <4>1. CASE Refuse(r)
        <5>1. req[r].pc # "shift" /\ (req[r].pc = "set" => ~ IsThere(req[r].list))
          BY <4>1 DEF Refuse
        <5>2. ~ Reordering(r, b)  BY <1>0, <5>1 DEF OneReorder, Reordering
        <5> QED  BY <4>1, <5>2 DEF Refuse, tables, history
      <4>2. CASE ~ Refuse(r)
        <5> USE DEF Advance, ReadTasks, Unlabel, Unlog, DeleteTasks, InsertTask, ChangeTask,
                    MoveTask, DeleteTask, WriteLog, UnlabelAll, DeleteLabel, Attach, Detach,
                    InsertComment, tables, history
        <5>1. UNCHANGED <<list, failures, clashed>>  BY <1>6, <2>4, <4>2
        <5>2. req[r].pc \notin {"shift", "set"}  BY <1>6, <2>4, <4>2
        <5> QED  BY <5>1, <5>2 DEF Reordering
      <4> QED  BY <4>1, <4>2
    <3>2. ~ Reordering(r, b)' /\ \A s \in Requests \ {r} : req'[s] = req[s]
      BY <1>6, <2>4, OthersReorder
    <3> QED  BY <1>2, <3>1, <3>2
  <2> QED  BY <2>1, <2>2, <2>3, <2>4
<1>7. ASSUME NEW r \in Requests, Fail(r) PROVE FALSE
  BY <1>7 DEF Fail, TypeOK
<1>8. CASE UNCHANGED vars
  BY <1>3, <1>8 DEF vars, tables, history
<1> QED
  BY <1>4, <1>5, <1>6, <1>7, <1>8 DEF Next

LEMMA TidyInit == Init => OneReorder /\ BoardsTidy
<1> SUFFICES ASSUME Init PROVE OneReorder /\ BoardsTidy
  OBVIOUS
<1>1. \A r \in Requests : \A b : ~ Reordering(r, b)
  BY IdleType DEF Init, Reordering
<1>2. \A b : Columns(b) = {}  BY DEF Init, Columns, IsThere, GoneList
<1> QED  BY <1>1, <1>2 DEF OneReorder, BoardsTidy, Tidy, Distinct

(***************************************************************************)
(* As long as requests are about different columns and a board is          *)
(* reordered by one handler at a time, two columns of a board share a      *)
(* position only after a client has sent one that was taken: whatever      *)
(* integers updatePosition is given, its two statements keep the columns   *)
(* apart, and so does every other handler.                                 *)
(***************************************************************************)
THEOREM ColumnsStayApart ==
  ASSUME Isolation = "apart"
  PROVE  Spec => []ColumnsApart
<1> DEFINE Inv == TypeOK /\ RequestsOK /\ ApartInv /\ OneReorder /\ BoardsTidy
<1>1. Init => Inv  BY TypeInit, ApartInit, TidyInit
<1>2. Inv /\ [Next]_vars => Inv'
  BY TypeStep, ApartStep, OneReorderStep, TidyStep DEF ApartInv
<1>3. Inv => ColumnsApart
  <2> SUFFICES ASSUME Inv, failures = 0, NEW b \in board \ clashed,
                      \A r \in Requests : ~ (req[r].pc = "set" /\ req[r].board = b),
                      NEW k \in Columns(b), NEW l \in Columns(b),
                      list[k].position = list[l].position
               PROVE  k = l
    BY DEF ColumnsApart
  <2>1. Distinct(Positions, Columns(b))
    BY DEF BoardsTidy, Tidy, Reordering
  <2> QED  BY <2>1 DEF Distinct, Positions, Columns
<1> HIDE DEF Inv
<1> QED  BY <1>1, <1>2, <1>3, PTL DEF Spec

=============================================================================
