--------------------------- MODULE TaskBoardProofs ---------------------------
(***************************************************************************)
(* Proofs about TaskBoard, for every set of tasks, lists and requests.     *)
(***************************************************************************)
EXTENDS TaskBoard, FiniteSetTheorems, TLAPS

(***************************************************************************)
(* What an updateMany on positions leaves of a table: the rows keep all    *)
(* their columns but the position, and rows that are not live keep that    *)
(* one too.                                                                *)
(***************************************************************************)
LEMMA UpdateManyRows ==
  ASSUME NEW rows \in [Tasks -> TaskRow], NEW l, NEW where, NEW d \in Int
  PROVE  LET new == UpdateMany(rows, l, where, d) IN
         /\ new \in [Tasks -> TaskRow]
         /\ \A t \in Tasks :
              /\ new[t].state = rows[t].state
              /\ new[t].list = rows[t].list
              /\ new[t].status = rows[t].status
              /\ new[t].completed = rows[t].completed
              /\ rows[t].state # "live" => new[t] = rows[t]
              /\ \/ new[t].position = rows[t].position
                 \/ rows[t].position \in where /\ new[t].position = rows[t].position + d
BY DEF UpdateMany, TaskRow

(***************************************************************************)
(* Counting the live tasks of a list gives a natural number.               *)
(***************************************************************************)
LEMMA LiveCount == ASSUME NEW l PROVE Cardinality(Live(l)) \in Nat
<1>1. Live(l) \subseteq Tasks
  BY DEF Live
<1>2. IsFiniteSet(Live(l))
  BY <1>1, FS_Subset, ValueAssumption
<1> QED
  BY <1>2, FS_CardinalityType

-----------------------------------------------------------------------------
(* Type correctness *)

LEMMA InitType == Init => TypeOK
BY ValueAssumption
DEF Init, TypeOK, RowOK, RequestOK, TaskRow, NoRow, LogRow, Entry, Request, Idle

(***************************************************************************)
(* A handler that begins with what its first statement needs is well       *)
(* formed, and nothing else changes.                                       *)
(***************************************************************************)
LEMMA BeginType ==
  ASSUME TypeOK, NEW r \in Requests, NEW q \in Request, RequestOK(q), Begin(r, q)
  PROVE  TypeOK'
BY DEF Begin, TypeOK, RowOK, RequestOK

LEMMA IdleType ==
  /\ Idle \in Request /\ Idle.pc = "idle" /\ Idle.task = None
  /\ Idle.seen = NoRow /\ Idle.position = 0
BY DEF Idle, Request, NoRow, TaskRow, Entry, LogRow

\* the row a handler reads first, in the record it keeps of it
LEMMA ReadType ==
  ASSUME TypeOK, NEW t \in Tasks, Found(t)
  PROVE  /\ Read(t) \in Request
         /\ Read(t).task = t /\ Read(t).seen = row[t]
         /\ Read(t).position = 0
         /\ row[t].list \in Lists /\ row[t].status \in Status
BY IdleType DEF TypeOK, RowOK, Found, Read, Request

\* what a client may send
LEMMA PositionsAboveLowest ==
  ASSUME NEW t, NEW l, NEW p \in PositionsFor(t, l)
  PROVE  /\ p \in Int /\ p >= LowestPosition
         /\ ClientsInRange => p \in Nat
<1>1. Live(l) \ {t} \subseteq Tasks
  BY DEF Live
<1>2. Cardinality(Live(l) \ {t}) \in Nat
  BY <1>1, FS_Subset, FS_CardinalityType, ValueAssumption
<1> QED
  BY <1>2, BoundAssumption DEF PositionsFor

LEMMA AcceptType ==
  ASSUME TypeOK, NEW r \in Requests, Accept(r)
  PROVE  TypeOK'
<1>1. ASSUME NEW l \in Lists, NEW s \in Status, BeginCreate(r, l, s)
      PROVE  TypeOK'
  <2> DEFINE q == [Idle EXCEPT !.pc = "create", !.list = l, !.status = s,
                               !.position = Cardinality(Live(l))]
  <2>1. Begin(r, q)
    BY <1>1 DEF q, BeginCreate
  <2>2. /\ q \in Request
        /\ q.pc = "create" /\ q.list = l /\ q.status = s
    <3>1. Cardinality(Live(l)) \in Int
      BY LiveCount
    <3> QED
      BY <3>1, IdleType DEF q, Request
  <2> HIDE DEF q
  <2>3. RequestOK(q)
    BY <2>2 DEF RequestOK
  <2> QED
    BY <2>1, <2>2, <2>3, BeginType
<1>2. ASSUME NEW t \in Tasks, NEW s \in Status \cup {None}, NEW l \in UpdateLists \cup {None},
             BeginUpdate(r, t, s, l)
      PROVE  TypeOK'
  <2> DEFINE q == [Read(t) EXCEPT !.pc = "update", !.status = s, !.list = l]
  <2>1. Found(t) /\ Begin(r, q)
    BY <1>2 DEF q, BeginUpdate
  <2>2. /\ q \in Request
        /\ q.pc = "update" /\ q.task = t /\ q.seen = row[t]
    <3>1. l \in Lists \cup {None}
      BY ValueAssumption
    <3>2. Read(t) \in Request /\ Read(t).task = t /\ Read(t).seen = row[t]
      BY <2>1, ReadType
    <3> QED
      BY <3>1, <3>2 DEF q, Request
  <2> HIDE DEF q
  <2>3. RequestOK(q)
    BY <2>1, <2>2, ReadType DEF RequestOK, Found
  <2> QED
    BY <2>1, <2>2, <2>3, BeginType
<1>3. ASSUME NEW t \in Tasks, NEW p \in PositionsFor(t, row[t].list),
             BeginUpdatePosition(r, t, p)
      PROVE  TypeOK'
  <2> DEFINE first == IF p = row[t].position THEN "set" ELSE "shift"
             q == [Read(t) EXCEPT !.pc = first, !.position = p]
  <2>1. Found(t) /\ Begin(r, q)
    BY <1>3 DEF q, first, BeginUpdatePosition
  <2>2. first \in {"set", "shift"} /\ p \in Int
    BY PositionsAboveLowest DEF first
  <2> HIDE DEF first
  <2>3. /\ q \in Request
        /\ q.pc \in {"set", "shift"} /\ q.task = t /\ q.seen = row[t]
    <3>1. Read(t) \in Request /\ Read(t).task = t /\ Read(t).seen = row[t]
      BY <2>1, ReadType
    <3>2. q \in Request
      BY <2>2, <3>1 DEF q, Request
    <3>3. q.pc = first /\ q.task = t /\ q.seen = row[t]
      BY <3>1 DEF q, Request
    <3> QED
      BY <2>2, <3>2, <3>3
  <2> HIDE DEF q
  <2>4. RequestOK(q)
    BY <2>1, <2>3, ReadType DEF RequestOK, Found
  <2> QED
    BY <2>1, <2>3, <2>4, BeginType
<1>4. ASSUME NEW t \in Tasks, BeginRemove(r, t)
      PROVE  TypeOK'
  <2> DEFINE q == [Read(t) EXCEPT !.pc = "remove"]
  <2>1. Found(t) /\ Begin(r, q)
    BY <1>4 DEF q, BeginRemove
  <2>2. /\ q \in Request
        /\ q.pc = "remove" /\ q.task = t /\ q.seen = row[t]
    BY <2>1, ReadType DEF q, Request
  <2> HIDE DEF q
  <2>3. RequestOK(q)
    BY <2>1, <2>2, ReadType DEF RequestOK, Found
  <2> QED
    BY <2>1, <2>2, <2>3, BeginType
<1>5. ASSUME NEW t \in Tasks, NEW l \in Lists, NEW p \in PositionsFor(t, l),
             BeginMove(r, t, l, p)
      PROVE  TypeOK'
  <2> DEFINE q == [Read(t) EXCEPT !.pc = "move", !.list = l, !.position = p]
  <2>1. Found(t) /\ Begin(r, q)
    BY <1>5 DEF q, BeginMove
  <2>2. /\ q \in Request
        /\ q.pc = "move" /\ q.task = t /\ q.seen = row[t] /\ q.list = l
    BY <2>1, ReadType, PositionsAboveLowest DEF q, Request
  <2> HIDE DEF q
  <2>3. RequestOK(q)
    BY <2>1, <2>2, ReadType DEF RequestOK, Found
  <2> QED
    BY <2>1, <2>2, <2>3, BeginType
<1> QED
  BY <1>1, <1>2, <1>3, <1>4, <1>5 DEF Accept

(***************************************************************************)
(* A handler that commits its write and goes on to its log row leaves      *)
(* everything well formed when the table it leaves is, and when no row     *)
(* disappears from it.                                                     *)
(***************************************************************************)
LEMMA CommitType ==
  ASSUME TypeOK, NEW r \in Requests, NEW t \in Tasks, NEW entry \in LogRow,
         entry.action \in LogAction, req[r].pc # "idle",
         row' \in [Tasks -> TaskRow], \A u \in Tasks : RowOK(u)',
         \A u \in Tasks : row[u].state # "absent" => row'[u].state # "absent",
         row'[t].state # "absent",
         ThenLog(r, t, entry), UNCHANGED <<audit, failures>>
  PROVE  TypeOK'
<1> DEFINE next == [Idle EXCEPT !.pc = "log", !.task = t, !.entry = entry]
<1>1. req' = [req EXCEPT ![r] = next]
  BY DEF next, ThenLog
<1>2. /\ next \in Request
      /\ next.pc = "log" /\ next.task = t /\ next.entry = entry
  BY IdleType DEF next, Request
<1> HIDE DEF next
<1>3. RequestOK(next)'
  BY <1>2 DEF RequestOK
<1>4. ASSUME NEW q \in Requests, q # r
      PROVE  RequestOK(req[q])'
  BY <1>1, <1>4 DEF TypeOK, RequestOK, Request
<1> QED
  BY <1>1, <1>2, <1>3, <1>4 DEF TypeOK

(***************************************************************************)
(* The part of TypeOK that is about one table; an updateMany keeps it, and *)
(* no row leaves the table.                                                *)
(***************************************************************************)
TableOK(rows) ==
  /\ rows \in [Tasks -> TaskRow]
  /\ \A t \in Tasks :
       IF rows[t].state = "absent" THEN rows[t] = NoRow
       ELSE rows[t].list \in Lists /\ rows[t].status \in Status

SameRows(old, new) ==
  \A t \in Tasks : old[t].state # "absent" <=> new[t].state # "absent"

LEMMA TypeOKTable == TypeOK => TableOK(row)
BY DEF TypeOK, TableOK, RowOK

LEMMA UpdateManyType ==
  ASSUME NEW rows, TableOK(rows), NEW l, NEW where, NEW d \in Int
  PROVE  /\ TableOK(UpdateMany(rows, l, where, d))
         /\ SameRows(rows, UpdateMany(rows, l, where, d))
<1> DEFINE new == UpdateMany(rows, l, where, d)
<1>1. rows \in [Tasks -> TaskRow]
  BY DEF TableOK
<1>2. /\ new \in [Tasks -> TaskRow]
      /\ \A t \in Tasks :
           /\ new[t].state = rows[t].state
           /\ new[t].list = rows[t].list
           /\ new[t].status = rows[t].status
           /\ rows[t].state # "live" => new[t] = rows[t]
  BY <1>1, UpdateManyRows
<1> HIDE DEF new
<1>3. TableOK(new) /\ SameRows(rows, new)
  BY <1>2 DEF TableOK, SameRows
<1> QED
  BY <1>3 DEF new

\* a row of the table is replaced by a row that is there
LEMMA PutRowType ==
  ASSUME NEW rows, TableOK(rows), NEW t \in Tasks, NEW new \in TaskRow,
         new.state # "absent", new.list \in Lists, new.status \in Status
  PROVE  /\ TableOK([rows EXCEPT ![t] = new])
         /\ rows[t].state # "absent" => SameRows(rows, [rows EXCEPT ![t] = new])
BY DEF TableOK, SameRows

\* CommitType, stated with tables
LEMMA CommitTableType ==
  ASSUME TypeOK, NEW r \in Requests, NEW t \in Tasks, NEW entry \in LogRow,
         entry.action \in LogAction, req[r].pc # "idle",
         TableOK(row'),
         \A u \in Tasks : row[u].state # "absent" => row'[u].state # "absent",
         row'[t].state # "absent",
         ThenLog(r, t, entry), UNCHANGED <<audit, failures>>
  PROVE  TypeOK'
<1>1. row' \in [Tasks -> TaskRow] /\ \A u \in Tasks : RowOK(u)'
  BY DEF TableOK, RowOK
<1> QED
  BY <1>1, CommitType

\* the facts about a handler past its first await that its write relies on
LEMMA HandlerType ==
  ASSUME TypeOK, NEW r \in Requests
  PROVE  /\ req[r] \in Request /\ RequestOK(req[r])
         /\ req[r].position \in Int /\ req[r].seen.position \in Int
         /\ req[r].pc \notin {"idle", "create"} =>
              req[r].task \in Tasks /\ row[req[r].task].state # "absent"
BY DEF TypeOK, RequestOK, Request, TaskRow

\* the log entries without status
LEMMA EntryType == \A a \in LogAction : Entry(a) \in LogRow /\ Entry(a).action = a
BY DEF Entry, LogRow

LEMMA CreateInsertType ==
  ASSUME TypeOK, NEW r \in Requests, CreateInsert(r)
  PROVE  TypeOK'
<1>1. PICK t \in Tasks :
        /\ row[t].state = "absent"
        /\ row' = [row EXCEPT ![t] = CreatedRow(req[r])]
        /\ ThenLog(r, t, Entry("TASK_CREATED"))
  BY DEF CreateInsert
<1>2. req[r].pc = "create" /\ req[r].list \in Lists /\ req[r].status \in Status
      /\ req[r].position \in Int
  BY HandlerType DEF CreateInsert, RequestOK
<1>3. CreatedRow(req[r]) \in TaskRow
  BY <1>2 DEF CreatedRow, TaskRow
<1>4. /\ CreatedRow(req[r]).state = "live"
      /\ CreatedRow(req[r]).list \in Lists /\ CreatedRow(req[r]).status \in Status
  BY <1>2 DEF CreatedRow
<1>5. TableOK(row')
  BY <1>1, <1>3, <1>4, TypeOKTable, PutRowType
<1>6. row'[t].state = "live" /\ \A u \in Tasks \ {t} : row'[u] = row[u]
  BY <1>1, <1>4 DEF TypeOK
<1>7. "TASK_CREATED" \in LogAction
  BY DEF LogAction
<1> QED
  BY <1>1, <1>2, <1>5, <1>6, <1>7, EntryType, CommitTableType DEF CreateInsert

\* the status automation of update chooses a list that is there
LEMMA UpdatedListType ==
  ASSUME NEW q \in Request, row[q.task].list \in Lists
  PROVE  UpdatedList(q) \in Lists
<1>1. SyncedList(q) \subseteq Lists
  BY DEF SyncedList, ColumnsFor
<1>2. q.list # None => q.list \in Lists
  BY DEF Request
<1> QED
  BY <1>1, <1>2 DEF UpdatedList

LEMMA UpdateWriteType ==
  ASSUME TypeOK, NEW r \in Requests, UpdateWrite(r)
  PROVE  TypeOK'
<1> DEFINE q == req[r]
<1>1. q.pc = "update" /\ q \in Request /\ q.task \in Tasks
  BY HandlerType DEF UpdateWrite
<1>2. /\ row[q.task] \in TaskRow /\ row[q.task].state # "absent"
      /\ row[q.task].list \in Lists /\ row[q.task].status \in Status
  BY <1>1, HandlerType DEF TypeOK, RowOK
<1>3. UpdatedList(q) \in Lists
  BY <1>1, <1>2, UpdatedListType
<1>4. /\ UpdatedRow(q) \in TaskRow
      /\ UpdatedRow(q).state = row[q.task].state
      /\ UpdatedRow(q).list \in Lists /\ UpdatedRow(q).status \in Status
  <2>1. q.status \in Status \cup {None}
    BY <1>1 DEF Request
  <2> HIDE DEF q
  <2> QED
    BY <1>2, <1>3, <2>1 DEF UpdatedRow, TaskRow
<1>5. UpdateEntry(q) \in LogRow /\ UpdateEntry(q).action \in LogAction
  <2>1. q.status \in Status \cup {None}
    BY <1>1 DEF Request
  <2> HIDE DEF q
  <2> QED
    BY <2>1 DEF UpdateEntry, Entry, LogRow, LogAction, StatusChanging
<1>6. row' = [row EXCEPT ![q.task] = UpdatedRow(q)] /\ ThenLog(r, q.task, UpdateEntry(q))
      /\ UNCHANGED <<audit, failures>>
  BY DEF UpdateWrite
<1> HIDE DEF q
<1>7. TableOK(row')
  BY <1>1, <1>2, <1>4, <1>6, TypeOKTable, PutRowType
<1>8. row'[q.task].state # "absent" /\ \A u \in Tasks \ {q.task} : row'[u] = row[u]
  BY <1>1, <1>2, <1>4, <1>6 DEF TypeOK
<1>9. req[r].pc # "idle"
  BY DEF UpdateWrite
<1> QED
  BY <1>1, <1>5, <1>6, <1>7, <1>8, <1>9, CommitTableType

(***************************************************************************)
(* The two statements of updatePosition.                                   *)
(***************************************************************************)
LEMMA ShiftedRowsType ==
  ASSUME TypeOK, NEW q \in Request
  PROVE  TableOK(ShiftedRows(q)) /\ SameRows(row, ShiftedRows(q))
BY TypeOKTable, UpdateManyType DEF ShiftedRows

\* a handler that only changes its program counter, or ends, on a table that keeps its rows
LEMMA StepType ==
  ASSUME TypeOK, NEW r \in Requests, NEW q \in Request,
         TableOK(row'), SameRows(row, row'), RequestOK(q),
         req' = [req EXCEPT ![r] = q],
         audit' \in [Tasks -> LogRow], failures' \in Nat
  PROVE  TypeOK'
<1>1. row' \in [Tasks -> TaskRow] /\ \A t \in Tasks : RowOK(t)'
  BY DEF TableOK, RowOK
<1>2. req' \in [Requests -> Request]
  BY DEF TypeOK
<1>3. \A u \in Tasks : row[u].state # "absent" => row'[u].state # "absent"
  BY DEF SameRows
<1>4. ASSUME NEW s \in Requests
      PROVE  RequestOK(req[s])'
  BY <1>3, <1>4 DEF TypeOK, RequestOK, Request
<1> QED
  BY <1>1, <1>2, <1>4 DEF TypeOK

LEMMA ShiftOthersType ==
  ASSUME TypeOK, NEW r \in Requests, ShiftOthers(r)
  PROVE  TypeOK'
<1> DEFINE q == [req[r] EXCEPT !.pc = "set"]
<1>1. req[r] \in Request /\ req[r].pc = "shift" /\ RequestOK(req[r])
  BY HandlerType DEF ShiftOthers
<1>2. q \in Request
  BY <1>1 DEF Request
<1>3. RequestOK(q)
  BY <1>1 DEF RequestOK, Request
<1>4. TableOK(row') /\ SameRows(row, row')
  BY <1>1, ShiftedRowsType DEF ShiftOthers
<1>5. req' = [req EXCEPT ![r] = q]
  BY DEF ShiftOthers
<1>6. audit' \in [Tasks -> LogRow] /\ failures' \in Nat
  BY DEF ShiftOthers, TypeOK
<1> HIDE DEF q
<1> QED
  BY <1>2, <1>3, <1>4, <1>5, <1>6, StepType

LEMMA SetPositionType ==
  ASSUME TypeOK, NEW r \in Requests, SetPosition(r)
  PROVE  TypeOK'
<1> DEFINE t == req[r].task
           new == [row[t] EXCEPT !.position = req[r].position]
<1>1. t \in Tasks /\ row[t].state # "absent" /\ req[r].position \in Int
  BY HandlerType DEF SetPosition
<1>2. row[t] \in TaskRow /\ row[t].list \in Lists /\ row[t].status \in Status
  BY <1>1 DEF TypeOK, RowOK
<1>3. /\ new \in TaskRow
      /\ new.state = row[t].state /\ new.list \in Lists /\ new.status \in Status
  BY <1>1, <1>2 DEF TaskRow
<1>4. row' = [row EXCEPT ![t] = new]
  BY DEF SetPosition
<1>5. TableOK(row') /\ SameRows(row, row')
  <2> HIDE DEF new, t
  <2> QED
    BY <1>1, <1>3, <1>4, TypeOKTable, PutRowType
<1>6. RequestOK(Idle)
  BY IdleType DEF RequestOK
<1>7. req' = [req EXCEPT ![r] = Idle] /\ audit' = audit /\ failures' = failures
  BY DEF SetPosition
<1> QED
  BY <1>5, <1>6, <1>7, IdleType, StepType DEF TypeOK

(***************************************************************************)
(* The tables the two transactions leave.                                  *)
(***************************************************************************)
LEMMA RemovedRowsType ==
  ASSUME TypeOK, NEW q \in Request, q.task \in Tasks, row[q.task].state # "absent"
  PROVE  TableOK(RemovedRows(q)) /\ SameRows(row, RemovedRows(q))
<1> DEFINE marked == [row EXCEPT ![q.task].state = "deleted"]
           new == [row[q.task] EXCEPT !.state = "deleted"]
<1>1. row[q.task] \in TaskRow /\ row[q.task].list \in Lists /\ row[q.task].status \in Status
  BY DEF TypeOK, RowOK
<1>2. /\ new \in TaskRow /\ new.state = "deleted"
      /\ new.list \in Lists /\ new.status \in Status
  BY <1>1 DEF TaskRow
<1>3. marked = [row EXCEPT ![q.task] = new]
  OBVIOUS
<1> HIDE DEF new
<1>4. TableOK(marked) /\ SameRows(row, marked)
  <2> HIDE DEF marked
  <2> QED
    BY <1>2, <1>3, TypeOKTable, PutRowType
<1>5. RemovedRows(q) = UpdateMany(marked, q.seen.list, From(q.seen.position + 1), -1)
  BY DEF RemovedRows
<1> HIDE DEF marked
<1> QED
  BY <1>4, <1>5, UpdateManyType DEF SameRows

LEMMA MovedRowsType ==
  ASSUME TypeOK, NEW q \in Request, q.task \in Tasks, row[q.task].state # "absent",
         q.list \in Lists
  PROVE  TableOK(MovedRows(q)) /\ SameRows(row, MovedRows(q))
<1> DEFINE closed == UpdateMany(row, q.seen.list, From(q.seen.position + 1), -1)
           opened == UpdateMany(closed, q.list, From(q.position), 1)
<1>1. row[q.task] \in TaskRow /\ row[q.task].status \in Status
  BY DEF TypeOK, RowOK
<1>2. SyncStatus(q) \in Status \cup {None}
  BY ListAssumption DEF SyncStatus
<1>3. /\ MovedRow(q) \in TaskRow /\ MovedRow(q).state # "absent"
      /\ MovedRow(q).list \in Lists /\ MovedRow(q).status \in Status
  <2> DEFINE s == IF SyncStatus(q) # None THEN SyncStatus(q) ELSE row[q.task].status
             c == \/ SyncStatus(q) = DONE
                  \/ row[q.task].completed
                       /\ ~ (SyncStatus(q) # None /\ q.seen.status = DONE)
  <2>1. c \in BOOLEAN
    OBVIOUS
  <2>2. s \in Status
    BY <1>1, <1>2
  <2>3. q.position \in Int
    BY DEF Request
  <2>4. MovedRow(q) = [row[q.task] EXCEPT !.list = q.list, !.position = q.position,
                                          !.status = s, !.completed = c]
    BY DEF MovedRow
  <2> HIDE DEF s, c
  <2> DEFINE new == [row[q.task] EXCEPT !.list = q.list, !.position = q.position,
                                        !.status = s, !.completed = c]
  <2>5. new \in TaskRow /\ new.state = row[q.task].state /\ new.list = q.list /\ new.status = s
    BY <1>1, <2>1, <2>2, <2>3 DEF TaskRow
  <2> HIDE DEF new
  <2> QED
    BY <2>2, <2>4, <2>5 DEF new
<1>4. TableOK(closed) /\ SameRows(row, closed)
  BY TypeOKTable, UpdateManyType
<1>5. TableOK(opened) /\ SameRows(closed, opened)
  <2> HIDE DEF closed
  <2> QED
    BY <1>4, UpdateManyType
<1>6. MovedRows(q) = [opened EXCEPT ![q.task] = MovedRow(q)]
  BY DEF MovedRows
<1> HIDE DEF closed, opened
<1>7. opened[q.task].state # "absent"
  BY <1>4, <1>5 DEF SameRows
<1>8. TableOK(MovedRows(q)) /\ SameRows(opened, MovedRows(q))
  <2> DEFINE new == MovedRow(q)
  <2> HIDE DEF new
  <2>1. new \in TaskRow /\ new.state # "absent" /\ new.list \in Lists /\ new.status \in Status
    BY <1>3 DEF new
  <2>2. MovedRows(q) = [opened EXCEPT ![q.task] = new]
    BY <1>6 DEF new
  <2>3. /\ TableOK([opened EXCEPT ![q.task] = new])
        /\ SameRows(opened, [opened EXCEPT ![q.task] = new])
    BY <1>5, <1>7, <2>1, PutRowType
  <2> QED
    BY <2>2, <2>3
<1> QED
  BY <1>4, <1>5, <1>8 DEF SameRows

LEMMA RemoveCommitType ==
  ASSUME TypeOK, NEW r \in Requests, RemoveCommit(r)
  PROVE  TypeOK'
<1>1. req[r] \in Request /\ req[r].task \in Tasks /\ row[req[r].task].state # "absent"
  BY HandlerType DEF RemoveCommit
<1>2. TableOK(row') /\ SameRows(row, row')
  BY <1>1, RemovedRowsType DEF RemoveCommit
<1>3. "TASK_DELETED" \in LogAction
  BY DEF LogAction
<1> QED
  BY <1>1, <1>2, <1>3, EntryType, CommitTableType DEF RemoveCommit, SameRows

LEMMA MoveCommitType ==
  ASSUME TypeOK, NEW r \in Requests, MoveCommit(r)
  PROVE  TypeOK'
<1>1. /\ req[r] \in Request /\ req[r].task \in Tasks
      /\ row[req[r].task].state # "absent" /\ req[r].list \in Lists
  BY HandlerType DEF MoveCommit, RequestOK
<1>2. TableOK(row') /\ SameRows(row, row')
  BY <1>1, MovedRowsType DEF MoveCommit
<1>3. "TASK_MOVED" \in LogAction
  BY DEF LogAction
<1> QED
  BY <1>1, <1>2, <1>3, EntryType, CommitTableType DEF MoveCommit, SameRows

\* the last two steps of a handler: its log row, or its failure
LEMMA EndType ==
  ASSUME TypeOK, NEW r \in Requests, WriteLog(r) \/ Fail(r)
  PROVE  TypeOK'
<1>1. TableOK(row') /\ SameRows(row, row')
  BY TypeOKTable DEF WriteLog, Fail, SameRows
<1>2. req' = [req EXCEPT ![r] = Idle]
  BY DEF WriteLog, Fail
<1>3. RequestOK(Idle)
  BY IdleType DEF RequestOK
<1>4. failures' \in Nat
  BY DEF WriteLog, Fail, TypeOK
<1>5. audit' \in [Tasks -> LogRow]
  <2>1. req[r].entry \in LogRow
    BY HandlerType DEF Request
  <2> QED
    BY <2>1 DEF WriteLog, Fail, TypeOK
<1> QED
  BY <1>1, <1>2, <1>3, <1>4, <1>5, IdleType, StepType

(***************************************************************************)
(* Every row and every handler is well formed in every reachable state,    *)
(* whatever the handlers of TaskService do at the same time and wherever   *)
(* they end: a live or deleted row has a list and a status, and what a     *)
(* handler is about to write is complete.                                  *)
(***************************************************************************)
LEMMA NextType == TypeOK /\ [Next]_vars => TypeOK'
<1> SUFFICES ASSUME TypeOK, [Next]_vars PROVE TypeOK'
  OBVIOUS
<1>1. CASE UNCHANGED vars
  BY <1>1 DEF vars, TypeOK, RowOK, RequestOK
<1>2. ASSUME NEW r \in Requests, Accept(r) \/ Advance(r) \/ Fail(r)
      PROVE  TypeOK'
  BY <1>2, AcceptType, CreateInsertType, UpdateWriteType, ShiftOthersType,
     SetPositionType, RemoveCommitType, MoveCommitType, EndType DEF Advance
<1> QED
  BY <1>1, <1>2 DEF Next

THEOREM TypeCorrect == Spec => []TypeOK
<1>1. Init => TypeOK
  BY InitType
<1>2. TypeOK /\ [Next]_vars => TypeOK'
  BY NextType
<1> QED
  BY <1>1, <1>2, PTL DEF Spec

-----------------------------------------------------------------------------
(* How far down the shifts may go *)

(***************************************************************************)
(* A shift by -1 only reaches positions above the one its handler read, so *)
(* the invariant needs that one above the floor too.                       *)
(***************************************************************************)
HeldAboveFloor ==
  \A r \in Requests :
    req[r].seen.position >= LowestPosition /\ req[r].position >= LowestPosition

PositionInv == TypeOK /\ ShiftsKeepFloor /\ HeldAboveFloor

AboveFloor(rows) == \A t \in Tasks : rows[t].position >= LowestPosition

\* the positions that are not below the lowest
Floor == {p \in Int : p >= LowestPosition}

LEMMA UpdateManyAboveFloor ==
  ASSUME NEW rows \in [Tasks -> TaskRow], AboveFloor(rows), NEW l, NEW where, NEW d \in Int,
         \A p \in Floor : p \in where => p + d >= LowestPosition
  PROVE  /\ UpdateMany(rows, l, where, d) \in [Tasks -> TaskRow]
         /\ AboveFloor(UpdateMany(rows, l, where, d))
<1> DEFINE new == UpdateMany(rows, l, where, d)
<1>1. /\ new \in [Tasks -> TaskRow]
      /\ \A t \in Tasks :
           \/ new[t].position = rows[t].position
           \/ rows[t].position \in where /\ new[t].position = rows[t].position + d
  BY UpdateManyRows
<1>2. \A t \in Tasks : rows[t].position \in Floor
  BY DEF AboveFloor, TaskRow, Floor
<1> HIDE DEF new
<1>3. AboveFloor(new)
  BY <1>1, <1>2 DEF AboveFloor, Floor
<1> QED
  BY <1>1, <1>3 DEF new

\* the positions a shift by -1 reaches are above a position that was read
LEMMA ShiftRanges ==
  ASSUME NEW seen \in Floor, NEW new \in Int
  PROVE  /\ \A p \in Floor : p \in From(seen + 1) => p + -1 >= LowestPosition
         /\ \A p \in Floor : p \in seen + 1 .. new => p + -1 >= LowestPosition
         /\ \A p \in Floor : p \in From(new) => p + 1 >= LowestPosition
         /\ \A p \in Floor : p \in new .. seen - 1 => p + 1 >= LowestPosition
BY BoundAssumption DEF From, Floor

(***************************************************************************)
(* What a handler remembers was in the table when it began.                *)
(***************************************************************************)
LEMMA SeenStep ==
  ASSUME PositionInv, NEW r \in Requests, Accept(r) \/ Advance(r) \/ Fail(r)
  PROVE  HeldAboveFloor'
<1> SUFFICES ASSUME NEW q, req' = [req EXCEPT ![r] = q],
                    q.seen.position >= LowestPosition, q.position >= LowestPosition
             PROVE  HeldAboveFloor'
  <2>1. req \in [Requests -> Request]
    BY DEF PositionInv, TypeOK
  <2>2. Idle.seen.position >= LowestPosition /\ Idle.position >= LowestPosition
    BY BoundAssumption DEF Idle, NoRow
  <2>3. ASSUME NEW t \in Tasks, Found(t)
        PROVE  Read(t).seen.position >= LowestPosition /\ Read(t).position >= LowestPosition
    <3>1. Read(t).seen = row[t] /\ Read(t).position = 0
      BY <2>3, ReadType DEF PositionInv
    <3> QED
      BY <3>1, BoundAssumption DEF PositionInv, ShiftsKeepFloor
  <2>4. CASE Accept(r)
    <3>1. ASSUME NEW l, NEW s, BeginCreate(r, l, s)
          PROVE  HeldAboveFloor'
      <4>1. Cardinality(Live(l)) >= LowestPosition
        BY LiveCount, BoundAssumption
      <4> DEFINE q == [Idle EXCEPT !.pc = "create", !.list = l, !.status = s,
                                   !.position = Cardinality(Live(l))]
      <4>2. req' = [req EXCEPT ![r] = q]
        BY <3>1 DEF BeginCreate, Begin
      <4>3. q.seen = Idle.seen /\ q.position = Cardinality(Live(l))
        BY DEF Idle
      <4> HIDE DEF q
      <4> QED
        BY <2>2, <4>1, <4>2, <4>3
    <3>2. ASSUME NEW t \in Tasks, NEW s, NEW l, BeginUpdate(r, t, s, l)
          PROVE  HeldAboveFloor'
      <4> DEFINE q == [Read(t) EXCEPT !.pc = "update", !.status = s, !.list = l]
      <4>1. Found(t) /\ req' = [req EXCEPT ![r] = q]
        BY <3>2 DEF BeginUpdate, Begin
      <4>2. q.seen = Read(t).seen /\ q.position = Read(t).position
        BY <4>1, ReadType DEF Request, PositionInv
      <4> HIDE DEF q
      <4> QED
        BY <2>3, <4>1, <4>2
    <3>3. ASSUME NEW t \in Tasks, NEW p \in PositionsFor(t, row[t].list),
                 BeginUpdatePosition(r, t, p)
          PROVE  HeldAboveFloor'
      <4> DEFINE first == IF p = row[t].position THEN "set" ELSE "shift"
                 q == [Read(t) EXCEPT !.pc = first, !.position = p]
      <4>1. Found(t) /\ req' = [req EXCEPT ![r] = q]
        BY <3>3 DEF BeginUpdatePosition, Begin
      <4> HIDE DEF first
      <4>2. q.seen = Read(t).seen /\ q.position = p
        BY <4>1, ReadType DEF Request, PositionInv
      <4> HIDE DEF q
      <4> QED
        BY <2>3, <4>1, <4>2, PositionsAboveLowest
    <3>4. ASSUME NEW t \in Tasks, BeginRemove(r, t)
          PROVE  HeldAboveFloor'
      <4> DEFINE q == [Read(t) EXCEPT !.pc = "remove"]
      <4>1. Found(t) /\ req' = [req EXCEPT ![r] = q]
        BY <3>4 DEF BeginRemove, Begin
      <4>2. q.seen = Read(t).seen /\ q.position = Read(t).position
        BY <4>1, ReadType DEF Request, PositionInv
      <4> HIDE DEF q
      <4> QED
        BY <2>3, <4>1, <4>2
    <3>5. ASSUME NEW t \in Tasks, NEW l, NEW p \in PositionsFor(t, l),
                 BeginMove(r, t, l, p)
          PROVE  HeldAboveFloor'
      <4> DEFINE q == [Read(t) EXCEPT !.pc = "move", !.list = l, !.position = p]
      <4>1. Found(t) /\ req' = [req EXCEPT ![r] = q]
        BY <3>5 DEF BeginMove, Begin
      <4>2. q.seen = Read(t).seen /\ q.position = p
        BY <4>1, ReadType DEF Request, PositionInv
      <4> HIDE DEF q
      <4> QED
        BY <2>3, <4>1, <4>2, PositionsAboveLowest
    <3> QED
      BY <2>4, <3>1, <3>2, <3>3, <3>4, <3>5 DEF Accept
  <2>5. CASE SetPosition(r) \/ WriteLog(r) \/ Fail(r)
    BY <2>2, <2>5 DEF SetPosition, WriteLog, Fail
  <2>6. CASE ShiftOthers(r)
    <3>1. req' = [req EXCEPT ![r] = [req[r] EXCEPT !.pc = "set"]]
      BY <2>6 DEF ShiftOthers
    <3>2. [req[r] EXCEPT !.pc = "set"].seen = req[r].seen
        /\ [req[r] EXCEPT !.pc = "set"].position = req[r].position
      BY <2>1 DEF Request
    <3> QED
      BY <3>1, <3>2 DEF PositionInv, HeldAboveFloor
  <2>7. ASSUME NEW t, NEW entry, ThenLog(r, t, entry)
        PROVE  HeldAboveFloor'
    <3> DEFINE q == [Idle EXCEPT !.pc = "log", !.task = t, !.entry = entry]
    <3>1. req' = [req EXCEPT ![r] = q]
      BY <2>7 DEF ThenLog
    <3>2. q.seen = Idle.seen /\ q.position = Idle.position
      BY DEF Idle
    <3> HIDE DEF q
    <3> QED
      BY <2>2, <3>1, <3>2
  <2>8. CASE CreateInsert(r) \/ UpdateWrite(r) \/ RemoveCommit(r) \/ MoveCommit(r)
    BY <2>7, <2>8 DEF CreateInsert, UpdateWrite, RemoveCommit, MoveCommit
  <2> QED
    BY <2>4, <2>5, <2>6, <2>8 DEF Advance
<1> QED
  BY DEF PositionInv, TypeOK, HeldAboveFloor

(***************************************************************************)
(* No write of a handler takes a position below the floor.                 *)
(***************************************************************************)
LEMMA WriteStep ==
  ASSUME PositionInv, NEW r \in Requests, Accept(r) \/ Advance(r) \/ Fail(r)
  PROVE  ShiftsKeepFloor'
<1> DEFINE q == req[r]
           old == q.seen.position
<1>1. /\ row \in [Tasks -> TaskRow] /\ AboveFloor(row)
      /\ TypeOK /\ old \in Floor /\ q.position \in Floor
  BY HandlerType
  DEF PositionInv, ShiftsKeepFloor, HeldAboveFloor, AboveFloor, TypeOK, Floor
<1>2. CASE Accept(r) \/ WriteLog(r) \/ Fail(r)
  <2>1. row' = row
    BY <1>2 DEF Accept, BeginCreate, BeginUpdate, BeginUpdatePosition, BeginRemove,
         BeginMove, Begin, WriteLog, Fail
  <2> QED
    BY <2>1 DEF PositionInv, ShiftsKeepFloor
<1>3. CASE CreateInsert(r)
  <2>1. PICK t \in Tasks : row' = [row EXCEPT ![t] = CreatedRow(q)]
    BY <1>3 DEF CreateInsert
  <2>2. CreatedRow(q).position >= LowestPosition
    BY <1>1 DEF CreatedRow, Floor
  <2> QED
    BY <1>1, <2>1, <2>2 DEF ShiftsKeepFloor, AboveFloor
<1>4. CASE UpdateWrite(r)
  <2>1. row' = [row EXCEPT ![q.task] = UpdatedRow(q)] /\ q.task \in Tasks
    BY <1>1, <1>4, HandlerType DEF UpdateWrite
  <2>2. UpdatedRow(q).position = row[q.task].position
    BY <1>1, <2>1 DEF UpdatedRow, TaskRow
  <2> HIDE DEF q
  <2> QED
    BY <1>1, <2>1, <2>2 DEF ShiftsKeepFloor, AboveFloor
<1>5. CASE ShiftOthers(r)
  <2>1. row' = ShiftedRows(q)
    BY <1>5 DEF ShiftOthers
  <2> HIDE DEF q
  <2>2. AboveFloor(ShiftedRows(q))
    BY <1>1, ShiftRanges, UpdateManyAboveFloor DEF ShiftedRows, Floor
  <2> QED
    BY <2>1, <2>2 DEF ShiftsKeepFloor, AboveFloor
<1>6. CASE SetPosition(r)
  BY <1>1, <1>6 DEF SetPosition, ShiftsKeepFloor, AboveFloor, TaskRow, Floor
<1>7. CASE RemoveCommit(r)
  <2> DEFINE marked == [row EXCEPT ![q.task].state = "deleted"]
  <2>1. row' = UpdateMany(marked, q.seen.list, From(old + 1), -1)
    BY <1>7 DEF RemoveCommit, RemovedRows
  <2>2. marked \in [Tasks -> TaskRow] /\ AboveFloor(marked)
    BY <1>1 DEF AboveFloor, TaskRow
  <2> HIDE DEF marked, q
  <2>3. AboveFloor(row')
    BY <1>1, <2>1, <2>2, ShiftRanges, UpdateManyAboveFloor DEF Floor
  <2> QED
    BY <2>3 DEF ShiftsKeepFloor, AboveFloor
<1>8. CASE MoveCommit(r)
  <2> DEFINE closed == UpdateMany(row, q.seen.list, From(old + 1), -1)
             opened == UpdateMany(closed, q.list, From(q.position), 1)
  <2>1. row' = [opened EXCEPT ![q.task] = MovedRow(q)] /\ q.task \in Tasks
    BY <1>1, <1>8, HandlerType DEF MoveCommit, MovedRows
  <2>2. closed \in [Tasks -> TaskRow] /\ AboveFloor(closed)
    BY <1>1, ShiftRanges, UpdateManyAboveFloor DEF Floor
  <2>3. AboveFloor(opened)
    <3> HIDE DEF closed
    <3> QED
      BY <1>1, <2>2, ShiftRanges, UpdateManyAboveFloor DEF Floor
  <2>4. MovedRow(q).position >= LowestPosition
    BY <1>1, <2>1 DEF MovedRow, TaskRow, Floor
  <2> HIDE DEF opened, q
  <2> QED
    BY <2>1, <2>3, <2>4 DEF ShiftsKeepFloor, AboveFloor
<1> QED
  BY <1>2, <1>3, <1>4, <1>5, <1>6, <1>7, <1>8 DEF Advance

LEMMA PositionStep == PositionInv /\ [Next]_vars => PositionInv'
<1> SUFFICES ASSUME PositionInv, [Next]_vars PROVE PositionInv'
  OBVIOUS
<1>1. TypeOK'
  BY NextType DEF PositionInv
<1>2. CASE UNCHANGED vars
  BY <1>1, <1>2 DEF vars, PositionInv, ShiftsKeepFloor, HeldAboveFloor
<1> QED
  BY <1>1, <1>2, SeenStep, WriteStep DEF Next, PositionInv

(***************************************************************************)
(* ShiftsKeepFloor for any number of tasks, lists and handlers in flight,  *)
(* at whatever await they interleave or end, and whatever the lowest       *)
(* position the clients send: every shift by -1 is limited to positions    *)
(* above one that was read.                                                *)
(***************************************************************************)
THEOREM NeverBelowLowest == Spec => []ShiftsKeepFloor
<1>1. Init => PositionInv
  BY InitType, BoundAssumption
  DEF Init, PositionInv, ShiftsKeepFloor, HeldAboveFloor, NoRow, Idle
<1>2. PositionInv /\ [Next]_vars => PositionInv'
  BY PositionStep
<1>3. PositionInv => ShiftsKeepFloor
  BY DEF PositionInv
<1> QED
  BY <1>1, <1>2, <1>3, PTL DEF Spec

-----------------------------------------------------------------------------
(***************************************************************************)
(* The status, the column and the deletion of tasks, for requests in       *)
(* flight that name different tasks. What a handler has read of its task   *)
(* is then still so when it writes, except for the position, which the     *)
(* shifts of other handlers change.                                        *)
(***************************************************************************)

Apart ==
  \A r, s \in Requests :
    r # s /\ InFlight(r) /\ InFlight(s) => req[r].task # req[s].task \/ req[r].task = None

Writing(q) == q.pc \in {"update", "shift", "set", "remove", "move"}

\* all that counts of a row but its position
Agree(a, b) ==
  a.state = b.state /\ a.list = b.list /\ a.status = b.status /\ a.completed = b.completed

StillSo == \A r \in Requests : Writing(req[r]) => Agree(row[req[r].task], req[r].seen)

\* create is about no task yet
Unnamed == \A r \in Requests : req[r].pc = "create" => req[r].task = None

ReadInv == Apart /\ StillSo /\ Unnamed

-----------------------------------------------------------------------------
(* Steps *)

LEMMA Accepted ==
  ASSUME TypeOK, NEW r \in Requests, Accept(r)
  PROVE  \E q :
           /\ Begin(r, q) /\ q.pc \notin {"idle", "log"}
           /\ Writing(q) => q.task \in Tasks /\ q.seen = row[q.task]
           /\ q.pc = "create" => q.task = None
<1>1. ASSUME NEW t \in Tasks, Found(t)
      PROVE  Read(t) \in Request /\ Read(t).task = t /\ Read(t).seen = row[t]
  BY <1>1, ReadType
<1>2. ASSUME NEW l \in Lists, NEW s \in Status, BeginCreate(r, l, s)
      PROVE  \E q : Begin(r, q) /\ q.pc = "create" /\ q.task = None
  <2> DEFINE q == [Idle EXCEPT !.pc = "create", !.list = l, !.status = s,
                               !.position = Cardinality(Live(l))]
  <2>1. q.pc = "create" /\ q.task = None  BY DEF Idle
  <2> QED  BY <1>2, <2>1 DEF BeginCreate
<1>3. ASSUME NEW t \in Tasks, NEW s, NEW l, BeginUpdate(r, t, s, l)
      PROVE  \E q : Begin(r, q) /\ q.pc = "update" /\ q.task = t /\ q.seen = row[t]
  <2> DEFINE q == [Read(t) EXCEPT !.pc = "update", !.status = s, !.list = l]
  <2>1. Begin(r, q) /\ Found(t)  BY <1>3 DEF BeginUpdate
  <2>2. q.pc = "update" /\ q.task = t /\ q.seen = row[t]  BY <1>1, <2>1 DEF Request
  <2> QED  BY <2>1, <2>2
<1>4. ASSUME NEW t \in Tasks, NEW p, BeginUpdatePosition(r, t, p)
      PROVE  \E q : Begin(r, q) /\ q.pc \in {"set", "shift"} /\ q.task = t /\ q.seen = row[t]
  <2> DEFINE first == IF p = row[t].position THEN "set" ELSE "shift"
             q == [Read(t) EXCEPT !.pc = first, !.position = p]
  <2>1. Begin(r, q) /\ Found(t) /\ first \in {"set", "shift"}
    BY <1>4 DEF BeginUpdatePosition
  <2> HIDE DEF first
  <2>2. q.pc = first /\ q.task = t /\ q.seen = row[t]  BY <1>1, <2>1 DEF Request
  <2> QED  BY <2>1, <2>2
<1>5. ASSUME NEW t \in Tasks, BeginRemove(r, t)
      PROVE  \E q : Begin(r, q) /\ q.pc = "remove" /\ q.task = t /\ q.seen = row[t]
  <2> DEFINE q == [Read(t) EXCEPT !.pc = "remove"]
  <2>1. Begin(r, q) /\ Found(t)  BY <1>5 DEF BeginRemove
  <2>2. q.pc = "remove" /\ q.task = t /\ q.seen = row[t]  BY <1>1, <2>1 DEF Request
  <2> QED  BY <2>1, <2>2
<1>6. ASSUME NEW t \in Tasks, NEW l, NEW p, BeginMove(r, t, l, p)
      PROVE  \E q : Begin(r, q) /\ q.pc = "move" /\ q.task = t /\ q.seen = row[t]
  <2> DEFINE q == [Read(t) EXCEPT !.pc = "move", !.list = l, !.position = p]
  <2>1. Begin(r, q) /\ Found(t)  BY <1>6 DEF BeginMove
  <2>2. q.pc = "move" /\ q.task = t /\ q.seen = row[t]  BY <1>1, <2>1 DEF Request
  <2> QED  BY <2>1, <2>2
<1>7. CASE \E l \in Lists, s \in Status : BeginCreate(r, l, s)
  BY <1>2, <1>7 DEF Writing
<1>8. CASE \E t \in Tasks :
             \/ \E s \in Status \cup {None}, l \in UpdateLists \cup {None} :
                  BeginUpdate(r, t, s, l)
             \/ \E p \in PositionsFor(t, row[t].list) : BeginUpdatePosition(r, t, p)
             \/ BeginRemove(r, t)
             \/ \E l \in Lists : \E p \in PositionsFor(t, l) : BeginMove(r, t, l, p)
  <2>1. \E t \in Tasks : \E q :
          /\ Begin(r, q) /\ q.pc \in {"update", "set", "shift", "remove", "move"}
          /\ q.task = t /\ q.seen = row[t]
    BY <1>3, <1>4, <1>5, <1>6, <1>8
  <2> QED  BY <2>1
<1> QED  BY <1>7, <1>8 DEF Accept

LEMMA LogReq ==
  ASSUME TypeOK, NEW r \in Requests, NEW t, NEW entry, ThenLog(r, t, entry)
  PROVE  /\ req'[r].pc = "log" /\ req'[r].task = t
         /\ \A s \in Requests \ {r} : req'[s] = req[s]
<1> DEFINE q == [Idle EXCEPT !.pc = "log", !.task = t, !.entry = entry]
<1>1. q.pc = "log" /\ q.task = t  BY DEF Idle
<1>2. req' = [req EXCEPT ![r] = q]  BY DEF ThenLog
<1> HIDE DEF q
<1> QED  BY <1>1, <1>2 DEF TypeOK

\* a handler that commits goes on with the log of the task it was about
LEMMA Advanced ==
  ASSUME TypeOK, NEW r \in Requests, Advance(r)
  PROVE  /\ InFlight(r)
         /\ \A s \in Requests \ {r} : req'[s] = req[s]
         /\ \/ req'[r].pc = "idle"
            \/ req'[r].pc = "log" /\ req'[r].task = req[r].task /\ Writing(req[r])
            \/ /\ CreateInsert(r) /\ req'[r].pc = "log"
               /\ req'[r].task \in Tasks /\ row[req'[r].task].state = "absent"
            \/ ShiftOthers(r) /\ req'[r] = [req[r] EXCEPT !.pc = "set"]
<1>1. CASE UpdateWrite(r) \/ RemoveCommit(r) \/ MoveCommit(r)
  <2>1. (\E entry : ThenLog(r, req[r].task, entry)) /\ Writing(req[r]) /\ InFlight(r)
    BY <1>1 DEF UpdateWrite, RemoveCommit, MoveCommit, Writing, InFlight
  <2> QED  BY <2>1, LogReq
<1>2. CASE CreateInsert(r)
  <2>1. PICK t \in Tasks : row[t].state = "absent" /\ \E entry : ThenLog(r, t, entry)
    BY <1>2 DEF CreateInsert
  <2>2. InFlight(r)  BY <1>2 DEF CreateInsert, InFlight
  <2> QED  BY <1>2, <2>1, <2>2, LogReq
<1>3. CASE ShiftOthers(r)
  BY <1>3 DEF ShiftOthers, TypeOK, InFlight
<1>4. CASE SetPosition(r) \/ WriteLog(r)
  BY <1>4, IdleType DEF SetPosition, WriteLog, TypeOK, InFlight
<1> QED  BY <1>1, <1>2, <1>3, <1>4 DEF Advance

(***************************************************************************)
(* What a step of r does to the rows of other tasks.                       *)
(***************************************************************************)
LEMMA OtherRows ==
  ASSUME TypeOK, NEW r \in Requests, Advance(r), NEW u \in Tasks, row[u].state # "absent"
  PROVE  /\ u # req[r].task \/ ShiftOthers(r) \/ SetPosition(r) \/ WriteLog(r)
              => Agree(row'[u], row[u])
         /\ u # req[r].task /\ row[u].state = "deleted" => row'[u] = row[u]
<1> USE DEF Agree
<1> DEFINE q == req[r]
<1>0. /\ row \in [Tasks -> TaskRow] /\ q.position \in Int /\ q.seen.position \in Int
  BY HandlerType DEF TypeOK
<1>1. CASE CreateInsert(r)
  <2>1. PICK t \in Tasks :
          row[t].state = "absent" /\ row' = [row EXCEPT ![t] = CreatedRow(req[r])]
    BY <1>1 DEF CreateInsert
  <2>2. row'[u] = row[u]  BY <1>0, <2>1
  <2> QED  BY <2>2
<1>2. CASE UpdateWrite(r)
  <2>1. row' = [row EXCEPT ![q.task] = UpdatedRow(q)] /\ q.pc = "update"
    BY <1>2 DEF UpdateWrite
  <2>2. u # q.task => row'[u] = row[u]  BY <1>0, <2>1
  <2> QED  BY <2>1, <2>2 DEF ShiftOthers, SetPosition, WriteLog
<1>3. CASE ShiftOthers(r)
  <2>1. PICK where : \E d \in {1, -1} : row' = UpdateMany(row, q.seen.list, where, d)
    BY <1>3 DEF ShiftOthers, ShiftedRows
  <2> QED  BY <1>0, <2>1, UpdateManyRows
<1>4. CASE SetPosition(r)
  <2>1. row' = [row EXCEPT ![q.task].position = q.position]  BY <1>4 DEF SetPosition
  <2> QED  BY <1>0, <2>1 DEF TaskRow
<1>5. CASE RemoveCommit(r)
  <2> DEFINE rows == [row EXCEPT ![q.task].state = "deleted"]
  <2>1. row' = UpdateMany(rows, q.seen.list, From(q.seen.position + 1), -1) /\ q.pc = "remove"
    BY <1>5 DEF RemoveCommit, RemovedRows
  <2>2. rows \in [Tasks -> TaskRow] /\ (u # q.task => rows[u] = row[u])
    BY <1>0 DEF TaskRow
  <2> HIDE DEF rows
  <2> QED
    BY <2>1, <2>2, UpdateManyRows DEF ShiftOthers, SetPosition, WriteLog
<1>6. CASE MoveCommit(r)
  <2> DEFINE closed == UpdateMany(row, q.seen.list, From(q.seen.position + 1), -1)
             opened == UpdateMany(closed, q.list, From(q.position), 1)
  <2>1. row' = [opened EXCEPT ![q.task] = MovedRow(q)] /\ q.pc = "move"
    BY <1>6 DEF MoveCommit, MovedRows
  <2>2. /\ closed \in [Tasks -> TaskRow] /\ Agree(closed[u], row[u])
        /\ row[u].state = "deleted" => closed[u] = row[u]
    BY <1>0, UpdateManyRows
  <2> HIDE DEF closed
  <2>3. /\ opened \in [Tasks -> TaskRow] /\ Agree(opened[u], row[u])
        /\ row[u].state = "deleted" => opened[u] = row[u]
    BY <2>2, UpdateManyRows
  <2> HIDE DEF opened
  <2>4. u # q.task => row'[u] = opened[u]  BY <2>1, <2>3
  <2> QED  BY <2>1, <2>3, <2>4 DEF ShiftOthers, SetPosition, WriteLog
<1>7. CASE WriteLog(r)
  BY <1>7 DEF WriteLog
<1> QED  BY <1>1, <1>2, <1>3, <1>4, <1>5, <1>6, <1>7 DEF Advance

\* only create brings a row into the table
LEMMA AbsentRows ==
  ASSUME TypeOK, NEW r \in Requests, Advance(r), ~ CreateInsert(r),
         NEW t \in Tasks, row[t].state = "absent"
  PROVE  row'[t].state = "absent"
<1>1. row[req[r].task].state # "absent"
  BY HandlerType
  DEF Advance, UpdateWrite, ShiftOthers, SetPosition, RemoveCommit, MoveCommit, WriteLog
<1>2. CASE UpdateWrite(r)
  BY <1>1, <1>2 DEF UpdateWrite, TypeOK
<1>3. CASE SetPosition(r) \/ WriteLog(r)
  BY <1>1, <1>3 DEF SetPosition, WriteLog, TypeOK
<1>4. CASE ShiftOthers(r) \/ RemoveCommit(r) \/ MoveCommit(r)
  BY <1>1, <1>4
  DEF ShiftOthers, ShiftedRows, RemoveCommit, RemovedRows, MoveCommit, MovedRows,
      UpdateMany, TypeOK
<1> QED  BY <1>2, <1>3, <1>4 DEF Advance

LEMMA ReadStep ==
  ASSUME Isolation = "task", TypeOK, ReadInv, [Next]_vars
  PROVE  ReadInv'
<1> USE DEF ReadInv
<1>1. ASSUME NEW r \in Requests, Accept(r) PROVE ReadInv'
  <2>1. PICK q : /\ Begin(r, q) /\ q.pc \notin {"idle", "log"}
                 /\ Writing(q) => q.task \in Tasks /\ q.seen = row[q.task]
                 /\ q.pc = "create" => q.task = None
    BY <1>1, Accepted
  <2>2. /\ UNCHANGED row /\ req'[r] = q
        /\ \A s \in Requests \ {r} : req'[s] = req[s]
    BY <2>1 DEF Begin, TypeOK
  <2>3. \A s \in Requests : InFlight(s) => req[s].task # q.task \/ q.task = None
    BY <2>1 DEF Begin, Isolated
  <2>4. Apart'  BY <2>2, <2>3 DEF Apart, InFlight
  <2>5. StillSo'  BY <2>1, <2>2 DEF StillSo, Writing, Agree
  <2>6. Unnamed'  BY <2>1, <2>2 DEF Unnamed
  <2> QED  BY <2>4, <2>5, <2>6
<1>2. ASSUME NEW r \in Requests, Advance(r) PROVE ReadInv'
  <2> DEFINE q == req[r]
  <2>1. /\ InFlight(r)
        /\ \A s \in Requests \ {r} : req'[s] = req[s]
        /\ \/ req'[r].pc = "idle"
           \/ req'[r].pc = "log" /\ req'[r].task = q.task /\ Writing(q)
           \/ /\ CreateInsert(r) /\ req'[r].pc = "log"
              /\ req'[r].task \in Tasks /\ row[req'[r].task].state = "absent"
           \/ ShiftOthers(r) /\ req'[r] = [q EXCEPT !.pc = "set"]
    BY <1>2, Advanced
  <2>2. \A s \in Requests : InFlight(s) /\ req[s].task # None => row[req[s].task].state # "absent"
    BY HandlerType DEF InFlight, Unnamed
  <2>3. ShiftOthers(r) => q \in Request /\ q.pc = "shift" /\ q.task \in Tasks
    BY HandlerType DEF ShiftOthers
  <2>4. Apart'
    BY <2>1, <2>2, <2>3 DEF Apart, InFlight, Request
  <2>5. ASSUME NEW s \in Requests, Writing(req[s])'
        PROVE  Agree(row'[req'[s].task], req'[s].seen)
    <3>1. CASE s # r
      <4>1. req'[s] = req[s] /\ Writing(req[s]) /\ InFlight(s)
        BY <2>1, <2>5, <3>1 DEF Writing, InFlight
      <4>2. req[s].task \in Tasks /\ row[req[s].task].state # "absent"
        BY <4>1, HandlerType DEF Writing
      <4>3. req[s].task # q.task
        BY <2>1, <3>1, <4>1, <4>2, ValueAssumption DEF Apart
      <4>4. Agree(row'[req[s].task], row[req[s].task])
        BY <1>2, <4>2, <4>3, OtherRows
      <4> QED  BY <4>1, <4>4 DEF StillSo, Agree
    <3>2. CASE s = r
      <4>1. ShiftOthers(r) /\ req'[r] = [q EXCEPT !.pc = "set"]
        BY <2>1, <2>5, <3>2 DEF Writing
      <4>2. req'[r].task = q.task /\ req'[r].seen = q.seen /\ Writing(q)
        BY <2>3, <4>1 DEF Request, Writing
      <4>3. q.task \in Tasks /\ row[q.task].state # "absent"
        BY <2>3, <4>1, HandlerType
      <4>4. Agree(row'[q.task], row[q.task])
        BY <1>2, <4>1, <4>3, OtherRows
      <4> QED  BY <3>2, <4>2, <4>4 DEF StillSo, Agree
    <3> QED  BY <3>1, <3>2
  <2>6. Unnamed'  BY <2>1, <2>3 DEF Unnamed, Request
  <2> QED  BY <2>4, <2>5, <2>6 DEF StillSo
<1>3. ASSUME NEW r \in Requests, Fail(r) PROVE ReadInv'
  <2>1. UNCHANGED row /\ req'[r] = Idle /\ \A s \in Requests \ {r} : req'[s] = req[s]
    BY <1>3 DEF Fail, TypeOK
  <2> QED  BY <2>1, IdleType DEF Apart, StillSo, Unnamed, InFlight, Writing
<1>4. CASE UNCHANGED vars
  BY <1>4 DEF vars, Apart, StillSo, Unnamed, InFlight
<1> QED  BY <1>1, <1>2, <1>3, <1>4 DEF Next

LEMMA ReadInit == Init => ReadInv
BY IdleType DEF Init, ReadInv, Apart, StillSo, Unnamed, InFlight, Writing

-----------------------------------------------------------------------------
(* What the writes leave *)

\* what a handler has read of its task, as it is when it writes
LEMMA ReadRow ==
  ASSUME TypeOK, ReadInv, NEW r \in Requests, Writing(req[r])
  PROVE  LET q == req[r] IN
         /\ q \in Request /\ q.task \in Tasks /\ row[q.task] \in TaskRow
         /\ row[q.task].state = "live"
         /\ row[q.task].list = q.seen.list /\ row[q.task].status = q.seen.status
         /\ row[q.task].completed = q.seen.completed
         /\ q.seen.list \in Lists /\ q.seen.status \in Status
BY HandlerType DEF ReadInv, StillSo, Agree, Writing, RequestOK, TypeOK

LEMMA Updated ==
  ASSUME TypeOK, NEW r \in Requests, UpdateWrite(r)
  PROVE  /\ req[r].task \in Tasks /\ row'[req[r].task] = UpdatedRow(req[r])
         /\ Writing(req[r])
BY HandlerType DEF UpdateWrite, TypeOK, Writing

LEMMA Moved ==
  ASSUME TypeOK, NEW r \in Requests, MoveCommit(r)
  PROVE  /\ req[r].task \in Tasks /\ row'[req[r].task] = MovedRow(req[r])
         /\ Writing(req[r]) /\ req[r].list \in Lists
<1> DEFINE q == req[r]
           closed == UpdateMany(row, q.seen.list, From(q.seen.position + 1), -1)
           opened == UpdateMany(closed, q.list, From(q.position), 1)
<1>1. /\ q.task \in Tasks /\ q.position \in Int /\ q.seen.position \in Int
      /\ Writing(q) /\ q.list \in Lists
  BY HandlerType DEF MoveCommit, Writing, RequestOK
<1>2. closed \in [Tasks -> TaskRow]
  BY UpdateManyRows DEF TypeOK
<1> HIDE DEF closed
<1>3. opened \in [Tasks -> TaskRow]
  BY <1>2, UpdateManyRows
<1>4. row' = [opened EXCEPT ![q.task] = MovedRow(q)]
  BY DEF MoveCommit, MovedRows, opened, closed
<1> HIDE DEF opened
<1> QED  BY <1>1, <1>3, <1>4

LEMMA Removed ==
  ASSUME TypeOK, NEW r \in Requests, RemoveCommit(r)
  PROVE  req[r].task \in Tasks /\ row'[req[r].task].state = "deleted"
<1> DEFINE rows == [row EXCEPT ![req[r].task].state = "deleted"]
<1>1. req[r].task \in Tasks  BY HandlerType DEF RemoveCommit
<1>2. row' = UpdateMany(rows, req[r].seen.list, From(req[r].seen.position + 1), -1)
  BY DEF RemoveCommit, RemovedRows
<1>3. rows \in [Tasks -> TaskRow] /\ rows[req[r].task].state = "deleted"
  BY <1>1 DEF TypeOK, TaskRow
<1> HIDE DEF rows
<1> QED  BY <1>1, <1>2, <1>3, UpdateManyRows

\* which action a commit is
LEMMA CommitStep ==
  ASSUME TypeOK, [Next]_vars, NEW r \in Requests, NEW pc \in {"update", "move"}, Commits(r, pc)
  PROVE  (pc = "update" => UpdateWrite(r)) /\ (pc = "move" => MoveCommit(r))
<1>1. req[r].pc = pc /\ req'[r].pc = "log"  BY DEF Commits
<1>2. ASSUME NEW s \in Requests, Accept(s) \/ Fail(s) PROVE FALSE
  <2>1. CASE Accept(s)
    <3>1. PICK q : Begin(s, q) /\ q.pc \notin {"idle", "log"}  BY <2>1, Accepted
    <3> QED  BY <1>1, <3>1 DEF Begin, TypeOK
  <2>2. CASE Fail(s)
    BY <1>1, <2>2, IdleType DEF Fail, TypeOK
  <2> QED  BY <1>2, <2>1, <2>2
<1>3. ASSUME NEW s \in Requests, Advance(s), s # r PROVE FALSE
  BY <1>1, <1>3, Advanced
<1>4. CASE Advance(r)
  BY <1>1, <1>4
  DEF Advance, CreateInsert, UpdateWrite, ShiftOthers, SetPosition, RemoveCommit,
      MoveCommit, WriteLog
<1>5. CASE UNCHANGED vars  BY <1>1, <1>5 DEF vars
<1> QED  BY <1>2, <1>3, <1>4, <1>5 DEF Next

-----------------------------------------------------------------------------
(* The completion date *)

LEMMA CompletedStep ==
  ASSUME TypeOK, ReadInv, CompletedIffDone, [Next]_vars
  PROVE  CompletedIffDone'
<1> SUFFICES ASSUME NEW t \in Tasks, row'[t].state = "live"
             PROVE  row'[t].completed <=> row'[t].status = DONE
  BY DEF CompletedIffDone
<1>1. CASE UNCHANGED row  BY <1>1 DEF CompletedIffDone
<1>2. ASSUME NEW r \in Requests, Advance(r) PROVE row'[t].completed <=> row'[t].status = DONE
  <2> DEFINE q == req[r]
  <2>1. CASE CreateInsert(r)
    <3>1. PICK u \in Tasks : row[u].state = "absent" /\ row' = [row EXCEPT ![u] = CreatedRow(q)]
      BY <2>1 DEF CreateInsert
    <3>2. t = u \/ row'[t] = row[t]  BY <3>1 DEF TypeOK
    <3>3. row'[u] = CreatedRow(q)  BY <3>1 DEF TypeOK
    <3>4. CreatedRow(q).completed <=> CreatedRow(q).status = DONE  BY DEF CreatedRow
    <3> QED  BY <3>2, <3>3, <3>4 DEF CompletedIffDone
  <2>2. CASE row[t].state # "absent" /\ Agree(row'[t], row[t])
    BY <2>2 DEF Agree, CompletedIffDone
  <2>3. CASE UpdateWrite(r) /\ t = q.task
    <3>1. row'[t] = UpdatedRow(q) /\ Writing(q)  BY <2>3, Updated
    <3>2. row[t].completed <=> row[t].status = DONE
      BY <2>3, <3>1, ReadRow DEF CompletedIffDone
    <3>3. /\ row[t] \in TaskRow /\ row[t].status = q.seen.status
          /\ row[t].completed = q.seen.completed /\ q.status \in Status \cup {None}
          /\ DONE # None
      BY <2>3, <3>1, ReadRow, ValueAssumption DEF Request
    <3>4. /\ row'[t].status = IF q.status # None THEN q.status ELSE row[t].status
          /\ row'[t].completed = (\/ StatusChanging(q) /\ q.status = DONE
                                  \/ row[t].completed
                                     /\ ~ (StatusChanging(q) /\ q.seen.status = DONE))
      BY <2>3, <3>1, <3>3 DEF UpdatedRow, TaskRow
    <3> QED  BY <3>2, <3>3, <3>4 DEF StatusChanging
  <2>4. CASE MoveCommit(r) /\ t = q.task
    <3>1. row'[t] = MovedRow(q) /\ Writing(q) /\ q.list \in Lists  BY <2>4, Moved
    <3>2. row[t].completed <=> row[t].status = DONE
      BY <2>4, <3>1, ReadRow DEF CompletedIffDone
    <3>3. /\ row[t] \in TaskRow /\ row[t].status = q.seen.status
          /\ row[t].completed = q.seen.completed /\ DONE # None
      BY <2>4, <3>1, ReadRow, ValueAssumption
    <3>4. /\ row'[t].status = IF SyncStatus(q) # None THEN SyncStatus(q) ELSE row[t].status
          /\ row'[t].completed = (\/ SyncStatus(q) = DONE
                                  \/ row[t].completed
                                     /\ ~ (SyncStatus(q) # None /\ q.seen.status = DONE))
      BY <2>4, <3>1, <3>3 DEF MovedRow, TaskRow
    <3>5. SyncStatus(q) # q.seen.status \/ SyncStatus(q) = None
      BY DEF SyncStatus
    <3> QED  BY <3>2, <3>3, <3>4, <3>5
  <2>5. CASE RemoveCommit(r) /\ t = q.task
    BY <2>5, Removed
  <2>6. CASE row[t].state = "absent" /\ ~ CreateInsert(r)
    BY <1>2, <2>6, AbsentRows
  <2> QED
    BY <1>2, <2>1, <2>2, <2>3, <2>4, <2>5, <2>6, OtherRows DEF Advance
<1> QED
  <2>1. ASSUME NEW r \in Requests, Accept(r) \/ Fail(r) PROVE UNCHANGED row
    BY <2>1, Accepted DEF Begin, Fail
  <2> QED  BY <1>1, <1>2, <2>1 DEF Next, vars

(***************************************************************************)
(* As long as requests in flight name different tasks, a live task carries *)
(* a completion date exactly when it is DONE, whatever the automations of  *)
(* update and moveTaskToList do and wherever handlers are cut off.         *)
(***************************************************************************)
THEOREM DateFollowsStatus ==
  ASSUME Isolation = "task"
  PROVE  Spec => []CompletedIffDone
<1> DEFINE Inv == TypeOK /\ ReadInv /\ CompletedIffDone
<1>1. Init => Inv
  BY InitType, ReadInit DEF Init, CompletedIffDone, NoRow
<1>2. Inv /\ [Next]_vars => Inv'  BY NextType, ReadStep, CompletedStep
<1>3. Inv => CompletedIffDone  OBVIOUS
<1> HIDE DEF Inv
<1> QED  BY <1>1, <1>2, <1>3, PTL DEF Spec

-----------------------------------------------------------------------------
(* Deleted tasks *)

LEMMA FrozenStep ==
  ASSUME TypeOK, [Next]_vars, NEW t \in Tasks, row[t].state = "deleted"
  PROVE  /\ row'[t].state = "deleted"
         /\ row'[t] = row[t] \/ \E r \in Requests : WritesById(r, t)
<1>1. ASSUME NEW r \in Requests, Advance(r)
      PROVE  /\ row'[t].state = "deleted"
             /\ row'[t] = row[t] \/ WritesById(r, t)
  <2> DEFINE q == req[r]
  <2>0. row \in [Tasks -> TaskRow]  BY DEF TypeOK
  <2>1. CASE t # q.task  BY <1>1, <2>1, OtherRows
  <2>2. CASE t = q.task
    <3>1. CASE CreateInsert(r)  BY <3>1 DEF CreateInsert, TypeOK
    <3>2. CASE ShiftOthers(r)
      <4>1. PICK where : \E d \in {1, -1} : row' = UpdateMany(row, q.seen.list, where, d)
        BY <3>2 DEF ShiftOthers, ShiftedRows
      <4> QED  BY <2>0, <4>1, UpdateManyRows
    <3>3. CASE WriteLog(r)  BY <3>3 DEF WriteLog
    <3>4. CASE UpdateWrite(r) \/ SetPosition(r) \/ RemoveCommit(r) \/ MoveCommit(r)
      <4>1. q.pc \in {"update", "set", "remove", "move"}
        BY <3>4 DEF UpdateWrite, SetPosition, RemoveCommit, MoveCommit
      <4>2. req'[r].pc \in {"log", "idle"}
        BY <1>1, <4>1, Advanced DEF ShiftOthers
      <4>3. WritesById(r, t)  BY <2>2, <4>1, <4>2 DEF WritesById
      <4>4. row'[t].state = "deleted"
        <5>1. CASE UpdateWrite(r)
          BY <2>0, <2>2, <5>1 DEF UpdateWrite, UpdatedRow, TaskRow
        <5>2. CASE SetPosition(r)
          BY <2>0, <2>2, <5>2 DEF SetPosition, TaskRow
        <5>3. CASE RemoveCommit(r)  BY <2>2, <5>3, Removed
        <5>4. CASE MoveCommit(r)
          BY <2>0, <2>2, <5>4, Moved DEF MovedRow, TaskRow
        <5> QED  BY <3>4, <5>1, <5>2, <5>3, <5>4
      <4> QED  BY <4>3, <4>4
    <3> QED  BY <1>1, <3>1, <3>2, <3>3, <3>4 DEF Advance
  <2> QED  BY <2>1, <2>2
<1>2. ASSUME NEW r \in Requests, Accept(r) \/ Fail(r) PROVE row'[t] = row[t]
  BY <1>2, Accepted DEF Begin, Fail
<1> QED  BY <1>1, <1>2 DEF Next, vars

(***************************************************************************)
(* DeletedTasksFrozen for all handlers in flight, on the same tasks or     *)
(* not: a deleted task stays deleted, no shift reaches it, and only a      *)
(* handler that found it alive writes it again.                            *)
(***************************************************************************)
THEOREM DeletedStayFrozen == Spec => DeletedTasksFrozen
<1> DEFINE Step == \A t \in Tasks : row[t].state = "deleted" =>
                     /\ row'[t].state = "deleted"
                     /\ row'[t] = row[t] \/ \E r \in Requests : WritesById(r, t)
<1>1. TypeOK /\ [Next]_vars => [Step]_vars
  <2> SUFFICES ASSUME TypeOK, [Next]_vars PROVE Step
    OBVIOUS
  <2> QED  BY FrozenStep
<1> HIDE DEF Step
<1>2. Spec => [][Step]_vars
  BY <1>1, InitType, NextType, PTL DEF Spec
<1> QED  BY <1>2 DEF DeletedTasksFrozen, Step

-----------------------------------------------------------------------------
(* Columns and statuses *)

(***************************************************************************)
(* MoveAdoptsColumnStatus for all handlers in flight: a task moved to a    *)
(* column that is mapped to a status gets that status, although the        *)
(* handler compares with a row it has read before its transaction, as long *)
(* as nobody changed the status in between.                                *)
(***************************************************************************)
THEOREM MoveAdoptsStatus == Spec => MoveAdoptsColumnStatus
<1> DEFINE Kept(r) == row[req[r].task].status = req[r].seen.status
           Step == \A r \in Requests :
                     /\ Commits(r, "move")
                     /\ ColumnStatus[req[r].list] # None
                     /\ row[req[r].task].status = req[r].seen.status
                     => row'[req[r].task].status = ColumnStatus[req[r].list]
<1>1. ASSUME TypeOK, [Next]_vars, NEW r \in Requests,
             Commits(r, "move"), ColumnStatus[req[r].list] # None, Kept(r)
      PROVE  row'[req[r].task].status = ColumnStatus[req[r].list]
  <2> DEFINE q == req[r]
  <2>1. MoveCommit(r)  BY <1>1, CommitStep
  <2>2. row'[q.task] = MovedRow(q) /\ q.task \in Tasks  BY <1>1, <2>1, Moved
  <2>3. row[q.task] \in TaskRow  BY <1>1, <2>2 DEF TypeOK
  <2>4. row'[q.task].status = IF SyncStatus(q) # None THEN SyncStatus(q)
                              ELSE row[q.task].status
    BY <2>2, <2>3 DEF MovedRow, TaskRow
  <2>5. row[q.task].status = q.seen.status /\ ColumnStatus[q.list] # None
    BY <1>1
  <2> HIDE DEF q
  <2> QED  BY <2>3, <2>4, <2>5 DEF SyncStatus, q
<1>2. TypeOK /\ [Next]_vars => [Step]_vars
  BY <1>1
<1> HIDE DEF Step
<1>3. Spec => [][Step]_vars
  BY <1>2, InitType, NextType, PTL DEF Spec
<1> QED  BY <1>3 DEF MoveAdoptsColumnStatus, Step

\* where update puts a task whose list the body does not name
LEMMA UpdatedPlace ==
  ASSUME TypeOK, ReadInv, [Next]_vars, NEW r \in Requests,
         Commits(r, "update"), req[r].list = None
  PROVE  LET q == req[r]
             columns == ColumnsFor(BoardOf[row[q.task].list], q.status)
         IN  /\ BoardOf[row'[q.task].list] = BoardOf[row[q.task].list]
             /\ q.status \notin {None, row[q.task].status} /\ columns # {}
                  => row'[q.task].list \in columns
<1> DEFINE q == req[r]
           columns == ColumnsFor(BoardOf[row[q.task].list], q.status)
<1>1. row'[q.task] = UpdatedRow(q) /\ Writing(q)
  BY CommitStep, Updated
<1>2. /\ row[q.task] \in TaskRow /\ row[q.task].status = q.seen.status
      /\ row[q.task].list = q.seen.list
  BY <1>1, ReadRow
<1>3. row'[q.task].list = UpdatedList(q)
  BY <1>1, <1>2 DEF UpdatedRow, TaskRow
<1>4. CASE SyncedList(q) # {}
  <2>1. UpdatedList(q) \in SyncedList(q)  BY <1>4 DEF UpdatedList
  <2> QED  BY <1>2, <1>3, <2>1 DEF SyncedList, ColumnsFor
<1>5. CASE SyncedList(q) = {}
  <2>1. UpdatedList(q) = q.seen.list  BY <1>2, <1>5 DEF UpdatedList
  <2> QED  BY <1>2, <1>3, <1>5, <2>1 DEF SyncedList, StatusChanging
<1> QED  BY <1>4, <1>5

(***************************************************************************)
(* As long as requests in flight name different tasks, an update of the    *)
(* status alone leaves the task in the column of the new status, if its    *)
(* board has one.                                                          *)
(***************************************************************************)
THEOREM StatusMovesTask ==
  ASSUME Isolation = "task"
  PROVE  Spec => StatusMovesToColumn
<1> DEFINE Inv == TypeOK /\ ReadInv
           Step == \A r \in Requests :
                     LET q == req[r] IN
                     /\ Commits(r, "update")
                     /\ q.list = None
                     /\ q.status \notin {None, row[q.task].status}
                     /\ ColumnsFor(BoardOf[row[q.task].list], q.status) # {}
                     => row'[q.task].list \in ColumnsFor(BoardOf[row[q.task].list], q.status)
<1>1. Init => Inv  BY InitType, ReadInit
<1>2. Inv /\ [Next]_vars => Inv' /\ [Step]_vars
  BY NextType, ReadStep, UpdatedPlace
<1> HIDE DEF Inv, Step
<1>3. Spec => [][Step]_vars
  BY <1>1, <1>2, PTL DEF Spec
<1> QED  BY <1>3 DEF StatusMovesToColumn, Step

(***************************************************************************)
(* As long as requests in flight name different tasks, an update that      *)
(* names no list leaves a task on its board.                               *)
(***************************************************************************)
THEOREM UpdatesKeepBoard ==
  ASSUME Isolation = "task"
  PROVE  Spec => AutomationKeepsBoard
<1> DEFINE Inv == TypeOK /\ ReadInv
           Step == \A r \in Requests :
                     Commits(r, "update") /\ req[r].list = None
                       => BoardOf[row'[req[r].task].list] = BoardOf[row[req[r].task].list]
<1>1. Init => Inv  BY InitType, ReadInit
<1>2. Inv /\ [Next]_vars => Inv' /\ [Step]_vars
  BY NextType, ReadStep, UpdatedPlace
<1> HIDE DEF Inv, Step
<1>3. Spec => [][Step]_vars
  BY <1>1, <1>2, PTL DEF Spec
<1> QED  BY <1>3 DEF AutomationKeepsBoard, Step

-----------------------------------------------------------------------------
(* The log *)

\* an entry tells what has become of the row of t
Recorded(t, e) ==
  /\ row[t].state = "absent" <=> e.action = None
  /\ row[t].state = "deleted" <=> e.action = "TASK_DELETED"
  /\ e.action = "TASK_STATUS_CHANGED" => row[t].status = e.to

\* so does the newest entry of a task, or the one that is about to be written
AuditInv ==
  failures = 0 =>
    /\ \A t \in Tasks :
         (\A r \in Requests : req[r].pc = "log" => req[r].task # t) => Recorded(t, audit[t])
    /\ \A r \in Requests : req[r].pc = "log" => Recorded(req[r].task, req[r].entry)

LEMMA RowsKept ==
  ASSUME TypeOK, TypeOK', NEW r \in Requests, Advance(r), NEW u \in Tasks,
         ~ (Writing(req[r]) /\ u = req[r].task),
         ~ (CreateInsert(r) /\ u = req'[r].task)
  PROVE  Agree(row'[u], row[u])
<1>1. CASE CreateInsert(r)
  <2>1. PICK t \in Tasks :
          /\ row' = [row EXCEPT ![t] = CreatedRow(req[r])]
          /\ ThenLog(r, t, Entry("TASK_CREATED"))
    BY <1>1 DEF CreateInsert
  <2>2. u # t  BY <1>1, <2>1, LogReq
  <2> QED  BY <2>1, <2>2 DEF TypeOK, Agree
<1>2. CASE ~ CreateInsert(r) /\ row[u].state # "absent"
  BY <1>2, OtherRows DEF Advance, Writing, UpdateWrite, RemoveCommit, MoveCommit
<1>3. CASE ~ CreateInsert(r) /\ row[u].state = "absent"
  <2>1. row'[u].state = "absent"  BY <1>3, AbsentRows
  <2>2. row[u] = NoRow /\ row'[u] = NoRow  BY <1>3, <2>1 DEF TypeOK, RowOK
  <2> QED  BY <2>2 DEF Agree
<1> QED  BY <1>1, <1>2, <1>3

\* the entry that a commit is about to log
LEMMA Commit ==
  ASSUME TypeOK, TypeOK', ReadInv, NEW r \in Requests,
         CreateInsert(r) \/ UpdateWrite(r) \/ RemoveCommit(r) \/ MoveCommit(r)
  PROVE  /\ req'[r].pc = "log" /\ req'[r].task \in Tasks
         /\ Recorded(req[r].task, req[r].entry)'
         /\ \A s \in Requests \ {r} : req'[s] = req[s]
         /\ UNCHANGED <<audit, failures>>
<1> DEFINE q == req[r]
<1> USE LogAssumption
<1>1. ASSUME NEW t \in Tasks, NEW e \in LogRow, ThenLog(r, t, e)
      PROVE  /\ req'[r].pc = "log" /\ req'[r].task = t /\ req'[r].entry = e
             /\ \A s \in Requests \ {r} : req'[s] = req[s]
  <2> DEFINE next == [Idle EXCEPT !.pc = "log", !.task = t, !.entry = e]
  <2>1. next.entry = e  BY DEF Idle
  <2>2. req' = [req EXCEPT ![r] = next]  BY <1>1 DEF ThenLog
  <2> HIDE DEF next
  <2> QED  BY <1>1, <2>1, <2>2, LogReq DEF TypeOK
<1>2. ASSUME NEW a \in LogAction
      PROVE  Entry(a) \in LogRow /\ Entry(a).action = a /\ a # None
  BY <1>2, EntryType
<1>3. CASE CreateInsert(r)
  <2>1. PICK t \in Tasks :
          /\ row' = [row EXCEPT ![t] = CreatedRow(q)]
          /\ ThenLog(r, t, Entry("TASK_CREATED"))
    BY <1>3 DEF CreateInsert
  <2>2. row'[t].state = "live"  BY <2>1 DEF TypeOK, CreatedRow
  <2>3. Entry("TASK_CREATED") \in LogRow /\ Entry("TASK_CREATED").action = "TASK_CREATED"
        /\ "TASK_CREATED" # None
    BY <1>2 DEF LogAction
  <2> QED  BY <1>1, <1>3, <2>1, <2>2, <2>3 DEF Recorded, CreateInsert
<1>4. CASE UpdateWrite(r)
  <2>1. q.task \in Tasks /\ row'[q.task] = UpdatedRow(q) /\ Writing(q)
    BY <1>4, Updated
  <2>2. /\ q \in Request /\ row[q.task] \in TaskRow /\ row[q.task].state = "live"
    BY <2>1, ReadRow
  <2>3. /\ row'[q.task].state = "live"
        /\ row'[q.task].status = IF q.status # None THEN q.status ELSE row[q.task].status
    BY <2>1, <2>2 DEF UpdatedRow, TaskRow
  <2>4. /\ UpdateEntry(q) \in LogRow
        /\ UpdateEntry(q).action \in {"TASK_UPDATED", "TASK_STATUS_CHANGED"}
        /\ UpdateEntry(q).action = "TASK_STATUS_CHANGED"
             => q.status # None /\ UpdateEntry(q).to = q.status
    <3>1. q.status \in Status \cup {None}  BY <2>2 DEF Request
    <3> HIDE DEF q
    <3> QED  BY <3>1 DEF UpdateEntry, Entry, LogRow, LogAction, StatusChanging
  <2>5. ThenLog(r, q.task, UpdateEntry(q)) /\ UNCHANGED <<audit, failures>>
    BY <1>4 DEF UpdateWrite
  <2> QED
    BY <1>1, <2>1, <2>3, <2>4, <2>5 DEF Recorded, LogAction
<1>5. CASE RemoveCommit(r)
  <2>1. q.task \in Tasks /\ row'[q.task].state = "deleted"  BY <1>5, Removed
  <2>2. Entry("TASK_DELETED") \in LogRow /\ Entry("TASK_DELETED").action = "TASK_DELETED"
        /\ "TASK_DELETED" # None
    BY <1>2 DEF LogAction
  <2>3. ThenLog(r, q.task, Entry("TASK_DELETED")) /\ UNCHANGED <<audit, failures>>
    BY <1>5 DEF RemoveCommit
  <2> QED  BY <1>1, <2>1, <2>2, <2>3 DEF Recorded
<1>6. CASE MoveCommit(r)
  <2>1. q.task \in Tasks /\ row'[q.task] = MovedRow(q) /\ Writing(q)  BY <1>6, Moved
  <2>2. row[q.task] \in TaskRow /\ row[q.task].state = "live"  BY <2>1, ReadRow
  <2>3. row'[q.task].state = "live"  BY <2>1, <2>2 DEF MovedRow, TaskRow
  <2>4. Entry("TASK_MOVED") \in LogRow /\ Entry("TASK_MOVED").action = "TASK_MOVED"
        /\ "TASK_MOVED" # None
    BY <1>2 DEF LogAction
  <2>5. ThenLog(r, q.task, Entry("TASK_MOVED")) /\ UNCHANGED <<audit, failures>>
    BY <1>6 DEF MoveCommit
  <2> QED  BY <1>1, <2>1, <2>3, <2>4, <2>5 DEF Recorded
<1> QED  BY <1>3, <1>4, <1>5, <1>6

LEMMA AuditStep ==
  ASSUME TypeOK, TypeOK', ReadInv, AuditInv, [Next]_vars
  PROVE  AuditInv'
<1>1. ASSUME NEW u \in Tasks, Agree(row'[u], row[u]), NEW e, Recorded(u, e)
      PROVE  Recorded(u, e)'
  BY <1>1 DEF Agree, Recorded
<1>2. ASSUME NEW r \in Requests, Accept(r) PROVE AuditInv'
  <2>1. PICK q : Begin(r, q) /\ q.pc \notin {"idle", "log"}  BY <1>2, Accepted
  <2>2. /\ UNCHANGED <<row, audit, failures>> /\ req'[r] = q /\ ~ InFlight(r)
        /\ \A s \in Requests \ {r} : req'[s] = req[s]
    BY <2>1 DEF Begin, TypeOK
  <2> QED  BY <2>1, <2>2 DEF AuditInv, Recorded, InFlight
<1>3. ASSUME NEW r \in Requests, Advance(r) PROVE AuditInv'
  <2> DEFINE q == req[r]
  <2>0. UNCHANGED failures
    BY <1>3 DEF Advance, CreateInsert, UpdateWrite, ShiftOthers, SetPosition, RemoveCommit,
                MoveCommit, WriteLog
  <2> SUFFICES ASSUME failures = 0
               PROVE  /\ \A t \in Tasks :
                           (\A s \in Requests : req'[s].pc = "log" => req'[s].task # t)
                             => Recorded(t, audit[t])'
                      /\ \A s \in Requests :
                           req'[s].pc = "log" => Recorded(req[s].task, req[s].entry)'
    BY <2>0 DEF AuditInv
  <2>1. CASE CreateInsert(r) \/ UpdateWrite(r) \/ RemoveCommit(r) \/ MoveCommit(r)
    <3>1. /\ req'[r].pc = "log" /\ req'[r].task \in Tasks
          /\ Recorded(req[r].task, req[r].entry)'
          /\ \A s \in Requests \ {r} : req'[s] = req[s]
          /\ UNCHANGED audit /\ q.pc # "log" /\ InFlight(r)
      BY <2>1, Commit
      DEF CreateInsert, UpdateWrite, RemoveCommit, MoveCommit, InFlight
    <3>2. (Writing(q) /\ req'[r].task = q.task) \/ CreateInsert(r)
      BY <1>3, <2>1, <3>1, Advanced DEF ShiftOthers, UpdateWrite, RemoveCommit, MoveCommit
    <3>3. \A u \in Tasks : u # req'[r].task => Agree(row'[u], row[u])
      <4>1. ~ (CreateInsert(r) /\ Writing(q))  BY DEF CreateInsert, Writing
      <4> QED  BY <1>3, <3>2, <4>1, RowsKept
    <3>4. ASSUME NEW t \in Tasks,
                 \A s \in Requests : req'[s].pc = "log" => req'[s].task # t
          PROVE  Recorded(t, audit[t])'
      <4>1. t # req'[r].task  BY <3>1, <3>4
      <4>2. Recorded(t, audit[t])  BY <3>1, <3>4 DEF AuditInv
      <4>3. audit'[t] = audit[t]  BY <3>1
      <4> QED  BY <3>3, <4>1, <4>2, <4>3 DEF Recorded, Agree
    <3>5. ASSUME NEW s \in Requests, s # r, req'[s].pc = "log"
          PROVE  Recorded(req[s].task, req[s].entry)'
      <4>1. req'[s] = req[s]  BY <3>1, <3>5
      <4>2. req[s].task \in Tasks /\ row[req[s].task].state # "absent"
        BY <3>5, <4>1, HandlerType
      <4>3. req[s].task # req'[r].task
        <5>1. CASE Writing(q) /\ req'[r].task = q.task
          BY <3>1, <3>5, <4>1, <4>2, <5>1, ValueAssumption DEF ReadInv, Apart, InFlight
        <5>2. CASE CreateInsert(r)
          <6>1. row[req'[r].task].state = "absent"
            BY <1>3, <3>1, <5>2, Advanced DEF CreateInsert, Writing, ShiftOthers
          <6> QED  BY <4>2, <6>1
        <5> QED  BY <3>2, <5>1, <5>2
      <4>4. Recorded(req[s].task, req[s].entry)  BY <3>5, <4>1 DEF AuditInv
      <4> QED  BY <3>3, <4>1, <4>2, <4>3, <4>4 DEF Recorded, Agree
    <3> QED  BY <3>1, <3>4, <3>5
  <2>2. CASE ShiftOthers(r) \/ SetPosition(r)
    <3>1. /\ UNCHANGED audit /\ q.pc # "log" /\ req'[r].pc # "log"
          /\ \A s \in Requests \ {r} : req'[s] = req[s]
      BY <2>2, IdleType DEF ShiftOthers, SetPosition, TypeOK, Request
    <3>2. \A u \in Tasks : Agree(row'[u], row[u])
      <4>1. ASSUME NEW u \in Tasks, row[u].state # "absent" PROVE Agree(row'[u], row[u])
        BY <1>3, <2>2, <4>1, OtherRows
      <4>2. ASSUME NEW u \in Tasks, row[u].state = "absent" PROVE Agree(row'[u], row[u])
        <5>1. q.task \in Tasks /\ row[q.task].state # "absent"
          BY <2>2, HandlerType DEF ShiftOthers, SetPosition
        <5>2. ~ CreateInsert(r)  BY <2>2 DEF ShiftOthers, SetPosition, CreateInsert
        <5> QED  BY <1>3, <4>2, <5>1, <5>2, RowsKept
      <4> QED  BY <4>1, <4>2
    <3>3. \A s \in Requests : req[s].pc = "log" => req[s].task \in Tasks
      BY HandlerType
    <3>4. ASSUME NEW t \in Tasks,
                 \A s \in Requests : req'[s].pc = "log" => req'[s].task # t
          PROVE  Recorded(t, audit[t])'
      <4>1. Recorded(t, audit[t])  BY <3>1, <3>4 DEF AuditInv
      <4> QED  BY <3>1, <3>2, <4>1 DEF Recorded, Agree
    <3>5. ASSUME NEW s \in Requests, req'[s].pc = "log"
          PROVE  Recorded(req[s].task, req[s].entry)'
      <4>1. req'[s] = req[s] /\ Recorded(req[s].task, req[s].entry)
        BY <3>1, <3>5 DEF AuditInv
      <4> QED  BY <3>2, <3>3, <3>5, <4>1 DEF Recorded, Agree
    <3> QED  BY <3>4, <3>5
  <2>3. CASE WriteLog(r)
    <3>1. /\ UNCHANGED row /\ audit' = [audit EXCEPT ![q.task] = q.entry]
          /\ req'[r].pc = "idle" /\ q.pc = "log" /\ q.task \in Tasks
          /\ \A s \in Requests \ {r} : req'[s] = req[s]
      BY <2>3, IdleType, HandlerType DEF WriteLog, TypeOK
    <3>2. Recorded(q.task, q.entry)  BY <3>1 DEF AuditInv
    <3>3. ASSUME NEW t \in Tasks,
                 \A s \in Requests : req'[s].pc = "log" => req'[s].task # t
          PROVE  Recorded(t, audit[t])'
      <4>1. CASE t = q.task
        BY <3>1, <3>2, <4>1 DEF Recorded, TypeOK
      <4>2. CASE t # q.task
        <5>1. Recorded(t, audit[t])  BY <3>1, <3>3, <4>2 DEF AuditInv
        <5> QED  BY <3>1, <4>2, <5>1 DEF Recorded, TypeOK
      <4> QED  BY <4>1, <4>2
    <3> QED  BY <3>1, <3>3 DEF AuditInv, Recorded
  <2> QED  BY <1>3, <2>1, <2>2, <2>3 DEF Advance
<1>4. ASSUME NEW r \in Requests, Fail(r) PROVE AuditInv'
  BY <1>4 DEF Fail, TypeOK, AuditInv
<1>5. CASE UNCHANGED vars
  BY <1>5 DEF vars, AuditInv, Recorded
<1> QED  BY <1>2, <1>3, <1>4, <1>5 DEF Next

(***************************************************************************)
(* As long as requests in flight name different tasks and none is cut off, *)
(* the newest log row of a task that nobody works on tells what has become *)
(* of it.                                                                  *)
(***************************************************************************)
THEOREM AuditAgrees ==
  ASSUME Isolation = "task"
  PROVE  Spec => []AuditTrailAgrees
<1> DEFINE Inv == TypeOK /\ ReadInv /\ AuditInv
<1>1. Init => Inv
  BY InitType, ReadInit, IdleType, LogAssumption
  DEF Init, AuditInv, Recorded, NoRow, Entry, LogAction
<1>2. Inv /\ [Next]_vars => Inv'  BY NextType, ReadStep, AuditStep
<1>3. Inv => AuditTrailAgrees
  BY DEF AuditInv, AuditTrailAgrees, Recorded
<1> HIDE DEF Inv
<1> QED  BY <1>1, <1>2, <1>3, PTL DEF Spec

=============================================================================
