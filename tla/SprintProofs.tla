----------------------------- MODULE SprintProofs -----------------------------
(***************************************************************************)
(* Proofs about SprintLifecycle, for every set of users, boards, sprints,  *)
(* tasks and requests.                                                     *)
(***************************************************************************)
EXTENDS SprintLifecycle, TLAPS

-----------------------------------------------------------------------------
(* Type correctness *)

\* the parts of TypeOK
SprintType == sprint \in [Sprints -> SprintRow] /\ \A s \in Sprints : SprintOK(s)
TaskType == task \in [Tasks -> TaskRow] /\ \A t \in Tasks : TaskOK(t)
BoardsType == removed \subseteq Boards /\ stray \subseteq Tasks
RequestType == req \in [Requests -> Request] /\ \A r \in Requests : RequestOK(req[r])

LEMMA TypeParts ==
  TypeOK <=> SprintType /\ TaskType /\ BoardsType /\ RequestType
BY DEF TypeOK, SprintType, TaskType, BoardsType, RequestType

LEMMA IdleType == Idle \in Request /\ Idle.pc = "idle"
BY DEF Idle, Request

LEMMA InitType == Init => TypeOK
BY DEF Init, TypeOK, SprintOK, TaskOK, RequestOK, SprintRow, NoSprint, TaskRow,
       NoTask, Request, Idle, Stored

(***************************************************************************)
(* A sprint that was created stays in the table, deleted or not, with its  *)
(* owner.                                                                  *)
(***************************************************************************)
RowsStay ==
  \A s \in Sprints :
    sprint[s].state # "absent" =>
      sprint'[s].state # "absent" /\ sprint'[s].owner = sprint[s].owner

\* handlers that begin: they write nothing
LEMMA BeginType ==
  ASSUME TypeOK, NEW r \in Requests, NEW q \in Request, RequestOK(q), Begin(r, q)
  PROVE  TypeOK'
BY DEF Begin, TypeOK, SprintOK, TaskOK, RequestOK, Stored, Exists

\* handlers that end, and requests that come and go in one step
LEMMA EndType ==
  ASSUME RequestType, RowsStay, NEW r \in Requests, Ends(r) \/ UNCHANGED req
  PROVE  RequestType'
<1>1. req' \in [Requests -> Request]
  BY IdleType DEF Ends, RequestType
<1>2. ASSUME NEW x \in Requests PROVE RequestOK(req[x])'
  <2>1. req'[x] = req[x] \/ req'[x] = Idle
    BY DEF Ends, RequestType
  <2>2. CASE req'[x] = Idle
    BY <2>2, IdleType DEF RequestOK
  <2>3. CASE req'[x] = req[x]
    BY <2>3 DEF RequestOK, RequestType, RowsStay
  <2> QED
    BY <2>1, <2>2, <2>3
<1> QED
  BY <1>1, <1>2 DEF RequestType

\* the parts of TypeOK that a step on sprints and tasks must establish
LEMMA WriteType ==
  ASSUME TypeOK, RowsStay, NEW r \in Requests, Ends(r) \/ UNCHANGED req,
         SprintType', TaskType', BoardsType'
  PROVE  TypeOK'
<1>1. RequestType'
  BY EndType, TypeParts
<1> QED
  BY <1>1 DEF TypeOK, SprintType, TaskType, BoardsType, RequestType

(***************************************************************************)
(* What a handler has checked when it begins: that no other sprint of the  *)
(* owner is active, that a sprint is open; a destination comes later.      *)
(***************************************************************************)
Activates(q) == q.pc = "update" /\ q.status = "ACTIVE"
Fills(q) == q.pc = "add"
Redirects(q) == q.pc \in {"incomplete", "close"} /\ q.decision = "MOVE_TO_NEXT"

Begun(r, q) ==
  /\ q \in Request /\ RequestOK(q)
  /\ Begin(r, q)
  /\ Activates(q) => ~ OtherActive(q.sprint)
  /\ Fills(q) => sprint[q.sprint].state # "COMPLETED"
  /\ ~ Redirects(q)

LEMMA AcceptBegins ==
  ASSUME TypeOK, NEW r \in Requests, Accept(r)
  PROVE  \E q \in Request : Begun(r, q)
<1> PICK s \in Sprints :
      \/ \E status \in SprintStatus \cup {None}, dates \in PatchedDates :
           BeginUpdate(r, s, status, dates)
      \/ \E decision \in Decision, target \in Sprints \cup {None} :
           BeginClose(r, s, decision, target)
      \/ \E t \in Tasks : BeginAddTask(r, s, t) \/ BeginRemoveTask(r, s, t)
      \/ BeginCreateTask(r, s)
  BY DEF Accept
<1>1. ASSUME NEW status \in SprintStatus \cup {None}, NEW dates \in PatchedDates,
             BeginUpdate(r, s, status, dates)
      PROVE  \E q \in Request : Begun(r, q)
  <2> DEFINE q == [Idle EXCEPT !.pc = "update", !.sprint = s,
                               !.status = status, !.dates = dates]
  <2>1. dates \in (Days \cup {None}) \X (Days \cup {None})
    BY BodyAssumption
  <2>2. q \in Request /\ q.pc = "update" /\ q.sprint = s /\ q.status = status
    BY <2>1, IdleType DEF q, Request
  <2>3. Begin(r, q) /\ (status = "ACTIVE" => ~ OtherActive(s))
    BY <1>1 DEF q, BeginUpdate
  <2> HIDE DEF q
  <2>4. RequestOK(q)
    BY <2>2, <2>3 DEF RequestOK, Begin, Exists, SprintStatus
  <2> QED
    BY <2>2, <2>3, <2>4 DEF Begun, Activates, Fills, Redirects
<1>2. ASSUME NEW decision \in Decision, NEW target \in Sprints \cup {None},
             BeginClose(r, s, decision, target)
      PROVE  \E q \in Request : Begun(r, q)
  <2> DEFINE first == IF decision = "MOVE_TO_NEXT" THEN "target" ELSE "incomplete"
             q == [Idle EXCEPT !.pc = first, !.sprint = s, !.decision = decision,
                               !.target = target]
  <2>1. first \in {"target", "incomplete"}
    BY DEF first
  <2>2. /\ Begin(r, q)
        /\ IF decision = "MOVE_TO_NEXT" THEN target \in Sprints \ {s} /\ first = "target"
                                        ELSE target = None
    BY <1>2 DEF q, first, BeginClose
  <2> HIDE DEF first
  <2>3. /\ q \in Request /\ q.pc = first
        /\ q.sprint = s /\ q.decision = decision /\ q.target = target
    BY <2>1, IdleType DEF q, Request
  <2> HIDE DEF q
  <2>4. RequestOK(q)
    BY <2>1, <2>2, <2>3 DEF RequestOK, Begin, Exists, SprintStatus
  <2> QED
    BY <2>1, <2>2, <2>3, <2>4 DEF Begun, Activates, Fills, Redirects
<1>3. ASSUME NEW t \in Tasks, BeginAddTask(r, s, t)
      PROVE  \E q \in Request : Begun(r, q)
  <2> DEFINE q == [Idle EXCEPT !.pc = "add", !.sprint = s, !.task = t]
  <2>1. Begin(r, q) /\ sprint[s].state # "COMPLETED"
    BY <1>3 DEF q, BeginAddTask, Addable
  <2>2. q \in Request /\ q.pc = "add" /\ q.sprint = s /\ q.task = t
    BY IdleType DEF q, Request
  <2> HIDE DEF q
  <2>3. RequestOK(q)
    BY <2>1, <2>2 DEF RequestOK, Begin, Exists, SprintStatus
  <2> QED
    BY <2>1, <2>2, <2>3 DEF Begun, Activates, Fills, Redirects
<1>4. ASSUME NEW t \in Tasks, BeginRemoveTask(r, s, t)
      PROVE  \E q \in Request : Begun(r, q)
  <2> DEFINE q == [Idle EXCEPT !.pc = "take", !.sprint = s, !.task = t]
  <2>1. Begin(r, q)
    BY <1>4 DEF q, BeginRemoveTask
  <2>2. q \in Request /\ q.pc = "take" /\ q.sprint = s /\ q.task = t
    BY IdleType DEF q, Request
  <2> HIDE DEF q
  <2>3. RequestOK(q)
    BY <2>1, <2>2 DEF RequestOK, Begin, Exists, SprintStatus
  <2> QED
    BY <2>1, <2>2, <2>3 DEF Begun, Activates, Fills, Redirects
<1>5. ASSUME BeginCreateTask(r, s)
      PROVE  \E q \in Request : Begun(r, q)
  <2> DEFINE q == [Idle EXCEPT !.pc = "create", !.sprint = s]
  <2>1. Begin(r, q) /\ sprint[s].state # "COMPLETED"
    BY <1>5 DEF q, BeginCreateTask, OpenFor
  <2>2. q \in Request /\ q.pc = "create" /\ q.sprint = s
    BY IdleType DEF q, Request
  <2> HIDE DEF q
  <2>3. RequestOK(q)
    BY <2>1, <2>2 DEF RequestOK, Begin, Exists, SprintStatus
  <2> QED
    BY <2>1, <2>2, <2>3 DEF Begun, Activates, Fills, Redirects
<1> QED
  BY <1>1, <1>2, <1>3, <1>4, <1>5

LEMMA AcceptType ==
  ASSUME TypeOK, NEW r \in Requests, Accept(r)
  PROVE  TypeOK'
BY AcceptBegins, BeginType DEF Begun

(***************************************************************************)
(* A step that gives the sprints of a set another status, which is not     *)
(* "absent", leaves well formed rows and keeps the owners.                 *)
(***************************************************************************)
LEMMA NewState ==
  ASSUME SprintType, NEW S \in SUBSET Sprints, \A s \in S : sprint[s].state # "absent",
         NEW state \in SprintStatus \cup {"deleted"},
         sprint' = [s \in Sprints |-> IF s \in S THEN [sprint[s] EXCEPT !.state = state]
                                                 ELSE sprint[s]]
  PROVE  RowsStay /\ SprintType'
<1>1. ASSUME NEW s \in Sprints
      PROVE  /\ sprint'[s] \in SprintRow /\ SprintOK(s)'
             /\ sprint[s].state # "absent" =>
                  sprint'[s].state # "absent" /\ sprint'[s].owner = sprint[s].owner
  <2>1. sprint[s] \in SprintRow /\ SprintOK(s)
    BY DEF SprintType
  <2>2. CASE s \notin S
    BY <2>1, <2>2 DEF SprintOK
  <2>3. CASE s \in S
    <3>1. sprint'[s] = [sprint[s] EXCEPT !.state = state]
      BY <2>3
    <3>2. state # "absent"
      BY DEF SprintStatus
    <3> QED
      BY <2>1, <2>3, <3>1, <3>2 DEF SprintOK, SprintRow
  <2> QED
    BY <2>2, <2>3
<1> QED
  BY <1>1 DEF RowsStay, SprintType

\* a task that is linked to a sprint that stays where it was is still right
LEMMA UnlinkedType ==
  ASSUME TaskType, NEW gone \in SUBSET Sprints, NEW t \in Tasks
  PROVE  /\ Unlinked(gone)[t] \in TaskRow
         /\ Unlinked(gone)[t].state = task[t].state
         /\ Unlinked(gone)[t].board = task[t].board
         /\ Unlinked(gone)[t].sprint \in {None, task[t].sprint}
         /\ Unlinked(gone)[t].sprint # None => Unlinked(gone)[t].sprint \notin gone
BY BodyAssumption DEF TaskType, TaskRow, Unlinked

LEMMA AdvanceType ==
  ASSUME TypeOK, NEW r \in Requests, Advance(r)
  PROVE  TypeOK'
<1> DEFINE q == req[r]
<1>q. q \in Request /\ RequestOK(q)
  BY DEF TypeOK
<1>t. SprintType /\ TaskType /\ BoardsType /\ RequestType
  BY TypeParts
<1>1. CASE UpdateSprint(r)
  <2> DEFINE new == [sprint[q.sprint] EXCEPT !.state = Given(q.status, @),
                                             !.start = Given(q.dates[1], @),
                                             !.end = Given(q.dates[2], @)]
  <2>1. /\ Exists(q.sprint) /\ q.sprint \in Sprints
        /\ Ends(r) /\ UNCHANGED <<task, removed, stray>>
    BY <1>1, <1>q DEF UpdateSprint, RequestOK
  <2>2. sprint' = [sprint EXCEPT ![q.sprint] = new]
    BY <1>1, <1>t DEF UpdateSprint, SprintType
  <2>3. /\ q.status \in SprintStatus \cup {None}
        /\ q.dates[1] \in Days \cup {None} /\ q.dates[2] \in Days \cup {None}
    BY <1>q DEF Request
  <2>4. /\ sprint[q.sprint] \in SprintRow
        /\ sprint[q.sprint].start \in Days /\ sprint[q.sprint].end \in Days
        /\ sprint[q.sprint].state \in SprintStatus
    BY <1>t, <2>1 DEF SprintType, SprintOK, Exists, SprintStatus
  <2>5. /\ new \in SprintRow /\ new.state \in SprintStatus
        /\ new.owner = sprint[q.sprint].owner /\ new.board = sprint[q.sprint].board
        /\ new.start \in Days /\ new.end \in Days
    BY <2>3, <2>4 DEF SprintRow, Given
  <2> HIDE DEF q, new
  <2>6. RowsStay /\ SprintType'
    BY <1>t, <2>1, <2>2, <2>4, <2>5 DEF RowsStay, SprintType, SprintOK, SprintStatus
  <2>7. TaskType'
    BY <1>t, <2>1, <2>2, <2>5 DEF TaskType, TaskOK, Stored, Exists, SprintType
  <2> QED
    BY <1>t, <2>1, <2>6, <2>7, WriteType DEF BoardsType
<1>2. CASE CheckTarget(r)
  BY <1>2, <1>q DEF CheckTarget, TypeOK, Request, RequestOK, SprintOK, TaskOK, Stored, Exists
<1>3. CASE ReadIncomplete(r)
  <2>1. Incomplete(q.sprint) \subseteq Tasks
    BY DEF Incomplete
  <2> QED
    BY <1>3, <1>q, <2>1 DEF ReadIncomplete, TypeOK, Request, RequestOK, SprintOK, TaskOK, Stored, Exists
<1>4. CASE CloseCommit(r)
  <2>1. /\ Exists(q.sprint) /\ q.sprint \in Sprints /\ q.target \in Sprints \cup {None}
        /\ \A t \in Moved(q) : Stored(t)
        /\ Moved(q) # {} /\ q.target # None => Exists(q.target)
        /\ task' = [t \in Tasks |-> IF t \in Moved(q) THEN [task[t] EXCEPT !.sprint = q.target]
                                                      ELSE task[t]]
        /\ sprint' = [sprint EXCEPT ![q.sprint].state = "COMPLETED"]
        /\ Ends(r) /\ UNCHANGED <<removed, stray>>
    BY <1>4, <1>q DEF CloseCommit, RequestOK, Request
  <2> HIDE DEF q
  <2>2. RowsStay /\ SprintType'
    <3>1. sprint' = [s \in Sprints |-> IF s \in {q.sprint}
                                       THEN [sprint[s] EXCEPT !.state = "COMPLETED"]
                                       ELSE sprint[s]]
      BY <1>t, <2>1 DEF SprintType
    <3>2. /\ {q.sprint} \in SUBSET Sprints
          /\ \A s \in {q.sprint} : sprint[s].state # "absent"
          /\ "COMPLETED" \in SprintStatus \cup {"deleted"}
      BY <2>1 DEF Exists, SprintStatus
    <3> HIDE DEF SprintStatus
    <3> QED
      BY <1>t, <3>1, <3>2, NewState
  <2>3. \A s \in Sprints : Exists(s) => Exists(s)'
    BY <1>t, <2>1 DEF Exists, SprintType, SprintRow, SprintStatus
  <2>4. TaskType'
    BY <1>t, <2>1, <2>3 DEF TaskType, TaskRow, TaskOK, Stored
  <2> QED
    BY <1>t, <2>1, <2>2, <2>4, WriteType DEF BoardsType
<1>5. CASE AddTask(r)
  BY <1>5, <1>q, <1>t, WriteType
  DEF AddTask, BoardsType, RequestOK, RowsStay, SprintType, SprintOK, TaskType, TaskRow, TaskOK, Stored, Exists
<1>6. CASE RemoveTask(r)
  BY <1>6, <1>q, <1>t, WriteType
  DEF RemoveTask, BoardsType, RequestOK, RowsStay, SprintType, SprintOK, TaskType, TaskRow, TaskOK, Stored, Exists
<1>7. CASE InsertTask(r)
  BY <1>7, <1>q, <1>t, WriteType
  DEF InsertTask, NewTask, BoardsType, RequestOK, RowsStay, SprintType, SprintOK, TaskType, TaskRow, TaskOK, Stored, Exists
<1> QED
  BY <1>1, <1>2, <1>3, <1>4, <1>5, <1>6, <1>7 DEF Advance


LEMMA AtOnceType ==
  ASSUME TypeOK, AtOnce
  PROVE  TypeOK'
<1>t. SprintType /\ TaskType /\ BoardsType /\ RequestType
  BY TypeParts
<1>w. ASSUME RowsStay, UNCHANGED req, SprintType', TaskType', BoardsType'
      PROVE  TypeOK'
  <2>1. RequestType'
    BY <1>t, <1>w DEF RequestType, RequestOK, RowsStay
  <2> QED
    BY <1>w, <2>1 DEF TypeOK, SprintType, TaskType, BoardsType, RequestType
<1>1. ASSUME NEW u \in Users, NEW b \in Boards, NEW s \in Sprints,
             NEW start \in Days, NEW end \in Days, CreateSprint(u, b, s, start, end)
      PROVE  TypeOK'
  <2> DEFINE new == [state |-> "PLANNED", owner |-> u, board |-> b,
                     start |-> start, end |-> end]
  <2>1. /\ sprint[s].state = "absent" /\ sprint' = [sprint EXCEPT ![s] = new]
        /\ UNCHANGED <<task, removed, stray, req>>
    BY <1>1 DEF CreateSprint
  <2>2. new \in SprintRow /\ new.state = "PLANNED" /\ new.owner \in Users
        /\ new.board \in Boards /\ new.start \in Days /\ new.end \in Days
    BY DEF SprintRow, SprintStatus
  <2> HIDE DEF new
  <2>3. RowsStay /\ SprintType'
    BY <1>t, <2>1, <2>2 DEF RowsStay, SprintType, SprintOK
  <2>4. TaskType'
    BY <1>t, <2>1, <2>2 DEF TaskType, TaskOK, Stored, Exists, SprintType, SprintStatus
  <2> QED
    BY <1>t, <1>w, <2>1, <2>3, <2>4 DEF BoardsType
<1>2. ASSUME NEW s \in Sprints, RemoveSprint(s)
      PROVE  TypeOK'
  <2>1. /\ Exists(s) /\ sprint' = [sprint EXCEPT ![s].state = "deleted"]
        /\ task' = Unlinked({s}) /\ UNCHANGED <<removed, stray, req>>
    BY <1>2 DEF RemoveSprint
  <2>2. RowsStay /\ SprintType'
    <3>1. sprint' = [x \in Sprints |-> IF x \in {s} THEN [sprint[x] EXCEPT !.state = "deleted"]
                                                    ELSE sprint[x]]
      BY <1>t, <2>1 DEF SprintType
    <3>2. sprint[s].state # "absent"
      BY <2>1 DEF Exists, SprintStatus
    <3> QED
      BY <1>t, <3>1, <3>2, NewState
  <2>3. TaskType'
    <3>1. task' \in [Tasks -> TaskRow]
      BY <1>t, <2>1, BodyAssumption DEF TaskType, TaskRow, Unlinked
    <3>2. ASSUME NEW t \in Tasks PROVE TaskOK(t)'
      BY <1>t, <2>1, UnlinkedType DEF TaskType, TaskRow, TaskOK, Stored, Exists, SprintType
    <3> QED
      BY <3>1, <3>2 DEF TaskType
  <2> QED
    BY <1>t, <1>w, <2>1, <2>2, <2>3 DEF BoardsType
<1>3. ASSUME NEW t \in Tasks, NEW b \in Boards, NEW d \in BOOLEAN, CreateTask(t, b, d)
      PROVE  TypeOK'
  BY <1>3, <1>t, <1>w
  DEF CreateTask, NewTask, BoardsType, RowsStay, SprintType, SprintOK, TaskType, TaskRow, TaskOK, Stored, Exists
<1>4. ASSUME NEW t \in Tasks, NEW d \in BOOLEAN, NEW s \in PatchedSprints \cup {task[t].sprint},
             PatchTask(t, s, d)
      PROVE  TypeOK'
  <2>1. s \in Sprints \cup {None}
    BY <1>t, BodyAssumption DEF TaskType, TaskRow
  <2> QED
    BY <1>4, <1>t, <1>w, <2>1
    DEF PatchTask, BoardsType, RowsStay, SprintType, SprintOK, TaskType, TaskRow, TaskOK, Stored, Exists
<1>5. ASSUME NEW t \in Tasks, DeleteTask(t)
      PROVE  TypeOK'
  BY <1>5, <1>t, <1>w
  DEF DeleteTask, BoardsType, RowsStay, SprintType, SprintOK, TaskType, TaskRow, TaskOK, Stored, Exists
<1>6. ASSUME NEW b \in Boards, RemoveBoard(b)
      PROVE  TypeOK'
  <2> DEFINE gone == {s \in Sprints : Exists(s) /\ sprint[s].board = b}
  <2>1. /\ removed' = removed \cup {b} /\ UNCHANGED <<stray, req>>
        /\ sprint' = [s \in Sprints |-> IF s \in gone THEN [sprint[s] EXCEPT !.state = "deleted"]
                                                      ELSE sprint[s]]
        /\ task' = [t \in Tasks |-> IF task[t].board = b THEN [NoTask EXCEPT !.state = "gone"]
                                                        ELSE Unlinked(gone)[t]]
    BY <1>6 DEF RemoveBoard
  <2>2. gone \in SUBSET Sprints /\ \A s \in gone : sprint[s].state # "absent"
    BY DEF Exists, SprintStatus
  <2> HIDE DEF gone
  <2>3. RowsStay /\ SprintType'
    BY <1>t, <2>1, <2>2, NewState
  <2>4. ASSUME NEW t \in Tasks PROVE task'[t] \in TaskRow /\ TaskOK(t)'
    <3>1. CASE task[t].board = b
      BY <2>1, <3>1 DEF NoTask, TaskRow, TaskOK, Stored
    <3>2. CASE task[t].board # b
      <4>1. task'[t] = Unlinked(gone)[t]
        BY <2>1, <3>2
      <4>2. /\ task'[t] \in TaskRow /\ task'[t].state = task[t].state
            /\ task'[t].board = task[t].board
            /\ task'[t].sprint # None =>
                 task'[t].sprint = task[t].sprint /\ task'[t].sprint \notin gone
        BY <1>t, <2>2, <4>1, UnlinkedType
      <4>3. task[t].sprint # None =>
              task[t].sprint \in Sprints /\ Stored(t) /\ Exists(task[t].sprint)
        BY <1>t DEF TaskType, TaskRow, TaskOK
      <4>4. task'[t].sprint # None =>
              sprint'[task'[t].sprint].state \in SprintStatus
        BY <2>1, <4>2, <4>3 DEF Exists
      <4>5. Stored(t) => task[t].board \in Boards \ removed
        BY <1>t DEF TaskType, TaskOK
      <4> QED
        BY <2>1, <3>2, <4>2, <4>3, <4>4, <4>5 DEF TaskOK, Stored, Exists
    <3> QED
      BY <3>1, <3>2
  <2>5. TaskType'
    BY <2>1, <2>4 DEF TaskType
  <2> QED
    BY <1>t, <1>w, <2>1, <2>3, <2>5 DEF BoardsType
<1>7. ASSUME NEW moved \in SUBSET Tasks, NEW b \in Boards, MoveTasks(moved, b)
      PROVE  TypeOK'
  <2>1. /\ b \in Boards \ removed /\ UNCHANGED <<sprint, removed, req>>
        /\ task' = [t \in Tasks |-> IF t \in moved THEN [task[t] EXCEPT !.board = b]
                                                   ELSE task[t]]
        /\ stray' = stray \cup moved
    BY <1>7 DEF MoveTasks
  <2>2. TaskType'
    BY <1>t, <2>1 DEF TaskType, TaskRow, TaskOK, Stored, Exists
  <2> QED
    BY <1>t, <1>w, <2>1, <2>2 DEF BoardsType, RowsStay, SprintType, SprintOK
<1> QED
  BY <1>1, <1>2, <1>3, <1>4, <1>5, <1>6, <1>7 DEF AtOnce

LEMMA NextType == TypeOK /\ [Next]_vars => TypeOK'
<1> SUFFICES ASSUME TypeOK, [Next]_vars PROVE TypeOK'
  OBVIOUS
<1>1. CASE UNCHANGED vars
  BY <1>1 DEF vars, TypeOK, SprintOK, TaskOK, RequestOK, Stored, Exists
<1>2. ASSUME NEW r \in Requests, Fail(r) PROVE TypeOK'
  BY <1>2, TypeParts, WriteType
  DEF Fail, BoardsType, RowsStay, SprintType, SprintOK, TaskType, TaskOK, Stored, Exists
<1> QED
  BY <1>1, <1>2, AtOnceType, AcceptType, AdvanceType DEF Next

(***************************************************************************)
(* In every reachable state a sprint that was created has an owner, a      *)
(* board of origin and two dates, a task refers only to a sprint that is   *)
(* there, and a handler has what its next statement needs.                 *)
(***************************************************************************)
THEOREM TypeCorrect == Spec => []TypeOK
BY InitType, NextType, PTL DEF Spec


-----------------------------------------------------------------------------
(* What a step does to handlers and to sprints *)

\* a handler that goes on: with the same request, or closing, past its first read
Continues(r) ==
  /\ InFlight(r)
  /\ \/ req'[r] = req[r]
     \/ /\ req[r].pc \in {"target", "incomplete"} /\ req'[r].pc \in {"incomplete", "close"}
        /\ req'[r].sprint = req[r].sprint
        /\ req'[r].decision = req[r].decision /\ req'[r].target = req[r].target
        /\ Redirects(req'[r]) => Redirects(req[r]) \/ TargetOK(req[r])
        /\ UNCHANGED sprint

LEMMA RequestStep ==
  ASSUME TypeOK, [Next]_vars, NEW r \in Requests
  PROVE  \/ req'[r].pc = "idle"
         \/ Continues(r)
         \/ Begun(r, req'[r]) /\ UNCHANGED sprint
<1> DEFINE Goal == \/ req'[r].pc = "idle"
                   \/ Continues(r)
                   \/ Begun(r, req'[r]) /\ UNCHANGED sprint
<1>0. req \in [Requests -> Request]
  BY DEF TypeOK
<1>1. CASE req'[r] = req[r]
  BY <1>1 DEF Continues, InFlight
<1>2. ASSUME NEW x \in Requests, Accept(x), req'[r] # req[r]
      PROVE  Goal
  <2> PICK q \in Request : Begun(x, q)
    BY <1>2, AcceptBegins
  <2>1. req' = [req EXCEPT ![x] = q] /\ UNCHANGED sprint
    BY DEF Begun, Begin
  <2>2. x = r /\ req'[r] = q
    BY <1>0, <1>2, <2>1
  <2> QED
    BY <2>1, <2>2
<1>3. ASSUME NEW x \in Requests, Ends(x), req'[r] # req[r]
      PROVE  Goal
  BY <1>0, <1>3, IdleType DEF Ends
<1>4. ASSUME NEW x \in Requests, CheckTarget(x), req'[r] # req[r]
      PROVE  Goal
  BY <1>0, <1>4 DEF CheckTarget, Continues, InFlight, Request
<1>5. ASSUME NEW x \in Requests, ReadIncomplete(x), req'[r] # req[r]
      PROVE  Goal
  <2>1. x = r
    BY <1>0, <1>5 DEF ReadIncomplete
  <2>2. /\ req[r].pc = "incomplete" /\ req'[r].pc = "close"
        /\ req'[r].sprint = req[r].sprint /\ UNCHANGED sprint
        /\ req'[r].decision = req[r].decision /\ req'[r].target = req[r].target
    BY <1>0, <1>5, <2>1 DEF ReadIncomplete, Request
  <2> QED
    BY <2>2 DEF Continues, InFlight, Redirects
<1>6. ASSUME NEW x \in Requests, Advance(x), req'[r] # req[r]
      PROVE  Goal
  BY <1>3, <1>4, <1>5, <1>6
  DEF Advance, UpdateSprint, CloseCommit, AddTask, RemoveTask, InsertTask
<1>7. ASSUME AtOnce PROVE req' = req
  BY <1>7 DEF AtOnce, CreateSprint, RemoveSprint, CreateTask, PatchTask, MoveTasks, DeleteTask, RemoveBoard
<1> QED
  BY <1>1, <1>2, <1>3, <1>6, <1>7 DEF Next, vars, Fail

(***************************************************************************)
(* The status of a sprint changes only when it is deleted, or by a handler *)
(* on that very sprint, which ends with this step.                         *)
(***************************************************************************)
Decides(r, s) ==
  /\ req[r].pc \in {"update", "close"} /\ req[r].sprint = s /\ req'[r].pc = "idle"
  /\ sprint'[s].state = "ACTIVE" => Activates(req[r]) \/ sprint[s].state = "ACTIVE"

LEMMA SprintStep ==
  ASSUME TypeOK, [Next]_vars, NEW s \in Sprints
  PROVE  /\ sprint[s].state # "absent" =>
              /\ sprint'[s].state # "absent" /\ sprint'[s].owner = sprint[s].owner
              /\ \/ sprint'[s].state \in {sprint[s].state, "deleted"}
                 \/ \E r \in Requests : Decides(r, s)
         /\ sprint[s].state = "absent" =>
              sprint'[s].state \in {"absent", "PLANNED"}
<1> DEFINE Goal == /\ sprint[s].state # "absent" =>
                        /\ sprint'[s].state # "absent" /\ sprint'[s].owner = sprint[s].owner
                        /\ \/ sprint'[s].state \in {sprint[s].state, "deleted"}
                           \/ \E r \in Requests : Decides(r, s)
                   /\ sprint[s].state = "absent" =>
                        sprint'[s].state \in {"absent", "PLANNED"}
<1>0. /\ sprint \in [Sprints -> SprintRow] /\ req \in [Requests -> Request]
      /\ \A r \in Requests : RequestOK(req[r])
  BY DEF TypeOK
<1>1. CASE sprint'[s] = sprint[s]
  BY <1>1
<1>2. ASSUME NEW r \in Requests, UpdateSprint(r), sprint'[s] # sprint[s]
      PROVE  Goal
  <2>1. /\ req[r].pc = "update" /\ Exists(req[r].sprint) /\ req[r].sprint \in Sprints
        /\ Ends(r)
    BY <1>0, <1>2 DEF UpdateSprint, RequestOK
  <2>2. req[r].sprint = s
    BY <1>0, <1>2, <2>1 DEF UpdateSprint
  <2>3. /\ sprint'[s].state = Given(req[r].status, sprint[s].state)
        /\ sprint'[s].owner = sprint[s].owner
    BY <1>0, <1>2, <2>2 DEF UpdateSprint, SprintRow
  <2>4. req'[r].pc = "idle"
    BY <1>0, <2>1, IdleType DEF Ends
  <2>5. req[r].status \in SprintStatus \cup {None}
    BY <1>0 DEF Request
  <2> QED
    BY <2>1, <2>2, <2>3, <2>4, <2>5
    DEF Given, Exists, SprintStatus, Decides, InFlight, Activates
<1>3. ASSUME NEW r \in Requests, CloseCommit(r), sprint'[s] # sprint[s]
      PROVE  Goal
  <2>1. /\ req[r].pc = "close" /\ Exists(req[r].sprint) /\ Ends(r)
        /\ sprint' = [sprint EXCEPT ![req[r].sprint].state = "COMPLETED"]
    BY <1>3 DEF CloseCommit
  <2>2. /\ req[r].sprint = s /\ sprint'[s].state = "COMPLETED"
        /\ sprint'[s].owner = sprint[s].owner
    BY <1>0, <1>3, <2>1 DEF SprintRow
  <2>3. req'[r].pc = "idle"
    BY <1>0, <2>1, IdleType DEF Ends
  <2> QED
    BY <2>1, <2>2, <2>3 DEF Exists, SprintStatus, Decides, InFlight
<1>4. ASSUME NEW r \in Requests, Accept(r) PROVE sprint' = sprint
  BY <1>4, AcceptBegins DEF Begun, Begin
<1>5. ASSUME NEW r \in Requests, Advance(r), sprint'[s] # sprint[s]
      PROVE  Goal
  BY <1>2, <1>3, <1>5 DEF Advance, CheckTarget, ReadIncomplete, AddTask, RemoveTask, InsertTask
<1>6. ASSUME AtOnce, sprint'[s] # sprint[s] PROVE Goal
  <2>1. ASSUME NEW u \in Users, NEW b \in Boards, NEW x \in Sprints, NEW start \in Days,
               NEW end \in Days, CreateSprint(u, b, x, start, end)
        PROVE  Goal
    BY <1>0, <1>6, <2>1 DEF CreateSprint
  <2>2. ASSUME NEW x \in Sprints, RemoveSprint(x) PROVE Goal
    BY <1>0, <1>6, <2>2 DEF RemoveSprint, Exists, SprintRow, SprintStatus
  <2>3. ASSUME NEW b \in Boards, RemoveBoard(b) PROVE Goal
    <3>1. Exists(s) /\ sprint'[s] = [sprint[s] EXCEPT !.state = "deleted"]
      BY <1>6, <2>3 DEF RemoveBoard
    <3> QED
      BY <1>0, <3>1 DEF Exists, SprintRow, SprintStatus
  <2> QED
    BY <1>6, <2>1, <2>2, <2>3 DEF AtOnce, CreateTask, PatchTask, MoveTasks, DeleteTask
<1> QED
  BY <1>1, <1>4, <1>5, <1>6 DEF Next, vars, Fail


-----------------------------------------------------------------------------
(* One active sprint per owner *)

\* a request of the owner of its sprint; any member may create a task in one
OfOwner(r) == InFlight(r) /\ req[r].pc # "create"

\* requests of owners that are in flight are on sprints of different owners
OwnersApart ==
  \A r1, r2 \in Requests :
    OfOwner(r1) /\ OfOwner(r2) /\ sprint[req[r1].sprint].owner = sprint[req[r2].sprint].owner
      => r1 = r2

\* what a handler that is about to activate a sprint has checked still holds
ActivationsSafe ==
  \A r \in Requests : Activates(req[r]) => ~ OtherActive(req[r].sprint)

OwnerInv == TypeOK /\ OwnersApart
ActiveInv == OwnerInv /\ OneActivePerOwner /\ ActivationsSafe

LEMMA SprintOfRequest ==
  ASSUME TypeOK, NEW r \in Requests, InFlight(r)
  PROVE  req[r].sprint \in Sprints /\ sprint[req[r].sprint].state # "absent"
BY DEF TypeOK, RequestOK, InFlight

\* at most one handler begins in a step, and only if its owner has none in flight
LEMMA BeginAlone ==
  ASSUME TypeOK, Isolation # "none", NEW r1 \in Requests, NEW r2 \in Requests,
         r1 # r2, Begun(r1, req'[r1])
  PROVE  /\ req'[r2] = req[r2]
         /\ OfOwner(r2) /\ req'[r1].pc # "create" =>
              sprint[req[r2].sprint].owner # sprint[req'[r1].sprint].owner
<1>1. Begin(r1, req'[r1])
  BY DEF Begun
<1>2. /\ req'[r2] = req[r2]
      /\ req'[r1].pc # "create" => Alone(sprint[req'[r1].sprint].owner)
  BY <1>1 DEF Begin, TypeOK
<1> QED
  BY <1>2, BodyAssumption DEF Alone, Quiet, OfOwner

LEMMA OwnersStep ==
  ASSUME OwnerInv, [Next]_vars, Isolation # "none"
  PROVE  OwnerInv'
<1>1. TypeOK /\ OwnersApart /\ TypeOK'
  BY NextType DEF OwnerInv
<1>2. ASSUME NEW r1 \in Requests, NEW r2 \in Requests, r1 # r2,
             OfOwner(r1)', OfOwner(r2)',
             sprint'[req'[r1].sprint].owner = sprint'[req'[r2].sprint].owner
      PROVE  FALSE
  <2>0. /\ req'[r1].pc \notin {"idle", "create"} /\ req'[r2].pc \notin {"idle", "create"}
    BY <1>2 DEF InFlight, OfOwner
  <2>1. CASE Begun(r1, req'[r1]) /\ UNCHANGED sprint
    <3>1. OfOwner(r2)
      BY <1>1, <1>2, <2>0, <2>1, BeginAlone DEF InFlight, OfOwner
    <3> QED
      BY <1>1, <1>2, <2>0, <2>1, <3>1, BeginAlone
  <2>2. CASE Begun(r2, req'[r2]) /\ UNCHANGED sprint
    <3>1. OfOwner(r1)
      BY <1>1, <1>2, <2>0, <2>2, BeginAlone DEF InFlight, OfOwner
    <3> QED
      BY <1>1, <1>2, <2>0, <2>2, <3>1, BeginAlone
  <2>3. CASE Continues(r1) /\ Continues(r2)
    <3>1. /\ OfOwner(r1) /\ req'[r1].sprint = req[r1].sprint
          /\ OfOwner(r2) /\ req'[r2].sprint = req[r2].sprint
      BY <2>0, <2>3 DEF Continues, OfOwner
    <3>2. /\ sprint'[req[r1].sprint].owner = sprint[req[r1].sprint].owner
          /\ sprint'[req[r2].sprint].owner = sprint[req[r2].sprint].owner
      BY <1>1, <3>1, SprintOfRequest, SprintStep DEF OfOwner
    <3> QED
      BY <1>1, <1>2, <3>1, <3>2 DEF OwnersApart
  <2> QED
    BY <1>1, <2>0, <2>1, <2>2, <2>3, RequestStep
<1>3. OwnersApart'
  BY <1>2 DEF OwnersApart
<1> QED
  BY <1>1, <1>3 DEF OwnerInv

\* a sprint that is active after a step was, or a handler on it activates it
LEMMA ActiveStep ==
  ASSUME TypeOK, [Next]_vars, NEW s \in Sprints, sprint'[s].state = "ACTIVE"
  PROVE  /\ sprint[s].state # "absent" /\ sprint'[s].owner = sprint[s].owner
         /\ \/ sprint[s].state = "ACTIVE"
            \/ \E r \in Requests : Decides(r, s) /\ Activates(req[r])
BY SprintStep DEF Decides

LEMMA ActiveInvStep ==
  ASSUME ActiveInv, [Next]_vars, Isolation # "none"
  PROVE  ActiveInv'
<1>1. /\ TypeOK /\ OwnersApart /\ OneActivePerOwner /\ ActivationsSafe
      /\ OwnerInv'
  BY OwnersStep DEF ActiveInv, OwnerInv
<1>2. ASSUME NEW r \in Requests, Activates(req[r]), NEW s \in Sprints \ {req[r].sprint},
             sprint[s].state = "ACTIVE",
             sprint[s].owner = sprint[req[r].sprint].owner
      PROVE  FALSE
  BY <1>1, <1>2 DEF ActivationsSafe, OtherActive
<1>3. ASSUME NEW r1 \in Requests, NEW r2 \in Requests, NEW s1 \in Sprints, NEW s2 \in Sprints,
             Decides(r1, s1), Decides(r2, s2), sprint[s1].owner = sprint[s2].owner
      PROVE  s1 = s2
  BY <1>1, <1>3 DEF Decides, OwnersApart, OfOwner, InFlight
<1>4. OneActivePerOwner'
  <2> SUFFICES ASSUME NEW s1 \in Sprints, NEW s2 \in Sprints,
                      sprint'[s1].state = "ACTIVE", sprint'[s2].state = "ACTIVE",
                      sprint'[s1].owner = sprint'[s2].owner, s1 # s2
               PROVE  FALSE
    BY DEF OneActivePerOwner
  <2>1. /\ sprint[s1].owner = sprint[s2].owner
        /\ \/ sprint[s1].state = "ACTIVE"
           \/ \E r \in Requests : Decides(r, s1) /\ Activates(req[r])
        /\ \/ sprint[s2].state = "ACTIVE"
           \/ \E r \in Requests : Decides(r, s2) /\ Activates(req[r])
    BY <1>1, ActiveStep
  <2>2. CASE sprint[s1].state = "ACTIVE" /\ sprint[s2].state = "ACTIVE"
    BY <1>1, <2>1, <2>2 DEF OneActivePerOwner
  <2>3. ASSUME NEW r \in Requests, Decides(r, s1), Activates(req[r])
        PROVE  FALSE
    BY <1>2, <1>3, <2>1, <2>3 DEF Decides
  <2>4. ASSUME NEW r \in Requests, Decides(r, s2), Activates(req[r])
        PROVE  FALSE
    BY <1>2, <1>3, <2>1, <2>4 DEF Decides
  <2> QED
    BY <2>1, <2>2, <2>3, <2>4
<1>5. ActivationsSafe'
  <2> SUFFICES ASSUME NEW r \in Requests, Activates(req'[r]), OtherActive(req[r].sprint)'
               PROVE  FALSE
    BY DEF ActivationsSafe
  <2>1. CASE Begun(r, req'[r]) /\ UNCHANGED sprint
    BY <2>1 DEF Begun, OtherActive
  <2>2. CASE Continues(r)
    <3>1. InFlight(r) /\ req'[r] = req[r] /\ Activates(req[r])
      BY <2>2 DEF Continues, Activates
    <3>2. /\ req[r].sprint \in Sprints
          /\ sprint'[req[r].sprint].owner = sprint[req[r].sprint].owner
      BY <1>1, <3>1, SprintOfRequest, SprintStep
    <3> PICK s \in Sprints \ {req[r].sprint} :
          sprint'[s].owner = sprint'[req[r].sprint].owner /\ sprint'[s].state = "ACTIVE"
      BY <3>1 DEF OtherActive
    <3>3. /\ sprint[s].owner = sprint[req[r].sprint].owner
          /\ \/ sprint[s].state = "ACTIVE"
             \/ \E x \in Requests : Decides(x, s)
      BY <1>1, <3>2, ActiveStep
    <3>4. ASSUME NEW x \in Requests, Decides(x, s) PROVE FALSE
      <4>1. x = r
        BY <1>1, <3>1, <3>3, <3>4 DEF Decides, OwnersApart, OfOwner, InFlight, Activates
      <4> QED
        BY <3>4, <4>1 DEF Decides
    <3> QED
      BY <1>2, <3>1, <3>3, <3>4
  <2>3. req'[r].pc # "idle"
    BY DEF Activates
  <2> QED
    BY <1>1, <2>1, <2>2, <2>3, RequestStep
<1> QED
  BY <1>1, <1>4, <1>5 DEF ActiveInv

(***************************************************************************)
(* While each owner has one request in flight at a time, no owner has two  *)
(* active sprints, for any number of owners, sprints and requests: what a  *)
(* handler found before it activates a sprint (sprint.service.ts:186) can  *)
(* only be changed by another request of the same owner.                   *)
(***************************************************************************)
THEOREM OneActive == Isolation # "none" => (Spec => []OneActivePerOwner)
<1> SUFFICES ASSUME Isolation # "none" PROVE Spec => []OneActivePerOwner
  OBVIOUS
<1>1. Init => ActiveInv
  <2> SUFFICES ASSUME Init PROVE ActiveInv
    OBVIOUS
  <2>1. TypeOK
    BY InitType
  <2> QED
    BY <2>1, IdleType
    DEF Init, ActiveInv, OwnerInv, OwnersApart, OneActivePerOwner, ActivationsSafe,
        Activates, InFlight, OfOwner, NoSprint
<1>2. ActiveInv /\ [Next]_vars => ActiveInv'
  BY ActiveInvStep
<1>3. ActiveInv => OneActivePerOwner
  BY DEF ActiveInv
<1> QED
  BY <1>1, <1>2, <1>3, PTL DEF Spec


-----------------------------------------------------------------------------
(* What the owner's own handlers find unchanged *)

\* the sprint a handler is about to put a task into is still open
FillsOpen ==
  \A r \in Requests : Fills(req[r]) => sprint[req[r].sprint].state # "COMPLETED"

\* the destination that closeSprint checked is still PLANNED, unless it is deleted
TargetsPlanned ==
  \A r \in Requests :
    Redirects(req[r]) =>
      /\ sprint[req[r].target].state \in {"PLANNED", "deleted"}
      /\ sprint[req[r].target].owner = sprint[req[r].sprint].owner

LinkInv == OwnerInv /\ FillsOpen /\ TargetsPlanned

\* a sprint of the owner of a handler that goes on keeps its status, or is deleted
LEMMA OwnSprintKept ==
  ASSUME OwnerInv, [Next]_vars, NEW r \in Requests, OfOwner(r), req'[r].pc # "idle",
         NEW s \in Sprints, sprint[s].state # "absent",
         sprint[s].owner = sprint[req[r].sprint].owner
  PROVE  /\ sprint'[s].state \in {sprint[s].state, "deleted"}
         /\ sprint'[s].owner = sprint[s].owner
<1>1. ASSUME NEW x \in Requests, Decides(x, s) PROVE FALSE
  <2>1. x = r
    BY <1>1 DEF OwnerInv, OwnersApart, Decides, OfOwner, InFlight
  <2> QED
    BY <1>1, <2>1 DEF Decides
<1> QED
  BY <1>1, SprintStep DEF OwnerInv

LEMMA LinkInvStep ==
  ASSUME LinkInv, [Next]_vars, Isolation # "none"
  PROVE  LinkInv'
<1>1. TypeOK /\ OwnerInv /\ OwnerInv' /\ FillsOpen /\ TargetsPlanned
  BY OwnersStep DEF LinkInv, OwnerInv
<1>2. ASSUME NEW r \in Requests, OfOwner(r), req'[r].pc # "idle"
      PROVE  /\ sprint'[req[r].sprint].state \in {sprint[req[r].sprint].state, "deleted"}
             /\ sprint'[req[r].sprint].owner = sprint[req[r].sprint].owner
  BY <1>1, <1>2, SprintOfRequest, OwnSprintKept DEF OfOwner
<1>3. ASSUME NEW r \in Requests, Fills(req'[r])
      PROVE  sprint'[req'[r].sprint].state # "COMPLETED"
  <2>1. CASE Begun(r, req'[r]) /\ UNCHANGED sprint
    BY <1>3, <2>1 DEF Begun
  <2>2. CASE Continues(r)
    <3>1. OfOwner(r) /\ req'[r] = req[r] /\ req'[r].pc # "idle"
      BY <1>3, <2>2 DEF Continues, Fills, OfOwner, InFlight
    <3> QED
      BY <1>1, <1>2, <1>3, <3>1 DEF FillsOpen
  <2> QED
    BY <1>1, <1>3, <2>1, <2>2, RequestStep DEF Fills
<1>4. ASSUME NEW r \in Requests, Redirects(req'[r])
      PROVE  /\ sprint'[req'[r].target].state \in {"PLANNED", "deleted"}
             /\ sprint'[req'[r].target].owner = sprint'[req'[r].sprint].owner
  <2>1. CASE Begun(r, req'[r])
    BY <1>4, <2>1 DEF Begun
  <2>2. CASE Continues(r)
    <3>1. /\ OfOwner(r) /\ req'[r].pc # "idle"
          /\ req'[r].sprint = req[r].sprint /\ req'[r].target = req[r].target
      BY <1>4, <2>2 DEF Continues, Redirects, OfOwner, InFlight
    <3>2. req[r].target \in Sprints
      BY <1>1, <1>4, <3>1 DEF OwnerInv, TypeOK, RequestOK, Redirects
    <3>3. CASE Redirects(req[r])
      <4>1. /\ sprint[req[r].target].state \in {"PLANNED", "deleted"}
            /\ sprint[req[r].target].owner = sprint[req[r].sprint].owner
        BY <1>1, <3>3 DEF TargetsPlanned
      <4> QED
        BY <1>1, <1>2, <3>1, <3>2, <4>1, OwnSprintKept
    <3>4. CASE TargetOK(req[r]) /\ UNCHANGED sprint
      BY <3>1, <3>4 DEF TargetOK
    <3> QED
      BY <1>4, <2>2, <3>3, <3>4 DEF Continues
  <2> QED
    BY <1>1, <1>4, <2>1, <2>2, RequestStep DEF Redirects
<1> QED
  BY <1>1, <1>3, <1>4 DEF LinkInv, FillsOpen, TargetsPlanned

LEMMA InitLink == Init => LinkInv
<1> SUFFICES ASSUME Init PROVE LinkInv
  OBVIOUS
<1>1. TypeOK
  BY InitType
<1> QED
  BY <1>1, IdleType
  DEF Init, LinkInv, OwnerInv, OwnersApart, FillsOpen, TargetsPlanned, Fills, Redirects,
      InFlight, OfOwner

\* what closeSprint moves goes to a sprint that is still PLANNED
LEMMA MovedToPlanned ==
  ASSUME LinkInv, NEW r \in Requests, CloseCommit(r), Moved(req[r]) # {},
         req[r].target # None, req[r].decision = "MOVE_TO_NEXT"
  PROVE  /\ sprint[req[r].target].state = "PLANNED"
         /\ sprint[req[r].target].owner = sprint[req[r].sprint].owner
<1>1. Redirects(req[r]) /\ Exists(req[r].target)
  BY DEF CloseCommit, Redirects
<1> QED
  BY <1>1 DEF LinkInv, TargetsPlanned, Exists, SprintStatus

(***************************************************************************)
(* While each owner has one request in flight at a time, addTask puts no   *)
(* task into a sprint that is completed by then: no other owner closes it, *)
(* and creating, editing and moving tasks changes no sprint.               *)
(***************************************************************************)
THEOREM AddsToOpen == Isolation # "none" => (Spec => AddsToOpenSprint)
<1> SUFFICES ASSUME Isolation # "none" PROVE Spec => AddsToOpenSprint
  OBVIOUS
<1>1. LinkInv /\ [Next]_vars => LinkInv'
  BY LinkInvStep
<1>2. ASSUME LinkInv, NEW r \in Requests, AddTask(r)
      PROVE  sprint[req[r].sprint].state # "COMPLETED"
  BY <1>2 DEF LinkInv, FillsOpen, Fills, AddTask
<1>3. LinkInv /\ [Next]_vars =>
        [\A r \in Requests : AddTask(r) => sprint[req[r].sprint].state # "COMPLETED"]_vars
  BY <1>2
<1> QED
  BY InitLink, <1>1, <1>3, PTL DEF Spec, AddsToOpenSprint

(***************************************************************************)
(* Under the same isolation, whatever is sent in a PATCH, leftovers go to  *)
(* a sprint that is PLANNED and of the same owner when they get there.     *)
(***************************************************************************)
THEOREM LeftoversPlanned == Isolation # "none" => (Spec => LeftoversGoToPlanned)
<1> SUFFICES ASSUME Isolation # "none" PROVE Spec => LeftoversGoToPlanned
  OBVIOUS
<1>1. LinkInv /\ [Next]_vars => LinkInv'
  BY LinkInvStep
<1>2. LinkInv /\ [Next]_vars =>
        [\A r \in Requests, t \in Tasks :
           MovesTo(r, t) =>
             /\ sprint[req[r].target].state = "PLANNED"
             /\ sprint[req[r].target].owner = sprint[req[r].sprint].owner]_vars
  <2> SUFFICES ASSUME LinkInv, NEW r \in Requests, NEW t \in Tasks, MovesTo(r, t)
               PROVE  /\ sprint[req[r].target].state = "PLANNED"
                      /\ sprint[req[r].target].owner = sprint[req[r].sprint].owner
    OBVIOUS
  <2>1. /\ CloseCommit(r) /\ req[r].decision = "MOVE_TO_NEXT"
        /\ task'[t].sprint = req[r].target /\ task[t].sprint # req[r].target
    BY DEF MovesTo, Linked
  <2>2. t \in Moved(req[r])
    BY <2>1 DEF CloseCommit
  <2>3. req[r].target # None
    BY <2>1, BodyAssumption
    DEF LinkInv, OwnerInv, TypeOK, RequestOK, CloseCommit
  <2> QED
    BY <2>1, <2>2, <2>3, MovedToPlanned
<1> QED
  BY InitLink, <1>1, <1>2, PTL DEF Spec, LeftoversGoToPlanned

-----------------------------------------------------------------------------
(* The beginning of a handler, and what a step does to one *)

\* both dates in order, or none
InOrder(d) ==
  \/ d[1] = None /\ d[2] = None
  \/ d[1] \in Days /\ d[2] \in Days /\ d[1] < d[2]

\* what a handler has looked at when it begins
Starts(r, q) ==
  /\ Begin(r, q) /\ q \in Request
  /\ q.pc \in {"update", "target", "incomplete", "add", "take", "create"}
  /\ ~ Redirects(q)
  /\ q.pc = "update" => q.dates \in PatchedDates /\ DatesAccepted(q.dates[1], q.dates[2])
  /\ q.pc = "add" => q.task \in Tasks /\ Addable(q.sprint, q.task)
  /\ q.pc = "take" => q.task \in Tasks /\ Takeable(q.sprint, q.task)

LEMMA AcceptStarts ==
  ASSUME TypeOK, NEW r \in Requests, Accept(r)
  PROVE  \E q \in Request : Starts(r, q)
<1> PICK s \in Sprints :
      \/ \E status \in SprintStatus \cup {None}, dates \in PatchedDates :
           BeginUpdate(r, s, status, dates)
      \/ \E decision \in Decision, target \in Sprints \cup {None} :
           BeginClose(r, s, decision, target)
      \/ \E t \in Tasks : BeginAddTask(r, s, t) \/ BeginRemoveTask(r, s, t)
      \/ BeginCreateTask(r, s)
  BY DEF Accept
<1>1. ASSUME NEW status \in SprintStatus \cup {None}, NEW dates \in PatchedDates,
             BeginUpdate(r, s, status, dates)
      PROVE  \E q \in Request : Starts(r, q)
  <2> DEFINE q == [Idle EXCEPT !.pc = "update", !.sprint = s,
                               !.status = status, !.dates = dates]
  <2>1. dates \in (Days \cup {None}) \X (Days \cup {None})
    BY BodyAssumption
  <2>2. q \in Request /\ q.pc = "update" /\ q.dates = dates
    BY <2>1, IdleType DEF Request
  <2>3. Begin(r, q) /\ DatesAccepted(dates[1], dates[2])
    BY <1>1 DEF BeginUpdate
  <2> HIDE DEF q
  <2> QED  BY <2>2, <2>3 DEF Starts, Redirects
<1>2. ASSUME NEW decision \in Decision, NEW target \in Sprints \cup {None},
             BeginClose(r, s, decision, target)
      PROVE  \E q \in Request : Starts(r, q)
  <2> DEFINE first == IF decision = "MOVE_TO_NEXT" THEN "target" ELSE "incomplete"
             q == [Idle EXCEPT !.pc = first, !.sprint = s, !.decision = decision,
                               !.target = target]
  <2>1. /\ first \in {"target", "incomplete"}
        /\ decision = "MOVE_TO_NEXT" => first = "target"
        /\ Begin(r, q)
    BY <1>2 DEF BeginClose
  <2> HIDE DEF first
  <2>2. q \in Request /\ q.pc = first /\ q.decision = decision
    BY <2>1, IdleType DEF Request
  <2> HIDE DEF q
  <2> QED  BY <2>1, <2>2 DEF Starts, Redirects
<1>3. ASSUME NEW t \in Tasks, NEW pc \in {"add", "take"},
             pc = "add" => Addable(s, t), pc = "take" => Takeable(s, t),
             Begin(r, [Idle EXCEPT !.pc = pc, !.sprint = s, !.task = t])
      PROVE  \E q \in Request : Starts(r, q)
  <2> DEFINE q == [Idle EXCEPT !.pc = pc, !.sprint = s, !.task = t]
  <2>1. q \in Request /\ q.pc = pc /\ q.sprint = s /\ q.task = t
    BY IdleType DEF Request
  <2>2. Begin(r, q)  BY <1>3
  <2> HIDE DEF q
  <2> QED  BY <1>3, <2>1, <2>2 DEF Starts, Redirects
<1>4. ASSUME BeginCreateTask(r, s)
      PROVE  \E q \in Request : Starts(r, q)
  <2> DEFINE q == [Idle EXCEPT !.pc = "create", !.sprint = s]
  <2>1. q \in Request /\ q.pc = "create"  BY IdleType DEF Request
  <2>2. Begin(r, q)  BY <1>4 DEF BeginCreateTask
  <2> HIDE DEF q
  <2> QED  BY <2>1, <2>2 DEF Starts, Redirects
<1> QED  BY <1>1, <1>2, <1>3, <1>4 DEF BeginAddTask, BeginRemoveTask

\* what a step does to one handler, and that it does it to no other
LEMMA HandlerStep ==
  ASSUME TypeOK, [Next]_vars, NEW r \in Requests
  PROVE  \/ req'[r] = req[r]
         \/ req'[r] = Idle
         \/ CheckTarget(r) /\ req'[r] = [req[r] EXCEPT !.pc = "incomplete"]
         \/ ReadIncomplete(r)
            /\ req'[r] = [req[r] EXCEPT !.pc = "close",
                                        !.incomplete = Incomplete(req[r].sprint)]
         \/ Starts(r, req'[r])
<1>0. req \in [Requests -> Request]  BY DEF TypeOK
<1>1. ASSUME NEW x \in Requests, Accept(x) PROVE req'[r] = req[r] \/ Starts(r, req'[r])
  <2>1. PICK q \in Request : Starts(x, q)  BY <1>1, AcceptStarts
  <2>2. req' = [req EXCEPT ![x] = q]  BY <2>1 DEF Starts, Begin
  <2>3. r # x \/ req'[r] = q  BY <1>0, <2>2
  <2>4. r # x => req'[r] = req[r]  BY <1>0, <2>2
  <2> QED  BY <2>1, <2>3, <2>4
<1>2. ASSUME NEW x \in Requests, Ends(x) PROVE req'[r] \in {req[r], Idle}
  BY <1>0, <1>2 DEF Ends
<1>3. ASSUME NEW x \in Requests, CheckTarget(x)
      PROVE  \/ req'[r] = req[r]
             \/ CheckTarget(r) /\ req'[r] = [req[r] EXCEPT !.pc = "incomplete"]
  <2>1. req' = [req EXCEPT ![x].pc = "incomplete"]  BY <1>3 DEF CheckTarget
  <2> QED  BY <1>0, <1>3, <2>1
<1>4. ASSUME NEW x \in Requests, ReadIncomplete(x)
      PROVE  \/ req'[r] = req[r]
             \/ ReadIncomplete(r)
                /\ req'[r] = [req[r] EXCEPT !.pc = "close",
                                            !.incomplete = Incomplete(req[r].sprint)]
  <2>1. req' = [req EXCEPT ![x] = [req[x] EXCEPT !.pc = "close",
                                     !.incomplete = Incomplete(req[x].sprint)]]
    BY <1>0, <1>4 DEF ReadIncomplete
  <2>2. r # x => req'[r] = req[r]  BY <1>0, <2>1
  <2>3. r = x => req'[r] = [req[r] EXCEPT !.pc = "close",
                                          !.incomplete = Incomplete(req[r].sprint)]
    BY <1>0, <2>1
  <2> QED  BY <1>4, <2>2, <2>3
<1>5. CASE AtOnce
  BY <1>5 DEF AtOnce, CreateSprint, RemoveSprint, CreateTask, PatchTask, MoveTasks, DeleteTask, RemoveBoard
<1>6. ASSUME NEW x \in Requests, Advance(x)
      PROVE  Ends(x) \/ CheckTarget(x) \/ ReadIncomplete(x)
  BY <1>6 DEF Advance, UpdateSprint, CloseCommit, AddTask, RemoveTask, InsertTask
<1>7. CASE \E x \in Requests : Fail(x)
  BY <1>2, <1>7 DEF Fail
<1>8. CASE \E x \in Requests : Accept(x)
  BY <1>1, <1>8
<1>9. CASE \E x \in Requests : Advance(x)
  BY <1>2, <1>3, <1>4, <1>6, <1>9
<1> QED  BY <1>5, <1>7, <1>8, <1>9 DEF Next, vars

-----------------------------------------------------------------------------
(* The dates of sprints *)

DatesInOrder == \A r \in Requests : req[r].pc = "update" => InOrder(req[r].dates)

BothOrNone == \A d \in PatchedDates : d[1] = None <=> d[2] = None

LEMMA DatesStep ==
  ASSUME BothOrNone, TypeOK, DatesInOrder, [Next]_vars
  PROVE  DatesInOrder'
<1> SUFFICES ASSUME NEW r \in Requests, req'[r].pc = "update"
             PROVE  InOrder(req'[r].dates)
  BY DEF DatesInOrder
<1>1. CASE req'[r] = req[r]  BY <1>1 DEF DatesInOrder
<1>2. CASE req'[r] = Idle  BY <1>2, IdleType
<1>3. CASE Starts(r, req'[r])
  <2>1. /\ req'[r].dates \in PatchedDates
        /\ DatesAccepted(req'[r].dates[1], req'[r].dates[2])
    BY <1>3 DEF Starts
  <2>2. req'[r].dates \in (Days \cup {None}) \X (Days \cup {None})
    BY <2>1, BodyAssumption
  <2> QED  BY <2>1, <2>2 DEF BothOrNone, DatesAccepted, InOrder
<1>4. CASE req'[r] \in {[req[r] EXCEPT !.pc = "incomplete"],
                        [req[r] EXCEPT !.pc = "close",
                                       !.incomplete = Incomplete(req[r].sprint)]}
  BY <1>4 DEF TypeOK, Request
<1> QED  BY <1>1, <1>2, <1>3, <1>4, HandlerStep

LEMMA EndsStep ==
  ASSUME TypeOK, DatesInOrder, EndsAfterStart, [Next]_vars
  PROVE  EndsAfterStart'
<1> SUFFICES ASSUME NEW s \in Sprints, Exists(s)'
             PROVE  sprint'[s].start < sprint'[s].end
  BY DEF EndsAfterStart
<1>0. sprint \in [Sprints -> SprintRow]  BY DEF TypeOK
<1>1. CASE /\ sprint'[s].start = sprint[s].start /\ sprint'[s].end = sprint[s].end
           /\ Exists(s)
  BY <1>1 DEF EndsAfterStart
<1>2. ASSUME NEW r \in Requests, UpdateSprint(r) PROVE sprint'[s].start < sprint'[s].end
  <2> DEFINE q == req[r]
  <2>1. q.pc = "update" /\ Exists(q.sprint) /\ InOrder(q.dates)
    BY <1>2 DEF UpdateSprint, DatesInOrder
  <2>2. s # q.sprint => sprint'[s] = sprint[s]
    BY <1>0, <1>2 DEF UpdateSprint
  <2>3. s = q.sprint => /\ sprint'[s].start = Given(q.dates[1], sprint[s].start)
                        /\ sprint'[s].end = Given(q.dates[2], sprint[s].end)
    <3> HIDE DEF Given
    <3>1. sprint' = [sprint EXCEPT ![q.sprint].state = Given(q.status, @),
                                   ![q.sprint].start = Given(q.dates[1], @),
                                   ![q.sprint].end = Given(q.dates[2], @)]
      BY <1>2 DEF UpdateSprint
    <3> HIDE DEF q
    <3> QED  BY <1>0, <3>1 DEF SprintRow
  <2>4. CASE s # q.sprint
    BY <1>1, <2>2, <2>4 DEF Exists
  <2>5. CASE s = q.sprint
    BY <2>1, <2>3, <2>5, BodyAssumption DEF EndsAfterStart, InOrder, Given
  <2> QED  BY <2>4, <2>5
<1>3. ASSUME NEW r \in Requests, CloseCommit(r) PROVE sprint'[s].start < sprint'[s].end
  <2>1. /\ sprint' = [sprint EXCEPT ![req[r].sprint].state = "COMPLETED"]
        /\ Exists(req[r].sprint)
    BY <1>3 DEF CloseCommit
  <2>2. /\ sprint'[s].start = sprint[s].start /\ sprint'[s].end = sprint[s].end
        /\ sprint'[s].state = sprint[s].state \/ s = req[r].sprint
    BY <1>0, <2>1 DEF SprintRow
  <2> QED  BY <1>1, <2>1, <2>2 DEF Exists
<1>4. ASSUME NEW u \in Users, NEW b \in Boards, NEW x \in Sprints, NEW start \in Days,
             NEW end \in Days, CreateSprint(u, b, x, start, end)
      PROVE  sprint'[s].start < sprint'[s].end
  <2>1. /\ sprint' = [sprint EXCEPT ![x] = [state |-> "PLANNED", owner |-> u, board |-> b,
                                            start |-> start, end |-> end]]
        /\ start < end
    BY <1>4 DEF CreateSprint
  <2>2. CASE s = x  BY <1>0, <2>1, <2>2
  <2>3. CASE s # x  BY <1>0, <1>1, <2>1, <2>3 DEF Exists
  <2> QED  BY <2>2, <2>3
<1>5. ASSUME NEW x \in Sprints, RemoveSprint(x) PROVE sprint'[s].start < sprint'[s].end
  <2>1. sprint' = [sprint EXCEPT ![x].state = "deleted"]  BY <1>5 DEF RemoveSprint
  <2>2. s # x
    BY <1>0, <2>1 DEF Exists, SprintRow, SprintStatus
  <2> QED  BY <1>0, <1>1, <2>1, <2>2 DEF Exists
<1>6. ASSUME NEW b \in Boards, RemoveBoard(b) PROVE sprint'[s].start < sprint'[s].end
  <2>1. sprint'[s] = sprint[s] \/ sprint'[s] = [sprint[s] EXCEPT !.state = "deleted"]
    BY <1>6 DEF RemoveBoard
  <2>2. sprint'[s] = sprint[s]
    BY <1>0, <2>1 DEF Exists, SprintRow, SprintStatus
  <2> QED  BY <1>1, <2>2 DEF Exists
<1>7. CASE UNCHANGED sprint  BY <1>1, <1>7 DEF Exists
<1>8. ASSUME NEW r \in Requests, Accept(r) PROVE UNCHANGED sprint
  BY <1>8, AcceptStarts DEF Starts, Begin
<1> QED
  BY <1>2, <1>3, <1>4, <1>5, <1>6, <1>7, <1>8
  DEF Next, AtOnce, Advance, Fail, vars, CreateTask, PatchTask, MoveTasks, DeleteTask, CheckTarget,
      ReadIncomplete, AddTask, RemoveTask, InsertTask

(***************************************************************************)
(* As long as every PATCH of a sprint carries both dates or none, a sprint *)
(* ends after it starts, whatever requests run at the same time.           *)
(***************************************************************************)
THEOREM DatesStayInOrder ==
  ASSUME BothOrNone
  PROVE  Spec => []EndsAfterStart
<1> DEFINE Inv == TypeOK /\ DatesInOrder /\ EndsAfterStart
<1>1. Init => Inv
  BY InitType, IdleType
  DEF Init, DatesInOrder, EndsAfterStart, Exists, NoSprint, SprintStatus
<1>2. Inv /\ [Next]_vars => Inv'  BY NextType, DatesStep, EndsStep
<1>3. Inv => EndsAfterStart  OBVIOUS
<1> HIDE DEF Inv
<1> QED  BY <1>1, <1>2, <1>3, PTL DEF Spec

-----------------------------------------------------------------------------
(* Whose boards the tasks of a sprint are on *)

\* who creates a sprint is an admin of the board of origin
OriginOwned ==
  \A s \in Sprints :
    sprint[s].state # "absent" => sprint[s].owner \in AdminsOf[sprint[s].board]

\* unless it is stray or gone, a task that was created is on a board of admin u
OnBoardOf(u, t) ==
  /\ task[t].state # "absent"
  /\ t \notin stray /\ Stored(t) => u \in AdminsOf[task[t].board]

\* what a handler will link is on boards of the owner of its sprint
OwnThings(q) ==
  /\ q.pc = "add" => OnBoardOf(sprint[q.sprint].owner, q.task)
  /\ q.pc = "close" => \A t \in q.incomplete : OnBoardOf(sprint[q.sprint].owner, t)
  /\ Redirects(q) => /\ sprint[q.target].state # "absent"
                     /\ sprint[q.target].owner = sprint[q.sprint].owner

HoldsOwn == \A r \in Requests : OwnThings(req[r])

OwnInv == TypeOK /\ OriginOwned /\ HoldsOwn /\ TasksOfOwnBoards

\* a sprint that was created keeps its owner and its board
LEMMA SprintKept ==
  ASSUME TypeOK, [Next]_vars, NEW s \in Sprints, sprint[s].state # "absent"
  PROVE  /\ sprint'[s].state # "absent" /\ sprint'[s].owner = sprint[s].owner
         /\ sprint'[s].board = sprint[s].board
<1>0. sprint \in [Sprints -> SprintRow]  BY DEF TypeOK
<1>1. ASSUME NEW r \in Requests, Advance(r) PROVE sprint'[s].board = sprint[s].board
  BY <1>0, <1>1
  DEF Advance, UpdateSprint, CheckTarget, ReadIncomplete, CloseCommit, AddTask, RemoveTask,
      InsertTask, SprintRow
<1>2. ASSUME AtOnce PROVE sprint'[s].board = sprint[s].board
  <2>1. ASSUME NEW u \in Users, NEW b \in Boards, NEW x \in Sprints, NEW start \in Days,
               NEW end \in Days, CreateSprint(u, b, x, start, end)
        PROVE  sprint'[s] = sprint[s]
    BY <1>0, <2>1 DEF CreateSprint
  <2>2. ASSUME NEW x \in Sprints, RemoveSprint(x) PROVE sprint'[s].board = sprint[s].board
    BY <1>0, <2>2 DEF RemoveSprint, SprintRow
  <2>3. ASSUME NEW b \in Boards, RemoveBoard(b) PROVE sprint'[s].board = sprint[s].board
    BY <1>0, <2>3 DEF RemoveBoard, SprintRow
  <2> QED
    BY <1>2, <2>1, <2>2, <2>3 DEF AtOnce, CreateTask, PatchTask, MoveTasks, DeleteTask
<1>3. ASSUME NEW r \in Requests, Accept(r) PROVE UNCHANGED sprint
  BY <1>3, AcceptStarts DEF Starts, Begin
<1> QED  BY <1>1, <1>2, <1>3, SprintStep DEF Next, vars, Fail

(***************************************************************************)
(* Who links a task to a sprint, but for the PATCHes that make it stray.   *)
(***************************************************************************)
Links(r, t) ==
  \/ AddTask(r) /\ t = req[r].task /\ task'[t].sprint = req[r].sprint
  \/ CloseCommit(r) /\ t \in Moved(req[r]) /\ task'[t].sprint = req[r].target
  \/ /\ InsertTask(r) /\ task'[t].sprint = req[r].sprint
     /\ task'[t].board = sprint[req[r].sprint].board

\* the sprint of a task stays or is taken away, or somebody links the task
SprintOfTask(t) ==
  \/ task'[t].sprint \in {None, task[t].sprint}
  \/ \E r \in Requests : Links(r, t)
  \/ t \in stray'

\* a task that was created is in the table or gone for good, and keeps its board
BoardOfTask(t) ==
  task[t].state # "absent" =>
    /\ task'[t].state # "absent"
    /\ t \notin stray' /\ Stored(t)' =>
         t \notin stray /\ Stored(t) /\ task'[t].board = task[t].board

LEMMA TaskStep ==
  ASSUME TypeOK, [Next]_vars, NEW t \in Tasks
  PROVE  SprintOfTask(t) /\ BoardOfTask(t)
<1> DEFINE Goal == SprintOfTask(t) /\ BoardOfTask(t)
<1>0. /\ task \in [Tasks -> TaskRow] /\ sprint \in [Sprints -> SprintRow]
      /\ task[t] \in TaskRow /\ TaskOK(t)
  BY DEF TypeOK
<1>1. CASE task'[t] = task[t] /\ stray \subseteq stray'
  BY <1>1 DEF SprintOfTask, BoardOfTask, Stored
<1>2. ASSUME NEW r \in Requests, Advance(r) PROVE Goal
  <2>1. CASE UpdateSprint(r) \/ CheckTarget(r) \/ ReadIncomplete(r)
    BY <1>1, <2>1 DEF UpdateSprint, CheckTarget, ReadIncomplete
  <2>2. CASE CloseCommit(r)
    <3>1. CASE t \notin Moved(req[r])
      BY <1>1, <2>2, <3>1 DEF CloseCommit
    <3>2. CASE t \in Moved(req[r])
      <4>1. task'[t] = [task[t] EXCEPT !.sprint = req[r].target] /\ stray' = stray
        BY <2>2, <3>2 DEF CloseCommit
      <4>2. /\ task'[t].sprint = req[r].target /\ task'[t].state = task[t].state
            /\ task'[t].board = task[t].board
        BY <1>0, <4>1 DEF TaskRow
      <4> QED  BY <2>2, <3>2, <4>1, <4>2 DEF Links, SprintOfTask, BoardOfTask, Stored
    <3> QED  BY <3>1, <3>2
  <2>3. CASE AddTask(r) \/ RemoveTask(r)
    <3>1. CASE t # req[r].task
      BY <1>0, <1>1, <2>3, <3>1 DEF AddTask, RemoveTask
    <3>2. CASE t = req[r].task
      <4>1. /\ task'[t].state = task[t].state /\ task'[t].board = task[t].board
            /\ AddTask(r) => task'[t].sprint = req[r].sprint
            /\ RemoveTask(r) => task'[t].sprint = None
            /\ stray' = stray
        BY <1>0, <2>3, <3>2 DEF AddTask, RemoveTask, TaskRow
      <4> QED  BY <2>3, <3>2, <4>1 DEF Links, SprintOfTask, BoardOfTask, Stored
    <3> QED  BY <3>1, <3>2
  <2>4. CASE InsertTask(r)
    <3>1. PICK x \in Tasks, b \in Boards \ removed, d \in BOOLEAN :
            /\ task[x].state = "absent"
            /\ task' = [task EXCEPT ![x] = NewTask(b, req[r].sprint, d)]
            /\ stray' = IF b = sprint[req[r].sprint].board THEN stray ELSE stray \cup {x}
      BY <2>4 DEF InsertTask
    <3>2. CASE t # x  BY <1>0, <1>1, <3>1, <3>2
    <3>3. CASE t = x
      <4>1. task'[t].sprint = req[r].sprint /\ task'[t].board = b /\ task[t].state = "absent"
        BY <1>0, <3>1, <3>3 DEF NewTask
      <4> QED  BY <2>4, <3>1, <3>3, <4>1 DEF Links, SprintOfTask, BoardOfTask
    <3> QED  BY <3>2, <3>3
  <2> QED  BY <1>2, <2>1, <2>2, <2>3, <2>4 DEF Advance
<1>3. CASE AtOnce
  <2>0. ASSUME NEW gone \in SUBSET Sprints, task'[t] = Unlinked(gone)[t], stray' = stray
        PROVE  Goal
    <3>1. /\ task'[t].sprint \in {None, task[t].sprint} /\ task'[t].state = task[t].state
          /\ task'[t].board = task[t].board
      BY <1>0, <2>0, UnlinkedType, TypeParts
    <3> QED  BY <2>0, <3>1 DEF SprintOfTask, BoardOfTask, Stored
  <2>1. ASSUME NEW x \in Sprints, RemoveSprint(x) PROVE Goal
    BY <2>0, <2>1 DEF RemoveSprint
  <2>2. ASSUME NEW b \in Boards, RemoveBoard(b) PROVE Goal
    <3> DEFINE gone == {x \in Sprints : Exists(x) /\ sprint[x].board = b}
    <3>1. /\ task'[t] = [NoTask EXCEPT !.state = "gone"] \/ task'[t] = Unlinked(gone)[t]
          /\ stray' = stray
      BY <2>2 DEF RemoveBoard
    <3>2. gone \in SUBSET Sprints  OBVIOUS
    <3> HIDE DEF gone
    <3>3. CASE task'[t] = [NoTask EXCEPT !.state = "gone"]
      <4>1. task'[t].state = "gone" /\ task'[t].sprint = None  BY <3>3 DEF NoTask
      <4> QED  BY <4>1 DEF SprintOfTask, BoardOfTask, Stored
    <3> QED  BY <2>0, <3>1, <3>2, <3>3
  <2>3. ASSUME NEW x \in Tasks, NEW b \in Boards, NEW d \in BOOLEAN, CreateTask(x, b, d)
        PROVE  Goal
    <3>1. CASE t # x  BY <1>0, <1>1, <2>3, <3>1 DEF CreateTask
    <3>2. CASE t = x
      <4>1. task[t].state = "absent" /\ task'[t].sprint = None
        BY <1>0, <2>3, <3>2 DEF CreateTask, NewTask
      <4> QED  BY <4>1 DEF SprintOfTask, BoardOfTask
    <3> QED  BY <3>1, <3>2
  <2>4. ASSUME NEW x \in Tasks, NEW s \in PatchedSprints \cup {task[x].sprint},
               NEW d \in BOOLEAN, PatchTask(x, s, d)
        PROVE  Goal
    <3>0. stray \subseteq stray'  BY <2>4 DEF PatchTask
    <3>1. CASE t # x  BY <1>0, <1>1, <2>4, <3>0, <3>1 DEF PatchTask
    <3>2. CASE t = x
      <4>1. /\ task'[t].sprint = s /\ task'[t].state = task[t].state
            /\ task'[t].board = task[t].board
            /\ s \in {None, task[t].sprint} \/ t \in stray'
        BY <1>0, <2>4, <3>2 DEF PatchTask, TaskRow
      <4> QED  BY <3>0, <4>1 DEF SprintOfTask, BoardOfTask, Stored
    <3> QED  BY <3>1, <3>2
  <2>5. ASSUME NEW x \in Tasks, DeleteTask(x) PROVE Goal
    <3>1. /\ task'[t].sprint = task[t].sprint /\ task'[t].board = task[t].board
          /\ task'[t].state \in {task[t].state, "deleted"} /\ stray' = stray
          /\ task'[t].state # task[t].state => task[t].state = "live"
      BY <1>0, <2>5 DEF DeleteTask, TaskRow
    <3> QED  BY <3>1 DEF SprintOfTask, BoardOfTask, Stored
  <2>6. ASSUME NEW moved \in SUBSET Tasks, NEW b \in Boards, MoveTasks(moved, b) PROVE Goal
    <3>1. /\ task'[t] = IF t \in moved THEN [task[t] EXCEPT !.board = b] ELSE task[t]
          /\ stray' = stray \cup moved
      BY <2>6 DEF MoveTasks
    <3>2. CASE t \notin moved  BY <1>1, <3>1, <3>2
    <3>3. CASE t \in moved
      BY <1>0, <3>1, <3>3 DEF SprintOfTask, BoardOfTask, TaskRow
    <3> QED  BY <3>2, <3>3
  <2> QED  BY <1>1, <1>3, <2>1, <2>2, <2>3, <2>4, <2>5, <2>6 DEF AtOnce, CreateSprint
<1>4. ASSUME NEW r \in Requests, Accept(r) PROVE UNCHANGED <<task, stray>>
  BY <1>4, AcceptStarts DEF Starts, Begin
<1> QED  BY <1>1, <1>2, <1>3, <1>4 DEF Next, vars, Fail

LEMMA OriginStep ==
  ASSUME TypeOK, OriginOwned, [Next]_vars
  PROVE  OriginOwned'
<1> SUFFICES ASSUME NEW s \in Sprints, sprint'[s].state # "absent"
             PROVE  sprint'[s].owner \in AdminsOf[sprint'[s].board]
  BY DEF OriginOwned
<1>1. CASE sprint[s].state # "absent"
  BY <1>1, SprintKept DEF OriginOwned
<1>2. CASE sprint[s].state = "absent"
  <2>0. sprint \in [Sprints -> SprintRow] /\ \A r \in Requests : RequestOK(req[r])
    BY DEF TypeOK
  <2>1. ASSUME NEW u \in Users, NEW b \in Boards, NEW x \in Sprints, NEW start \in Days,
               NEW end \in Days, CreateSprint(u, b, x, start, end)
        PROVE  sprint'[s].owner \in AdminsOf[sprint'[s].board]
    <3>1. /\ sprint' = [sprint EXCEPT ![x] = [state |-> "PLANNED", owner |-> u, board |-> b,
                                              start |-> start, end |-> end]]
          /\ u \in AdminsOf[b]
      BY <2>1 DEF CreateSprint
    <3> QED  BY <1>2, <2>0, <3>1
  <2>2. ASSUME NEW r \in Requests, UpdateSprint(r) \/ CloseCommit(r) PROVE FALSE
    <3>1. req[r].sprint # s
      BY <1>2, <2>2 DEF UpdateSprint, CloseCommit, Exists, SprintStatus
    <3> QED  BY <1>2, <2>0, <2>2, <3>1 DEF UpdateSprint, CloseCommit
  <2>3. ASSUME NEW x \in Sprints, RemoveSprint(x) PROVE FALSE
    BY <1>2, <2>0, <2>3 DEF RemoveSprint, Exists, SprintStatus
  <2>4. ASSUME NEW b \in Boards, RemoveBoard(b) PROVE FALSE
    BY <1>2, <2>0, <2>4 DEF RemoveBoard, Exists, SprintStatus
  <2>5. ASSUME NEW r \in Requests, Accept(r) PROVE UNCHANGED sprint
    BY <2>5, AcceptStarts DEF Starts, Begin
  <2> QED
    BY <1>2, <2>1, <2>2, <2>3, <2>4, <2>5
    DEF Next, AtOnce, Advance, Fail, vars, CreateTask, PatchTask, MoveTasks, DeleteTask, CheckTarget,
        ReadIncomplete, AddTask, RemoveTask, InsertTask
<1> QED  BY <1>1, <1>2

LEMMA HoldsStep ==
  ASSUME OwnInv, [Next]_vars
  PROVE  HoldsOwn'
<1> SUFFICES ASSUME NEW r \in Requests PROVE OwnThings(req[r])'
  BY DEF HoldsOwn
<1>0. /\ TypeOK /\ OwnThings(req[r]) /\ req[r] \in Request /\ RequestOK(req[r])
      /\ TasksOfOwnBoards
  BY DEF OwnInv, HoldsOwn, TypeOK
<1>1. InFlight(r) =>
        /\ req[r].sprint \in Sprints /\ sprint'[req[r].sprint].owner = sprint[req[r].sprint].owner
  BY <1>0, SprintKept DEF RequestOK, InFlight
<1>2. Redirects(req[r]) =>
        /\ sprint'[req[r].target].state # "absent"
        /\ sprint'[req[r].target].owner = sprint[req[r].target].owner
  BY <1>0, SprintKept DEF RequestOK, Redirects, OwnThings
<1> DEFINE StaysOn(u, t) == /\ task'[t].state # "absent"
                            /\ t \notin stray' /\ Stored(t)' => u \in AdminsOf[task'[t].board]
<1>k. ASSUME NEW u, NEW t \in Tasks, OnBoardOf(u, t) PROVE StaysOn(u, t)
  <2>1. BoardOfTask(t)  BY <1>0, TaskStep
  <2> QED  BY <1>k, <2>1 DEF BoardOfTask, OnBoardOf
<1> HIDE DEF StaysOn
<1>3. CASE req'[r] = req[r]
  <2>1. req[r].pc = "add" => StaysOn(sprint'[req[r].sprint].owner, req[r].task)
    BY <1>0, <1>1, <1>k DEF OwnThings, RequestOK, InFlight
  <2>2. req[r].pc = "close" =>
          \A t \in req[r].incomplete : StaysOn(sprint'[req[r].sprint].owner, t)
    BY <1>0, <1>1, <1>k DEF OwnThings, Request, InFlight
  <2>3. Redirects(req[r]) =>
          /\ sprint'[req[r].target].state # "absent"
          /\ sprint'[req[r].target].owner = sprint'[req[r].sprint].owner
    BY <1>0, <1>1, <1>2 DEF OwnThings, Redirects, InFlight
  <2> QED  BY <1>3, <2>1, <2>2, <2>3 DEF StaysOn, OwnThings, Redirects, OnBoardOf, Stored
<1>4. CASE req'[r] = Idle
  BY <1>4, IdleType DEF OwnThings, Redirects
<1>5. CASE CheckTarget(r) /\ req'[r] = [req[r] EXCEPT !.pc = "incomplete"]
  <2>1. /\ req'[r].pc = "incomplete" /\ req'[r].sprint = req[r].sprint
        /\ req'[r].target = req[r].target /\ UNCHANGED sprint
        /\ TargetOK(req[r])
    BY <1>0, <1>5 DEF CheckTarget, Request
  <2> QED  BY <2>1 DEF OwnThings, TargetOK
<1>6. CASE /\ ReadIncomplete(r)
           /\ req'[r] = [req[r] EXCEPT !.pc = "close", !.incomplete = Incomplete(req[r].sprint)]
  <2>1. /\ req'[r].pc = "close" /\ req'[r].sprint = req[r].sprint
        /\ req'[r].target = req[r].target /\ req'[r].decision = req[r].decision
        /\ req'[r].incomplete = Incomplete(req[r].sprint)
        /\ UNCHANGED <<sprint, task, stray>> /\ req[r].pc = "incomplete"
    <3> DEFINE found == Incomplete(req[r].sprint)
    <3>1. UNCHANGED <<sprint, task, stray>> /\ req[r].pc = "incomplete"
      BY <1>6 DEF ReadIncomplete
    <3>2. req'[r] = [req[r] EXCEPT !.pc = "close", !.incomplete = found]  BY <1>6
    <3> HIDE DEF found
    <3>3. /\ req'[r].pc = "close" /\ req'[r].sprint = req[r].sprint
          /\ req'[r].target = req[r].target /\ req'[r].decision = req[r].decision
          /\ req'[r].incomplete = found
      BY <1>0, <3>2 DEF Request
    <3> QED  BY <3>1, <3>3 DEF found
  <2>2. \A t \in Incomplete(req[r].sprint) : OnBoardOf(sprint[req[r].sprint].owner, t)
    BY <1>0, <2>1, BodyAssumption DEF Incomplete, TasksOfOwnBoards, OnBoardOf, RequestOK
  <2> QED  BY <1>0, <2>1, <2>2 DEF OwnThings, Redirects, OnBoardOf, Stored
<1>7. CASE Starts(r, req'[r])
  <2>1. UNCHANGED <<sprint, task, stray>>  BY <1>7 DEF Starts, Begin
  <2>2. req'[r].pc = "add" => OnBoardOf(sprint'[req'[r].sprint].owner, req'[r].task)
    <3> SUFFICES ASSUME req'[r].pc = "add"
                 PROVE  OnBoardOf(sprint'[req'[r].sprint].owner, req'[r].task)
      OBVIOUS
    <3>1. /\ req'[r].task \in Tasks /\ Stored(req'[r].task)
          /\ BoardOwner[task[req'[r].task].board] = sprint[req'[r].sprint].owner
      BY <1>7 DEF Starts, Addable
    <3>2. task[req'[r].task].board \in Boards
      BY <1>0, <3>1 DEF TypeOK, TaskOK
    <3> QED  BY <2>1, <3>1, <3>2, BoardAssumption DEF OnBoardOf, Stored
  <2>3. req'[r].pc # "close" /\ ~ Redirects(req'[r])  BY <1>7 DEF Starts
  <2> QED  BY <2>1, <2>2, <2>3 DEF OwnThings, OnBoardOf, Stored
<1> QED  BY <1>0, <1>3, <1>4, <1>5, <1>6, <1>7, HandlerStep

LEMMA OwnStep ==
  ASSUME OwnInv, [Next]_vars
  PROVE  OwnInv'
<1>0. TypeOK /\ TypeOK' /\ OriginOwned' /\ HoldsOwn' /\ TasksOfOwnBoards /\ OriginOwned
  BY NextType, OriginStep, HoldsStep DEF OwnInv
<1>1. ASSUME NEW t \in Tasks, t \notin stray', task'[t].sprint # None
      PROVE  sprint'[task'[t].sprint].owner \in AdminsOf[task'[t].board]
  <2>0. BoardOfTask(t) /\ Stored(t)'  BY <1>0, <1>1, TaskStep DEF TypeOK, TaskOK
  <2>1. CASE task'[t].sprint = task[t].sprint
    <3>1. /\ task[t].sprint \in Sprints /\ sprint[task[t].sprint].state # "absent"
          /\ Stored(t)
      BY <1>0, <1>1, <2>1 DEF TypeOK, TaskRow, TaskOK, Exists, SprintStatus
    <3>2. sprint'[task[t].sprint].owner = sprint[task[t].sprint].owner
      BY <1>0, <3>1, SprintKept
    <3>3. t \notin stray /\ task'[t].board = task[t].board
      BY <1>1, <2>0, <3>1 DEF BoardOfTask, Stored
    <3> QED  BY <1>1, <2>1, <1>0, <3>2, <3>3 DEF TasksOfOwnBoards
  <2>2. ASSUME NEW r \in Requests, Links(r, t)
        PROVE  sprint'[task'[t].sprint].owner \in AdminsOf[task'[t].board]
    <3> DEFINE q == req[r]
    <3>0. OwnThings(q) /\ RequestOK(q) /\ q \in Request
      BY DEF OwnInv, HoldsOwn, TypeOK
    <3>1. q.sprint \in Sprints /\ sprint[q.sprint].state # "absent"
      BY <2>2, <3>0 DEF Links, AddTask, CloseCommit, InsertTask, RequestOK
    <3>2. sprint'[q.sprint].owner = sprint[q.sprint].owner
      BY <1>0, <3>1, SprintKept
    <3>3. OnBoardOf(sprint[q.sprint].owner, t) =>
            sprint[q.sprint].owner \in AdminsOf[task'[t].board]
      BY <1>1, <2>0 DEF OnBoardOf, BoardOfTask
    <3>4. CASE AddTask(r) /\ t = q.task /\ task'[t].sprint = q.sprint
      BY <3>0, <3>2, <3>3, <3>4 DEF AddTask, OwnThings
    <3>5. CASE CloseCommit(r) /\ t \in Moved(q) /\ task'[t].sprint = q.target
      <4>1. q.pc = "close" /\ t \in q.incomplete
        BY <3>5 DEF CloseCommit, Moved
      <4>2. Redirects(q)
        BY <1>1, <3>0, <3>5, <4>1 DEF RequestOK, Redirects
      <4>3. q.target \in Sprints  BY <3>0, <4>1, <4>2 DEF RequestOK, Redirects
      <4>4. sprint'[q.target].owner = sprint[q.target].owner
        BY <1>0, <3>0, <4>2, <4>3, SprintKept DEF OwnThings
      <4> QED  BY <3>0, <3>3, <3>5, <4>1, <4>2, <4>4 DEF OwnThings
    <3>6. CASE InsertTask(r) /\ task'[t].sprint = q.sprint /\ task'[t].board = sprint[q.sprint].board
      BY <1>0, <3>1, <3>2, <3>6 DEF OriginOwned
    <3> QED  BY <2>2, <3>4, <3>5, <3>6 DEF Links
  <2> QED  BY <1>0, <1>1, <2>1, <2>2, TaskStep DEF SprintOfTask
<1>2. TasksOfOwnBoards'  BY <1>1 DEF TasksOfOwnBoards
<1> QED  BY <1>0, <1>2 DEF OwnInv

LEMMA OwnInit == Init => OwnInv
BY InitType, IdleType
DEF Init, OwnInv, OriginOwned, HoldsOwn, OwnThings, Redirects, TasksOfOwnBoards, NoSprint, NoTask

(***************************************************************************)
(* Whatever requests run at the same time, a sprint holds only tasks of    *)
(* boards its owner is an admin of, but for those that a PATCH put into it *)
(* or that were taken to another board.                                    *)
(***************************************************************************)
THEOREM SprintsOfOwnTasks == Spec => []TasksOfOwnBoards
<1>1. OwnInv /\ [Next]_vars => OwnInv'  BY OwnStep
<1>2. OwnInv => TasksOfOwnBoards  BY DEF OwnInv
<1> QED  BY <1>1, <1>2, OwnInit, PTL DEF Spec

-----------------------------------------------------------------------------
(* Closing a sprint, one request at a time *)

OneInFlight == \A r1, r2 \in Requests : InFlight(r1) /\ InFlight(r2) => r1 = r2

\* what closeSprint read is still so when it writes
ClosesAll == \A r \in Requests : req[r].pc = "close" => req[r].incomplete = Incomplete(req[r].sprint)

SerialInv == TypeOK /\ OneInFlight /\ ClosesAll

\* nothing happens between two steps of a handler
LEMMA NothingBetween ==
  ASSUME Isolation = "serial", TypeOK, OneInFlight, [Next]_vars,
         NEW r \in Requests, InFlight(r), req'[r] = req[r]
  PROVE  UNCHANGED <<sprint, task>>
<1>0. req \in [Requests -> Request]  BY DEF TypeOK
<1>1. ~ Quiet  BY DEF Quiet
<1>2. ~ AtOnce
  BY <1>1
  DEF AtOnce, CreateSprint, RemoveSprint, CreateTask, PatchTask, MoveTasks, DeleteTask, RemoveBoard, Alone
<1>3. ASSUME NEW x \in Requests, Advance(x) PROVE UNCHANGED <<sprint, task>>
  <2>1. x = r
    BY <1>3
    DEF OneInFlight, InFlight, Advance, UpdateSprint, CheckTarget, ReadIncomplete, CloseCommit,
        AddTask, RemoveTask, InsertTask
  <2>2. ~ Ends(r)
    <3>1. Idle.pc = "idle"  BY IdleType
    <3> QED  BY <1>0, <3>1 DEF Ends, InFlight
  <2> QED
    BY <1>3, <2>1, <2>2
    DEF Advance, UpdateSprint, CheckTarget, ReadIncomplete, CloseCommit, AddTask, RemoveTask,
        InsertTask
<1> QED
  BY <1>2, <1>3, AcceptStarts DEF Next, Fail, vars, Starts, Begin

LEMMA SerialStep ==
  ASSUME Isolation = "serial", SerialInv, [Next]_vars
  PROVE  SerialInv'
<1>0. /\ TypeOK /\ OneInFlight /\ ClosesAll /\ TypeOK'
      /\ req \in [Requests -> Request]
  BY NextType DEF SerialInv, TypeOK
<1>1. ASSUME NEW r \in Requests, InFlight(r)' PROVE \/ InFlight(r)
                                                   \/ \A x \in Requests \ {r} : ~ InFlight(x)'
  <2>1. ASSUME Starts(r, req'[r]) PROVE \A x \in Requests \ {r} : ~ InFlight(x)'
    <3>1. Quiet /\ req' = [req EXCEPT ![r] = req'[r]]  BY <2>1 DEF Starts, Begin, Alone
    <3>2. \A x \in Requests : ~ InFlight(x)  BY <3>1 DEF Quiet
    <3>3. \A x \in Requests \ {r} : req'[x] = req[x]  BY <1>0, <3>1
    <3> QED  BY <3>2, <3>3 DEF InFlight
  <2> QED
    BY <1>0, <1>1, <2>1, HandlerStep, IdleType DEF InFlight, CheckTarget, ReadIncomplete
<1>2. OneInFlight'
  BY <1>0, <1>1 DEF OneInFlight
<1>3. ASSUME NEW r \in Requests, req'[r].pc = "close"
      PROVE  (req[r].incomplete = Incomplete(req[r].sprint))'
  <2>1. CASE req'[r] = req[r]
    <3>1. InFlight(r) /\ req[r].incomplete = Incomplete(req[r].sprint)
      BY <1>0, <1>3, <2>1 DEF InFlight, ClosesAll
    <3>2. UNCHANGED <<sprint, task>>  BY <1>0, <2>1, <3>1, NothingBetween
    <3> QED  BY <2>1, <3>1, <3>2 DEF Incomplete
  <2>2. CASE req'[r] = Idle  BY <1>3, <2>2, IdleType
  <2>3. CASE req'[r] = [req[r] EXCEPT !.pc = "incomplete"]
    BY <1>0, <1>3, <2>3 DEF Request
  <2>4. CASE /\ ReadIncomplete(r)
             /\ req'[r] = [req[r] EXCEPT !.pc = "close", !.incomplete = Incomplete(req[r].sprint)]
    <3> DEFINE found == Incomplete(req[r].sprint)
    <3>1. UNCHANGED task  BY <2>4 DEF ReadIncomplete
    <3>2. req'[r] = [req[r] EXCEPT !.pc = "close", !.incomplete = found]  BY <2>4
    <3> HIDE DEF found
    <3>3. req'[r].sprint = req[r].sprint /\ req'[r].incomplete = found
      BY <1>0, <3>2 DEF Request
    <3> QED  BY <3>1, <3>3 DEF found, Incomplete
  <2>5. CASE Starts(r, req'[r])  BY <1>3, <2>5 DEF Starts
  <2> QED  BY <1>0, <2>1, <2>2, <2>3, <2>4, <2>5, HandlerStep
<1>4. ClosesAll'  BY <1>3 DEF ClosesAll
<1> QED  BY <1>0, <1>2, <1>4 DEF SerialInv

(***************************************************************************)
(* When requests come one at a time, closing a sprint leaves no unfinished *)
(* task in it unless KEEP was asked for.                                   *)
(***************************************************************************)
THEOREM NoLeftovers ==
  ASSUME Isolation = "serial"
  PROVE  Spec => CloseLeavesNoLeftovers
<1> DEFINE Left(r) == \A t \in Tasks : task'[t].state = "live" /\ task'[t].sprint = req[r].sprint
                                         => task'[t].done
<1>1. Init => SerialInv
  BY InitType, IdleType DEF Init, SerialInv, OneInFlight, ClosesAll, InFlight
<1>2. SerialInv /\ [Next]_vars => SerialInv'  BY SerialStep
<1>3. ASSUME SerialInv, NEW r \in Requests, CloseCommit(r), req[r].decision # "KEEP",
             NEW t \in Tasks, task'[t].state = "live", task'[t].sprint = req[r].sprint
      PROVE  task'[t].done
  <2>1. /\ task \in [Tasks -> TaskRow] /\ req[r].target # req[r].sprint
        /\ req[r].incomplete = Incomplete(req[r].sprint) /\ Moved(req[r]) = req[r].incomplete
    BY <1>3, BodyAssumption DEF SerialInv, ClosesAll, CloseCommit, Moved, TypeOK, RequestOK
  <2>2. task'[t] = IF t \in Moved(req[r]) THEN [task[t] EXCEPT !.sprint = req[r].target]
                                          ELSE task[t]
    BY <1>3 DEF CloseCommit
  <2>3. t \notin Moved(req[r])
    BY <1>3, <2>1, <2>2 DEF TaskRow
  <2> QED  BY <1>3, <2>1, <2>2, <2>3 DEF Incomplete, TaskRow
<1>4. SerialInv /\ [Next]_vars =>
        [\A r \in Requests : CloseCommit(r) /\ req[r].decision # "KEEP" => Left(r)]_vars
  BY <1>3
<1> QED  BY <1>1, <1>2, <1>4, PTL DEF Spec, CloseLeavesNoLeftovers

=============================================================================
