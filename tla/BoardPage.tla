------------------------------ MODULE BoardPage ------------------------------
(***************************************************************************)
(* The board page (front-end/app/dashboard/board/[id]/page.tsx) of one     *)
(* user, on top of the handlers of TaskBoard, which other users call too.  *)
(*                                                                         *)
(* The page shows the newest answer of the query "board-lists", or, from a *)
(* drop until the next answer, an order of its own (`view'). Both hold the *)
(* same task objects: what a drop assigns to their positions it assigns to *)
(* the cached answer as well (`data.at').                                  *)
(*                                                                         *)
(* Every call of the page is a Next.js server action, and the browser      *)
(* sends those one at a time, in the order they were made (`calls'). React *)
(* Query drops a fetch that is due when the query is invalidated, and asks *)
(* again; the page hears of the changes of other users only by asking.     *)
(***************************************************************************)
EXTENDS TaskBoard, SequencesExt

CONSTANTS
  Page,       \* the handler that serves the calls of the page
  StartRow,   \* the table Task when the page is opened
  MaxActs     \* bound: how often the users act, the one on the page and the others

ASSUME PageAssumption ==
  /\ Page \in Requests
  /\ MaxActs \in Nat

\* the page is opened on a table as TaskBoard may leave it
ASSUME StartAssumption ==
  /\ StartRow \in [Tasks -> TaskRow]
  /\ \A t \in Tasks :
       IF StartRow[t].state = "absent" THEN StartRow[t] = NoRow
       ELSE StartRow[t].list \in Lists /\ StartRow[t].status \in Status

VARIABLES
  data,    \* the cached answer of getAllList, with the positions the page assigned
  view,    \* optimisticLists: the list of each task, or None
  drag,    \* the task in the hand of the user, and where it was lifted
  calls,   \* the server actions that wait for their answer, oldest first
  missed,  \* history: whose changes, or which failures, no answer has told of since
  acts     \* how often the users have acted

client == <<data, view, drag, calls, acts>>
pageVars == <<vars, client, missed>>

Columns == Lists \cup {None}

\* findAll and getAllList: the live tasks of each list; the page sorts them itself
AnswerOf(rows) ==
  [ok |-> TRUE,
   in |-> [t \in Tasks |-> IF rows[t].state = "live" THEN rows[t].list ELSE None],
   at |-> [t \in Tasks |-> IF rows[t].state = "live" THEN rows[t].position ELSE 0]]

\* { success: false } is an answer too, and one without lists
NoLists == [ok |-> FALSE, in |-> [t \in Tasks |-> None], at |-> [t \in Tasks |-> 0]]

\* lists = optimisticLists ?? serverLists
Placed == IF view = None THEN data.in ELSE view

\* each list as it is rendered: by the position of its tasks
Arranged(in, at) ==
  [l \in Lists |-> SetToSortSeq({t \in Tasks : in[t] = l}, LAMBDA a, b : at[a] <= at[b])]

Shown == Arranged(Placed, data.at)

ServerOrder == Arranged(AnswerOf(row).in, AnswerOf(row).at)

\* what the user sees, and what there is to be seen
Sight == [in |-> Placed, order |-> Shown]
ServerSight == [in |-> AnswerOf(row).in, order |-> ServerOrder]

(***************************************************************************)
(* A call: `from' is what the user saw and `sees' the order the drop       *)
(* showed instead (None once they say nothing: see DropsLand).             *)
(***************************************************************************)
Call == [op: {"reorder", "move", "create", "remove", "fetch"},
         state: {"queued", "sent", "done", "refused"},
         task: Tasks \cup {None}, list: Columns, index: Nat,
         kept: BOOLEAN, retried: BOOLEAN]

NewCall(op) == [op |-> op, state |-> "queued", task |-> None, list |-> None,
                index |-> 0, kept |-> TRUE, retried |-> FALSE,
                answer |-> NoLists, from |-> None, sees |-> None]

Fetch == NewCall("fetch")

PageInit ==
  /\ row = StartRow
  /\ audit = [t \in Tasks |-> Entry(None)]
  /\ req = [r \in Requests |-> Idle]
  /\ failures = 0
  /\ data = AnswerOf(StartRow)
  /\ view = None /\ drag = None /\ calls = <<>> /\ missed = {}
  /\ acts = 0

-----------------------------------------------------------------------------
(* The user *)

\* somebody does something: there is no end to it in the code

Acts ==
  /\ acts < MaxActs
  /\ acts' = acts + 1

\* a drag begins: the library remembers where the task is now
Lift(t) ==
  /\ drag = None
  /\ Acts
  /\ \E l \in Lists : \E i \in 1 .. Len(Shown[l]) :
       /\ Shown[l][i] = t
       /\ drag' = [task |-> t, list |-> l, index |-> i - 1, seen |-> Sight]
  /\ UNCHANGED <<vars, data, view, calls, missed>>

\* if (!destination), or the place it came from
PutBack ==
  /\ drag # None
  /\ drag' = None
  /\ UNCHANGED <<vars, data, view, calls, missed, acts>>

\* seeded bug: behind the task at the index, not before it
InsertedBehind(s, i, t) == InsertAt(s, IF i = Len(s) THEN i + 1 ELSE i + 2, t)

\* splice(index, 0, moved)
Inserted(s, i, t) == InsertAt(s, i + 1, t)

\* the order the splices of a drop make of the one shown; the second clips its index
Rearranged(order, k, from, l, to) ==
  LET rest == RemoveAt(order[k], from + 1)
      target == IF l = k THEN rest ELSE order[l]
      i == IF to > Len(target) THEN Len(target) ELSE to
  IN  [m \in Lists |-> IF m = l THEN Inserted(target, i, order[k][from + 1])
                       ELSE IF m = k THEN rest
                       ELSE order[m]]

\* t.position = i, in the lists the drop touches
Reassigned(order, k, l) ==
  LET indexes(t) == {i \in 0 .. Cardinality(Tasks) :
                       \E m \in {k, l} : i < Len(order[m]) /\ order[m][i + 1] = t}
  IN  [t \in Tasks |-> IF indexes(t) = {} THEN data.at[t]
                       ELSE CHOOSE i \in indexes(t) : TRUE]

(***************************************************************************)
(* handleDragEnd: the index the task was lifted from is looked up in the   *)
(* lists as they are now, whatever has arrived in between; the call names  *)
(* the dragged task.                                                       *)
(***************************************************************************)
Drop(l, i) ==
  /\ drag # None
  /\ ~ (l = drag.list /\ i = drag.index)
  /\ drag' = None
  /\ IF drag.index >= Len(Shown[drag.list])
     THEN UNCHANGED <<data, view, calls>>    \* if (!moved) return
     ELSE LET moved == Shown[drag.list][drag.index + 1]
              after == Rearranged(Shown, drag.list, drag.index, l, i)
          IN  /\ view' = [Placed EXCEPT ![moved] = l]
              /\ data' = [data EXCEPT !.at = Reassigned(after, drag.list, l)]
              /\ calls' = Append(calls,
                   [NewCall(IF l = drag.list THEN "reorder" ELSE "move") EXCEPT
                      !.task = drag.task, !.list = l, !.index = i,
                      !.from = IF Sight = drag.seen THEN Sight ELSE None,
                      !.sees = after])
  /\ UNCHANGED <<vars, missed, acts>>

\* bound: the supply of task ids, for the creates under way and those of the page
IdsSpare ==
  Cardinality({r \in Requests : req[r].pc = "create"})
    + Cardinality({i \in DOMAIN calls : calls[i].op = "create"})
    < Cardinality({t \in Tasks : row[t].state = "absent"})

\* CreateTaskDialog.handleSubmit
SubmitCreate(l) ==
  /\ IdsSpare
  /\ Acts
  /\ calls' = Append(calls, [NewCall("create") EXCEPT !.list = l])
  /\ UNCHANGED <<vars, data, view, drag, missed>>

\* EditTaskDialog.handleDelete
SubmitDelete(t) ==
  /\ Placed[t] # None
  /\ Acts
  /\ calls' = Append(calls, [NewCall("remove") EXCEPT !.task = t])
  /\ UNCHANGED <<vars, data, view, drag, missed>>

-----------------------------------------------------------------------------
(* The calls of the page, one at a time *)

Waiting(op) == calls # <<>> /\ Head(calls).state = "queued" /\ Head(calls).op = op

HeadBecomes(call) == calls' = <<call>> \o Tail(calls)

\* the handler of a drop or of a dialog begins
SendWrite ==
  /\ LET c == Head(calls) IN
     \/ Waiting("reorder") /\ BeginUpdatePosition(Page, c.task, c.index)
     \/ Waiting("move") /\ BeginMove(Page, c.task, c.list, c.index)
     \/ Waiting("create") /\ BeginCreate(Page, c.list, DONE)
     \/ Waiting("remove") /\ BeginRemove(Page, c.task)
  /\ HeadBecomes([Head(calls) EXCEPT
       !.state = "sent",
       !.from = IF PositionsDense /\ @ = ServerSight THEN @ ELSE None])
  /\ UNCHANGED <<data, view, drag, missed, acts>>

\* 404: the task has been deleted in the meantime
SendInVain ==
  /\ \E op \in {"reorder", "move", "remove"} : Waiting(op)
  /\ ~ Found(Head(calls).task)
  /\ HeadBecomes([Head(calls) EXCEPT !.state = "refused"])
  /\ UNCHANGED <<vars, data, view, drag, missed, acts>>

\* ListService.findAll
ServeFetch ==
  /\ Waiting("fetch")
  /\ HeadBecomes([Head(calls) EXCEPT !.state = "done", !.answer = AnswerOf(row)])
  /\ missed' = IF Head(calls).kept THEN {} ELSE missed
  /\ UNCHANGED <<vars, data, view, drag, acts>>

\* the fetch is refused or fails, which getAllList returns as a value
FailFetch ==
  /\ Waiting("fetch")
  /\ failures < MaxFailures
  /\ failures' = failures + 1
  /\ HeadBecomes([Head(calls) EXCEPT !.state = "done"])
  /\ missed' = IF Head(calls).kept THEN missed \cup {"failure"} ELSE missed
  /\ UNCHANGED <<row, audit, req, data, view, drag, acts>>

ToldOf(who) == missed' = IF row' = row THEN missed ELSE missed \cup {who}

ServeWrite ==
  /\ Advance(Page)
  /\ ToldOf("page")
  /\ UNCHANGED client

FailWrite ==
  /\ Fail(Page)
  /\ HeadBecomes([Head(calls) EXCEPT !.state = "refused"])
  /\ UNCHANGED <<data, view, drag, missed, acts>>

Others(r) ==
  \/ /\ Acts
     /\ Accept(r)
     /\ req'[r].pc = "create" => IdsSpare
     /\ UNCHANGED <<data, view, drag, calls, missed>>
  \/ /\ Advance(r)
     /\ ToldOf("others")
     /\ UNCHANGED client

-----------------------------------------------------------------------------
(* The answers *)

\* seeded bug: a fetch that is due is left as it is
RefetchedBeside(cs) == Append(cs, Fetch)

\* invalidateQueries: what is due is not wanted any more, and asked for again
Refetched(cs) ==
  Append([i \in DOMAIN cs |-> IF cs[i].op = "fetch" THEN [cs[i] EXCEPT !.kept = FALSE]
                              ELSE cs[i]],
         Fetch)

\* seeded bug: asks again only when the move was refused
AfterMoveRefused(cs, refused) == IF refused THEN Refetched(cs) ELSE cs

\* handleDragEnd asks again whatever the move was answered
AfterMove(cs, refused) == Refetched(cs)

\* the dialogs ask again only after success
AfterDialog(cs, refused) == IF refused THEN cs ELSE Refetched(cs)

Answered(c) ==
  \/ c.state \in {"done", "refused"}
  \/ c.state = "sent" /\ ~ InFlight(Page)

\* a refused drop gives up the order of the page, not the positions it assigned
AnswerMove ==
  LET c == Head(calls) IN
  /\ calls # <<>> /\ c.op \in {"reorder", "move"} /\ Answered(c)
  /\ view' = IF c.state = "refused" THEN None ELSE view
  /\ calls' = AfterMove(Tail(calls), c.state = "refused")
  /\ UNCHANGED <<vars, data, drag, missed, acts>>

AnswerDialog ==
  LET c == Head(calls) IN
  /\ calls # <<>> /\ c.op \in {"create", "remove"} /\ Answered(c)
  /\ calls' = AfterDialog(Tail(calls), c.state = "refused")
  /\ missed' = IF c.state = "refused" THEN missed \cup {"failure"} ELSE missed
  /\ UNCHANGED <<vars, data, view, drag, acts>>

(***************************************************************************)
(* Whatever answer arrives, the order of the page goes (useEffect on       *)
(* listsData). Where the answer equals the cached one React Query keeps    *)
(* the old object and the effect does not run, but then the order of the   *)
(* page is the same as that of the answer.                                 *)
(***************************************************************************)
AnswerFetch ==
  LET c == Head(calls) IN
  /\ calls # <<>> /\ c.op = "fetch" /\ Answered(c)
  /\ data' = IF c.kept THEN c.answer ELSE data
  /\ view' = IF c.kept THEN None ELSE view
  /\ calls' = Tail(calls)
  /\ UNCHANGED <<vars, drag, missed, acts>>

(***************************************************************************)
(* The call itself breaks, before the server saw it or after it answered.  *)
(* React Query tries a fetch once more. Nothing catches it in              *)
(* handleDragEnd: neither is the order of the page given up nor does it    *)
(* ask again.                                                              *)
(***************************************************************************)
Break ==
  LET c == Head(calls) IN
  /\ calls # <<>>
  /\ c.state = "queued" \/ Answered(c)
  /\ failures < MaxFailures
  /\ failures' = failures + 1
  /\ calls' = IF c.op = "fetch" /\ c.kept /\ ~ c.retried
              THEN Append(Tail(calls), [Fetch EXCEPT !.retried = TRUE])
              ELSE Tail(calls)
  /\ missed' = IF c.op = "fetch" /\ ~ c.kept THEN missed ELSE missed \cup {"failure"}
  /\ UNCHANGED <<row, audit, req, data, view, drag, acts>>

-----------------------------------------------------------------------------
User ==
  \/ \E t \in Tasks : Lift(t) \/ SubmitDelete(t)
  \/ PutBack
  \/ \E l \in Lists : SubmitCreate(l)
  \/ \E l \in Lists : \E i \in 0 .. Cardinality(Tasks) :
       /\ drag # None
       /\ i < Len(drag.seen.order[l]) \/ (l # drag.list /\ i = Len(drag.seen.order[l]))
       /\ Drop(l, i)

Serve == SendWrite \/ SendInVain \/ ServeFetch \/ ServeWrite

Answer == AnswerMove \/ AnswerDialog \/ AnswerFetch

PageNext ==
  \/ User
  \/ Serve
  \/ Answer
  \/ FailFetch
  \/ FailWrite
  \/ Break
  \/ \E r \in Requests \ {Page} : Others(r)

(***************************************************************************)
(* A handler ends because its awaits do, and a call because its handler    *)
(* does. Nobody has to drag a task, and nothing has to fail.               *)
(***************************************************************************)
Fairness ==
  /\ WF_pageVars(Serve)
  /\ WF_pageVars(Answer)
  /\ \A r \in Requests \ {Page} : WF_pageVars(Advance(r) /\ Others(r))

PageSpec == PageInit /\ [][PageNext]_pageVars /\ Fairness

-----------------------------------------------------------------------------
(* Properties *)

(***************************************************************************)
(* Only the oldest call has been sent, the handler of the page works for   *)
(* it, and at most one of the fetches that are due will be shown.          *)
(***************************************************************************)
PageTypeOK ==
  /\ TypeOK
  /\ data \in [ok: BOOLEAN, in: [Tasks -> Columns], at: [Tasks -> Int]]
  /\ view = None \/ view \in [Tasks -> Columns]
  /\ \A i \in DOMAIN calls :
       /\ [f \in DOMAIN Fetch \ {"answer", "from", "sees"} |-> calls[i][f]] \in Call
       /\ i > 1 => calls[i].state = "queued"
       /\ \A j \in DOMAIN calls :
            calls[i].op = "fetch" /\ calls[j].op = "fetch" /\ calls[i].kept /\ calls[j].kept
              => i = j
  /\ InFlight(Page) => calls # <<>> /\ Head(calls).state = "sent"
  /\ missed \subseteq {"page", "others", "failure"}

\* the page shows every task where the server has it
UpToDate ==
  \A t \in Tasks : Placed[t] = AnswerOf(row).in[t] /\ data.at[t] = AnswerOf(row).at[t]

(***************************************************************************)
(* However drops, dialogs, late answers and refused moves interleave, the  *)
(* page is in the end not behind what it did itself, and shows what the    *)
(* server has unless somebody else changed it or a call failed after the   *)
(* newest answer was read (the refetch at the end of handleDragEnd and of  *)
(* the dialogs).                                                           *)
(***************************************************************************)
Settles == <>[](missed # {"page"} /\ (missed = {} => UpToDate))

(***************************************************************************)
(* A drop that finds the lists on the server as the user saw them, with    *)
(* positions 0..n-1, puts them into exactly the order the page showed: the *)
(* splices of handleDragEnd and the shifts of updatePosition and           *)
(* moveTaskToList agree on what an index means, also when several drops    *)
(* are under way. The other users act between any two drops, but not on    *)
(* the lists of a move between its first read and its transaction.         *)
(***************************************************************************)
DropsLand ==
  [][ServeWrite /\ req[Page].pc \in {"set", "move"} /\ Head(calls).from # None
       => \A l \in {req[Page].seen.list, Head(calls).list} :
            ServerOrder'[l] = Head(calls).sees[l]]_pageVars

=============================================================================
