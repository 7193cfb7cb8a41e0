------------------------------ MODULE SprintPage ------------------------------
(***************************************************************************)
(* The page of the sprints (front-end/app/dashboard/sprints/page.tsx) of   *)
(* one user with its dialogs, on top of the handlers of SprintLifecycle.   *)
(*                                                                         *)
(* The page shows the newest answers of two queries: "sprint-active" and   *)
(* "sprints". As in BoardPage its calls are server actions, sent one at a  *)
(* time; a fetch that is due is dropped when its query is invalidated.     *)
(*                                                                         *)
(* Meanwhile other users work on tasks, on the board page. Left out: a     *)
(* second page of the same user, and boards that are deleted.              *)
(***************************************************************************)
EXTENDS SprintLifecycle, SequencesExt

CONSTANTS
  Page,                    \* the handler that serves the calls of the page
  Me, Home,                \* its user, and the board selected in the sidebar
  Start, End,              \* the dates of the sprints the user creates
  StartSprint, StartTask,  \* the tables when the page is opened
  MaxActs, MaxFailures     \* bounds: how often the users act, how often a call fails

ASSUME PageAssumption ==
  /\ Page \in Requests
  /\ Me \in Users /\ Home \in Boards /\ Me \in AdminsOf[Home]
  /\ Start \in Days /\ End \in Days
  /\ <<None, None>> \in PatchedDates  \* an activation sends no date
  /\ MaxActs \in Nat /\ MaxFailures \in Nat

\* the page is opened on tables as SprintLifecycle may leave them
ASSUME StartAssumption ==
  /\ StartSprint \in [Sprints -> SprintRow]
  /\ \A s \in Sprints :
       IF StartSprint[s].state = "absent" THEN StartSprint[s] = NoSprint
       ELSE StartSprint[s].owner \in Users /\ StartSprint[s].board \in Boards
            /\ StartSprint[s].start \in Days /\ StartSprint[s].end \in Days
  /\ StartTask \in [Tasks -> TaskRow]
  /\ \A t \in Tasks :
       /\ StartTask[t].state \in {"live", "deleted"} => StartTask[t].board \in Boards
       /\ StartTask[t].sprint # None =>
            /\ StartTask[t].state \in {"live", "deleted"}
            /\ StartSprint[StartTask[t].sprint].state \in SprintStatus

VARIABLES
  shown,     \* the cached answer of each query
  dialog,    \* CloseSprintDialog, and closeDialogOpen of the page
  calls,     \* the server actions that wait for their answer, oldest first
  missed,    \* history: whose changes, or which failures, no answer of the query told of
  acts,      \* how often the users have acted
  failures   \* how many calls have failed

client == <<shown, dialog, calls, acts>>
pageVars == <<vars, client, missed, failures>>

Queries == {"sprint-active", "sprints"}

NoActive == [sprint |-> None, tasks |-> {}, done |-> {}]

\* getActive: the active sprint of the user (there is one at most), its live tasks
ActiveAnswer(rows, links) ==
  LET mine == {s \in Sprints : rows[s].owner = Me /\ rows[s].state = "ACTIVE"}
      s == CHOOSE s \in mine : TRUE
      in == {t \in Tasks : links[t].state = "live" /\ links[t].sprint = s}
  IN  IF mine = {} THEN NoActive
      ELSE [sprint |-> s, tasks |-> in, done |-> {t \in in : links[t].done}]

\* listByBoard; the page and its dialogs look at those that are PLANNED
PlannedAnswer(rows) == {s \in Sprints : rows[s].owner = Me /\ rows[s].state = "PLANNED"}

AnswerOf(rows, links) ==
  [k \in Queries |-> IF k = "sprints" THEN PlannedAnswer(rows) ELSE ActiveAnswer(rows, links)]

\* { success: false } is an answer too, and shown as no sprint
Refusal == [k \in Queries |-> IF k = "sprints" THEN {} ELSE NoActive]

\* incompleteCount: whatever is not DONE is in one of the other columns
Counted(answer) == answer.tasks \ answer.done

(***************************************************************************)
(* A call: `fresh' tells that the page was up to date and nothing was due  *)
(* when it was made, `counted' the tasks the dialog asked a decision for.  *)
(***************************************************************************)
Call == [op: {"activate", "create", "start", "add", "take", "close", "fetch"},
         state: {"queued", "sent", "done", "refused"},
         query: Queries \cup {None}, sprint: Sprints \cup {None}, task: Tasks \cup {None},
         decision: Decision \cup {None}, target: Sprints \cup {None},
         now: BOOLEAN, kept: BOOLEAN, retried: BOOLEAN,
         fresh: BOOLEAN, counted: SUBSET Tasks]

NewCall(op) ==
  [op |-> op, state |-> "queued", query |-> None, sprint |-> None, task |-> None,
   decision |-> None, target |-> None, now |-> FALSE, kept |-> TRUE, retried |-> FALSE,
   fresh |-> FALSE, counted |-> {}, answer |-> {}]

Fetch(k) == [NewCall("fetch") EXCEPT !.query = k]

-----------------------------------------------------------------------------
(* CloseSprintDialog *)

NewDialog == [open |-> FALSE, decision |-> "MOVE_TO_NEXT", target |-> None,
              loading |-> FALSE]

\* the sprints it offers, other than the one it closes
Offered(answers) == answers["sprints"] \ {answers["sprint-active"].sprint}

\* orderBy: startDate desc
First(some) == {s \in some : \A o \in some : sprint[o].start <= sprint[s].start}

(***************************************************************************)
(* The two effects: without a sprint to move tasks to the decision falls   *)
(* back to RETURN_TO_BACKLOG, otherwise the first sprint is preselected,   *)
(* unless one has been already. Of sprints that start at the same time any *)
(* may come first.                                                         *)
(***************************************************************************)
Effects(d, offered) ==
  IF d.decision # "MOVE_TO_NEXT" THEN {d}
  ELSE IF offered = {} THEN {IF d.open THEN [d EXCEPT !.decision = "RETURN_TO_BACKLOG"] ELSE d}
  ELSE IF d.target # None THEN {d}
  ELSE {[d EXCEPT !.target = s] : s \in First(offered)}

\* it is unmounted with the sprint and loses its state, but whether it is open
\* is state of the page: it comes back open with the next sprint
Rendered(d, answers) ==
  IF answers["sprint-active"].sprint = None THEN {[NewDialog EXCEPT !.open = d.open]}
  ELSE Effects(d, Offered(answers))

PageInit ==
  /\ sprint = StartSprint
  /\ task = StartTask
  /\ removed = {} /\ stray = {}
  /\ req = [r \in Requests |-> Idle]
  /\ shown = AnswerOf(StartSprint, StartTask)
  /\ dialog \in Rendered(NewDialog, AnswerOf(StartSprint, StartTask))
  /\ calls = <<>>
  /\ missed = [k \in Queries |-> {}]
  /\ acts = 0 /\ failures = 0

-----------------------------------------------------------------------------
(* The user *)

Active == shown["sprint-active"]

Acts ==
  /\ acts < MaxActs
  /\ acts' = acts + 1

UpToDate(k) == missed[k] = {}

Submit(call) ==
  /\ Acts
  /\ calls' = Append(calls,
       [call EXCEPT !.fresh = calls = <<>> /\ \A k \in Queries : UpToDate(k)])
  /\ UNCHANGED <<vars, shown, missed, failures>>

\* seeded bug: the button is always enabled
StartableAny(s) == s \in shown["sprints"]

\* the button is disabled while a sprint is shown
Startable(s) == s \in shown["sprints"] /\ Active.sprint = None

\* handleActivate
SubmitActivate(s) ==
  /\ Startable(s)
  /\ Submit([NewCall("activate") EXCEPT !.sprint = s])
  /\ UNCHANGED dialog

\* bound: the supply of sprint ids, for the creations that are due
IdsSpare ==
  Cardinality({i \in DOMAIN calls : calls[i].op = "create" /\ calls[i].state = "queued"})
    < Cardinality({s \in Sprints : sprint[s].state = "absent"})

\* CreateSprintDialog.handleSubmit, with "iniciar agora" or without
SubmitCreate(now) ==
  /\ IdsSpare
  /\ Active.sprint = None
  /\ Submit([NewCall("create") EXCEPT !.now = now])
  /\ UNCHANGED dialog

\* AddTaskDialog.handleAdd, of a task that was in no sprint when its list was read
SubmitAdd(t) ==
  /\ Active.sprint # None /\ task[t].state # "absent"
  /\ Submit([NewCall("add") EXCEPT !.sprint = Active.sprint, !.task = t])
  /\ UNCHANGED dialog

\* handleRemoveTask
SubmitRemove(t) ==
  /\ t \in Active.tasks
  /\ Submit([NewCall("take") EXCEPT !.sprint = Active.sprint, !.task = t])
  /\ UNCHANGED dialog

Due(k) == \E i \in DOMAIN calls : calls[i].op = "fetch" /\ calls[i].query = k /\ calls[i].kept

\* "sprints" is asked again if its answer is older than 5 seconds
OpenDialog ==
  /\ Active.sprint # None /\ ~ dialog.open
  /\ dialog' \in Effects([dialog EXCEPT !.open = TRUE], Offered(shown))
  /\ \/ UNCHANGED <<calls, acts>>
     \/ ~ Due("sprints") /\ Acts /\ calls' = Append(calls, Fetch("sprints"))
  /\ UNCHANGED <<vars, shown, missed, failures>>

DialogShown == dialog.open /\ Active.sprint # None

\* a decision is asked for only if some task was left over
Asked == DialogShown /\ Counted(Active) # {}

\* a target that was chosen before is kept, listed or not
ChooseDecision(decision) ==
  /\ Asked /\ decision # dialog.decision
  /\ decision = "MOVE_TO_NEXT" => Offered(shown) # {}
  /\ dialog' \in Effects([dialog EXCEPT !.decision = decision], Offered(shown))
  /\ UNCHANGED <<vars, shown, calls, missed, acts, failures>>

ChooseTarget(s) ==
  /\ Asked /\ dialog.decision = "MOVE_TO_NEXT"
  /\ s \in Offered(shown) /\ s # dialog.target
  /\ dialog' = [dialog EXCEPT !.target = s]
  /\ UNCHANGED <<vars, shown, calls, missed, acts, failures>>

\* handleSubmit; the buttons are disabled from here to the answer
SubmitClose ==
  /\ DialogShown /\ ~ dialog.loading
  /\ dialog.decision = "MOVE_TO_NEXT" => dialog.target # None
  /\ Submit([NewCall("close") EXCEPT
       !.sprint = Active.sprint, !.decision = dialog.decision,
       !.target = IF dialog.decision = "MOVE_TO_NEXT" THEN dialog.target ELSE None,
       !.counted = Counted(Active)])
  /\ dialog' = [dialog EXCEPT !.loading = TRUE]

Cancel ==
  /\ DialogShown /\ ~ dialog.loading
  /\ dialog' = [dialog EXCEPT !.open = FALSE]
  /\ UNCHANGED <<vars, shown, calls, missed, acts, failures>>

-----------------------------------------------------------------------------
(* The calls of the page, one at a time *)

Waiting(op) == calls # <<>> /\ Head(calls).state = "queued" /\ Head(calls).op = op

HeadBecomes(call) == calls' = <<call>> \o Tail(calls)

\* whose change it was, for each query whose answer it changed
ToldOf(who) ==
  missed' = [k \in Queries |->
               IF AnswerOf(sprint', task')[k] = AnswerOf(sprint, task)[k] THEN missed[k]
               ELSE missed[k] \cup {who}]

SendCall ==
  /\ LET c == Head(calls) IN
     \/ \E op \in {"activate", "start"} :
          Waiting(op) /\ BeginUpdate(Page, c.sprint, "ACTIVE", <<None, None>>)
     \/ Waiting("add") /\ BeginAddTask(Page, c.sprint, c.task)
     \/ Waiting("take") /\ BeginRemoveTask(Page, c.sprint, c.task)
     \/ Waiting("close") /\ BeginClose(Page, c.sprint, c.decision, c.target)
  /\ HeadBecomes([Head(calls) EXCEPT !.state = "sent"])
  /\ UNCHANGED <<shown, dialog, missed, acts, failures>>

\* the first checks of a handler
RefusedAtOnce(c) ==
  \/ c.op \in {"activate", "start"} /\ OtherActive(c.sprint)
  \/ c.op = "add" /\ ~ Addable(c.sprint, c.task)
  \/ c.op = "take" /\ ~ Takeable(c.sprint, c.task)
  \/ c.op = "close" /\ (sprint[c.sprint].state = "COMPLETED" \/ c.target = c.sprint)

\* a check of the handler, then or later, refuses the call
Refuse ==
  /\ calls # <<>>
  /\ \/ /\ Head(calls).state = "queued" /\ RefusedAtOnce(Head(calls))
        /\ UNCHANGED vars
     \/ /\ req[Page].pc = "target" /\ ~ TargetOK(req[Page])
        /\ Fail(Page)
  /\ HeadBecomes([Head(calls) EXCEPT !.state = "refused"])
  /\ UNCHANGED <<shown, dialog, missed, acts, failures>>

ServeCreate ==
  /\ Waiting("create")
  /\ \E s \in Sprints :
       /\ CreateSprint(Me, Home, s, Start, End)
       /\ HeadBecomes([Head(calls) EXCEPT !.state = "done", !.sprint = s])
  /\ ToldOf("page")
  /\ UNCHANGED <<shown, dialog, acts, failures>>

ServeFetch ==
  LET c == Head(calls) IN
  /\ Waiting("fetch")
  /\ HeadBecomes([c EXCEPT !.state = "done", !.answer = AnswerOf(sprint, task)[c.query]])
  /\ missed' = IF c.kept THEN [missed EXCEPT ![c.query] = {}] ELSE missed
  /\ UNCHANGED <<vars, shown, dialog, acts, failures>>

ServeCall ==
  /\ Advance(Page)
  /\ ToldOf("page")
  /\ UNCHANGED <<client, failures>>

Failing ==
  /\ failures < MaxFailures
  /\ failures' = failures + 1

\* the request is refused or fails, which lib/actions/sprint.ts returns as a value
FailCall ==
  LET c == Head(calls) IN
  /\ Failing
  /\ calls # <<>>
  /\ \/ c.state = "queued" /\ UNCHANGED vars
     \/ Fail(Page)
  /\ HeadBecomes([c EXCEPT !.state = "refused",
                        !.answer = IF c.op = "fetch" THEN Refusal[c.query] ELSE {}])
  /\ missed' = [k \in Queries |-> IF c.op = "fetch" /\ ~ (c.kept /\ c.query = k)
                                  THEN missed[k] ELSE missed[k] \cup {"failure"}]
  /\ UNCHANGED <<shown, dialog, acts>>

\* other users, on the board page
Others ==
  /\ Acts
  /\ \E t \in Tasks, d \in BOOLEAN :
       \/ \E b \in Boards : CreateTask(t, b, d)
       \/ \E b \in Boards : MoveTasks({t}, b)
       \/ \E s \in PatchedSprints \cup {task[t].sprint} : PatchTask(t, s, d)
       \/ DeleteTask(t)
  /\ ToldOf("others")
  /\ UNCHANGED <<shown, dialog, calls, failures>>

-----------------------------------------------------------------------------
(* The answers *)

\* seeded bug: a fetch that is due is left as it is
RefetchedBeside(cs, keys) == cs \o [i \in DOMAIN keys |-> Fetch(keys[i])]

\* invalidateQueries: what is due is not wanted any more, and asked for again
Refetched(cs, keys) ==
  [i \in DOMAIN cs |-> IF cs[i].op = "fetch" /\ cs[i].query \in ToSet(keys)
                       THEN [cs[i] EXCEPT !.kept = FALSE] ELSE cs[i]]
  \o [i \in DOMAIN keys |-> Fetch(keys[i])]

\* seeded bug: after an activation only the list of the sprints is asked again
InvalidatedSprints(c) ==
  IF c.op \in {"add", "take"} THEN <<"sprint-active">> ELSE <<"sprints">>

\* what the handlers of the page and of its dialogs invalidate
Invalidated(c) ==
  IF c.op \in {"add", "take"} THEN <<"sprint-active">> ELSE <<"sprint-active", "sprints">>

Answered(c) ==
  \/ c.state \in {"done", "refused"}
  \/ c.state = "sent" /\ ~ InFlight(Page)

Closing(cs) == \E i \in DOMAIN cs : cs[i].op = "close"

(***************************************************************************)
(* A creation is followed by the activation if that was asked for; then    *)
(* both queries are asked again whatever the answer. Any other handler     *)
(* does so only after success, and then CloseSprintDialog is closed. A     *)
(* dialog that was mounted since it was asked to close waits for its own.  *)
(***************************************************************************)
AnswerCall ==
  LET c == Head(calls)
      ok == c.state # "refused" IN
  /\ calls # <<>> /\ c.op # "fetch" /\ Answered(c)
  /\ calls' = IF c.op = "create" /\ c.now /\ ok
              THEN Append(Tail(calls), [NewCall("start") EXCEPT !.sprint = c.sprint])
              ELSE IF ok \/ c.op = "start" THEN Refetched(Tail(calls), Invalidated(c))
              ELSE Tail(calls)
  /\ dialog' = IF c.op = "close"
               THEN [dialog EXCEPT !.open = @ /\ ~ ok, !.loading = @ /\ Closing(Tail(calls))]
               ELSE dialog
  /\ UNCHANGED <<vars, shown, missed, acts, failures>>

AnswerFetch ==
  LET c == Head(calls) IN
  /\ calls # <<>> /\ c.op = "fetch" /\ Answered(c)
  /\ shown' = IF c.kept THEN [shown EXCEPT ![c.query] = c.answer] ELSE shown
  /\ dialog' \in Rendered(dialog, shown')
  /\ calls' = Tail(calls)
  /\ UNCHANGED <<vars, missed, acts, failures>>

(***************************************************************************)
(* The call itself breaks, before the server saw it or after it answered.  *)
(* React Query tries a fetch once more; nothing catches it elsewhere, and  *)
(* the buttons of a dialog that waits for it stay disabled.                *)
(***************************************************************************)
Break ==
  LET c == Head(calls) IN
  /\ Failing
  /\ calls # <<>>
  /\ c.state = "queued" \/ Answered(c)
  /\ calls' = IF c.op = "fetch" /\ c.kept /\ ~ c.retried
              THEN Append(Tail(calls), [Fetch(c.query) EXCEPT !.retried = TRUE])
              ELSE Tail(calls)
  /\ missed' = [k \in Queries |-> IF c.op = "fetch" /\ ~ (c.kept /\ c.query = k)
                                  THEN missed[k] ELSE missed[k] \cup {"failure"}]
  /\ UNCHANGED <<vars, shown, dialog, acts>>

-----------------------------------------------------------------------------
User ==
  \/ \E s \in Sprints : SubmitActivate(s)
  \/ \E now \in BOOLEAN : SubmitCreate(now)
  \/ \E t \in Tasks : SubmitAdd(t) \/ SubmitRemove(t)
  \/ OpenDialog
  \/ \E decision \in Decision : ChooseDecision(decision)
  \/ \E s \in Sprints : ChooseTarget(s)
  \/ SubmitClose
  \/ Cancel

Serve == SendCall \/ Refuse \/ ServeCreate \/ ServeFetch \/ ServeCall

Answer == AnswerCall \/ AnswerFetch

PageNext == User \/ Others \/ Serve \/ Answer \/ FailCall \/ Break

\* a handler ends because its awaits do, and a call because its handler does
Fairness == WF_pageVars(Serve) /\ WF_pageVars(Answer)

PageSpec == PageInit /\ [][PageNext]_pageVars /\ Fairness

-----------------------------------------------------------------------------
(* Properties *)

(***************************************************************************)
(* Only the oldest call has been sent, the handler of the page works for   *)
(* it, at most one of the fetches of a query that are due will be shown,   *)
(* and the dialog has no state of its own while no sprint is shown.        *)
(***************************************************************************)
PageTypeOK ==
  /\ TypeOK
  /\ shown["sprints"] \subseteq Sprints
  /\ Active.done \subseteq Active.tasks /\ Active.tasks \subseteq Tasks
  /\ Active.sprint = None => /\ Active = NoActive
                             /\ dialog = [NewDialog EXCEPT !.open = dialog.open]
  /\ dialog \in [open: BOOLEAN, decision: Decision, target: Sprints \cup {None},
                 loading: BOOLEAN]
  /\ \A i \in DOMAIN calls :
       /\ [f \in DOMAIN NewCall("fetch") \ {"answer"} |-> calls[i][f]] \in Call
       /\ i > 1 => calls[i].state = "queued"
       /\ \A j \in DOMAIN calls :
            /\ calls[i].op = "fetch" /\ calls[j].op = "fetch"
            /\ calls[i].kept /\ calls[j].kept /\ calls[i].query = calls[j].query
            => i = j
  /\ InFlight(Page) => calls # <<>> /\ Head(calls).state = "sent"
  /\ missed \in [Queries -> SUBSET {"page", "others", "failure"}]

(***************************************************************************)
(* However the calls of the page, late answers and the work of others      *)
(* interleave, neither query is in the end behind what the page did        *)
(* itself, and each shows what the server has unless somebody else changed *)
(* it or a call failed after the newest answer was read.                   *)
(***************************************************************************)
Settles ==
  <>[](\A k \in Queries : missed[k] # {"page"}
         /\ (UpToDate(k) => shown[k] = AnswerOf(sprint, task)[k]))

(***************************************************************************)
(* What an up-to-date page offers (an activation, a removal, a closing     *)
(* with one of the sprints CloseSprintDialog lists) is not refused, unless *)
(* somebody else came before it: the buttons and the dialog agree with the *)
(* checks of update, removeTask and closeSprint. A closing with a sprint   *)
(* that was preselected or chosen but is listed no more is not meant.      *)
(***************************************************************************)
OffersWhatIsAccepted ==
  [][Refuse /\ Head(calls).fresh /\ Head(calls).op # "add"
       /\ Head(calls).target \in Offered(shown) \cup {None}
       => \E k \in Queries : ~ UpToDate(k)]_pageVars

(***************************************************************************)
(* A sprint that the dialog said was finished ("Tudo foi concluído nesta   *)
(* sprint.", so that it asked for no decision) has no task that            *)
(* closeSprint redistributes, unless somebody else came before it or a     *)
(* call failed. The code does not keep this: a task that the page is just  *)
(* adding is not in the answer the dialog counts.                          *)
(***************************************************************************)
ClosesWhatItCounted ==
  [][ReadIncomplete(Page) /\ Head(calls).counted = {}
       /\ missed["sprint-active"] \subseteq {"page"}
       => req'[Page].incomplete = {}]_pageVars

=============================================================================
