--------------------------- MODULE SprintPageProofs ---------------------------
(***************************************************************************)
(* Proofs about SprintPage, for every set of sprints, tasks and users and  *)
(* for any number of acts and failures.                                    *)
(***************************************************************************)
EXTENDS SprintPage, SprintProofs, SequenceTheorems

-----------------------------------------------------------------------------
(* The inductive invariant *)

\* the answers to each query
Plans == SUBSET Sprints
Actives == {a \in [sprint: Sprints \cup {None}, tasks: SUBSET Tasks, done: SUBSET Tasks] :
              a.done \subseteq a.tasks /\ (a.sprint = None => a = NoActive)}
Answers(k) == IF k = "sprints" THEN Plans ELSE Actives

FullCall ==
  [op: {"activate", "create", "start", "add", "take", "close", "fetch"},
   state: {"queued", "sent", "done", "refused"},
   query: Queries \cup {None}, sprint: Sprints \cup {None}, task: Tasks \cup {None},
   decision: Decision \cup {None}, target: Sprints \cup {None},
   now: BOOLEAN, kept: BOOLEAN, retried: BOOLEAN,
   fresh: BOOLEAN, counted: SUBSET Tasks, answer: Plans \cup Actives]

\* a call has what the server needs, and what its answer will be
CallOK(c) ==
  /\ c.op = "fetch" =>
       /\ c.query \in Queries /\ c.state # "sent" /\ ~ c.fresh
       /\ c.state # "queued" => c.answer \in Answers(c.query)
  /\ c.op = "create" => c.state # "sent" /\ (c.state = "done" => c.sprint \in Sprints)
  /\ c.op \notin {"fetch", "create"} => c.sprint \in Sprints
  /\ c.op \in {"add", "take"} => c.task \in Tasks
  /\ c.op = "close" => c.decision \in Decision

\* both are fetches of one query whose answers are wanted
SameFetch(c, d) == c.op = "fetch" /\ d.op = "fetch" /\ c.kept /\ d.kept /\ c.query = d.query

OneKept(cs) == \A i, j \in DOMAIN cs : SameFetch(cs[i], cs[j]) => i = j

\* the calls that wait, and all calls: only the oldest may be further on
Rest(cs) ==
  /\ cs \in Seq(FullCall) /\ OneKept(cs)
  /\ \A i \in DOMAIN cs : CallOK(cs[i]) /\ cs[i].state = "queued" /\ ~ cs[i].fresh

Queue(cs) ==
  /\ cs \in Seq(FullCall) /\ OneKept(cs)
  /\ \A i \in DOMAIN cs :
       /\ CallOK(cs[i])
       /\ i > 1 => cs[i].state = "queued" /\ ~ cs[i].fresh

ShownOK(answers) ==
  answers = [k \in Queries |-> answers[k]] /\ \A k \in Queries : answers[k] \in Answers(k)

DialogOK(d) ==
  d \in [open: BOOLEAN, decision: Decision, target: Sprints \cup {None}, loading: BOOLEAN]

\* without a sprint the dialog is a new one, though it may be open
Bare(d) == d.decision = "MOVE_TO_NEXT" /\ d.target = None /\ d.loading = FALSE

Unmounted == Active.sprint = None => Bare(dialog)

Missed == missed \in [Queries -> SUBSET {"page", "others", "failure"}]

\* the handler works for the oldest call
Serves(q, c) ==
  /\ c.state = "sent" /\ c.sprint = q.sprint
  /\ q.pc \in {"target", "incomplete"} => c.op = "close"
  /\ q.pc = "target" => q.target \in Sprints /\ c.target = q.target

Busy == InFlight(Page) => calls # <<>> /\ Serves(req[Page], calls[1])

\* what was offered when the oldest call was made is what is still shown
FreshCall(c) ==
  /\ c.op # "start"
  /\ c.op = "activate" => c.sprint \in shown["sprints"] /\ Active.sprint = None
  /\ c.op = "take" => c.sprint = Active.sprint /\ c.task \in Active.tasks
  /\ c.op = "close" =>
       c.sprint = Active.sprint /\ Active.sprint # None /\ c.counted = Counted(Active)

Fresh == calls # <<>> /\ calls[1].fresh => FreshCall(calls[1])

(***************************************************************************)
(* A query is up to date when its newest answer, which may be on its way,  *)
(* is what the server would answer now.                                    *)
(***************************************************************************)
Brings(k) ==
  calls # <<>> /\ calls[1].op = "fetch" /\ calls[1].query = k /\ calls[1].kept
  /\ calls[1].state # "queued"

Newest(k) == IF Brings(k) THEN calls[1].answer ELSE shown[k]

Faithful ==
  \A k \in Queries : UpToDate(k) =>
    /\ Newest(k) = AnswerOf(sprint, task)[k]
    /\ Brings(k) => calls[1].state # "refused"

PageInv ==
  /\ TypeOK /\ Queue(calls) /\ ShownOK(shown) /\ DialogOK(dialog) /\ Unmounted
  /\ Missed /\ Busy /\ Fresh /\ Faithful

-----------------------------------------------------------------------------
(* Queues of calls *)

LEMMA CallType ==
  ASSUME NEW c \in FullCall
  PROVE  [f \in DOMAIN NewCall("fetch") \ {"answer"} |-> c[f]] \in Call
<1>1. DOMAIN NewCall("fetch") \ {"answer"}
        = {"op", "state", "query", "sprint", "task", "decision", "target", "now", "kept",
           "retried", "fresh", "counted"}
  BY DEF NewCall
<1>2. [f \in {"op", "state", "query", "sprint", "task", "decision", "target", "now", "kept",
              "retried", "fresh", "counted"} |-> c[f]] \in Call
  BY DEF Call, FullCall
<1> QED  BY <1>1, <1>2

LEMMA NewCallType ==
  ASSUME NEW op \in {"activate", "create", "start", "add", "take", "close", "fetch"}
  PROVE  /\ NewCall(op) \in FullCall
         /\ NewCall(op).op = op /\ NewCall(op).state = "queued"
         /\ NewCall(op).fresh = FALSE /\ NewCall(op).target = None
BY DEF NewCall, FullCall, Plans

LEMMA FetchType ==
  ASSUME NEW k \in Queries
  PROVE  /\ Fetch(k) \in FullCall /\ CallOK(Fetch(k))
         /\ Fetch(k).op = "fetch" /\ Fetch(k).query = k /\ Fetch(k).kept
         /\ Fetch(k).state = "queued" /\ ~ Fetch(k).fresh
<1> DEFINE c == Fetch(k)
<1>1. /\ c \in FullCall /\ c.op = "fetch" /\ c.query = k /\ c.kept
      /\ c.state = "queued" /\ ~ c.fresh
  BY DEF Fetch, NewCall, FullCall, Plans
<1> HIDE DEF c
<1>2. CallOK(c)  BY <1>1 DEF CallOK
<1> QED  BY <1>1, <1>2 DEF c

LEMMA RestIsQueue == ASSUME NEW cs, Rest(cs) PROVE Queue(cs)
BY DEF Rest, Queue

LEMMA TailRest ==
  ASSUME NEW cs, Queue(cs), cs # <<>>
  PROVE  /\ Rest(Tail(cs)) /\ Len(Tail(cs)) = Len(cs) - 1
         /\ \A i \in DOMAIN Tail(cs) : i + 1 \in DOMAIN cs /\ i + 1 > 1 /\ Tail(cs)[i] = cs[i + 1]
         /\ cs[1] \in FullCall /\ CallOK(cs[1]) /\ Head(cs) = cs[1]
<1>1. cs \in Seq(FullCall) /\ Len(cs) \in Nat \ {0} /\ DOMAIN cs = 1 .. Len(cs)
  BY DEF Queue
<1>2. /\ Tail(cs) \in Seq(FullCall) /\ Len(Tail(cs)) = Len(cs) - 1
      /\ DOMAIN Tail(cs) = 1 .. Len(cs) - 1
      /\ \A i \in 1 .. Len(cs) - 1 : Tail(cs)[i] = cs[i + 1]
  BY <1>1, HeadTailProperties
<1>3. \A i \in 1 .. Len(cs) - 1 : i + 1 \in 1 .. Len(cs) /\ i + 1 > 1
  BY <1>1
<1> DEFINE tl == Tail(cs)
<1> HIDE DEF tl
<1>4. OneKept(tl)
  <2> SUFFICES ASSUME NEW i \in DOMAIN tl, NEW j \in DOMAIN tl, SameFetch(tl[i], tl[j])
               PROVE  i = j
    BY DEF OneKept
  <2>1. /\ i \in 1 .. Len(cs) - 1 /\ j \in 1 .. Len(cs) - 1
        /\ tl[i] = cs[i + 1] /\ tl[j] = cs[j + 1]
    BY <1>2 DEF tl
  <2>2. i + 1 = j + 1
    BY <1>1, <1>3, <2>1 DEF Queue, OneKept
  <2> QED  BY <1>1, <2>1, <2>2
<1>5. \A i \in DOMAIN tl : CallOK(tl[i]) /\ tl[i].state = "queued" /\ ~ tl[i].fresh
  BY <1>1, <1>2, <1>3 DEF tl, Queue
<1>6. cs[1] \in FullCall /\ CallOK(cs[1]) /\ Head(cs) = cs[1]
  BY <1>1 DEF Queue
<1> QED  BY <1>1, <1>2, <1>3, <1>4, <1>5, <1>6 DEF Rest, tl

\* a call that may be appended to the queue cs
Appendable(c, cs) ==
  /\ c \in FullCall /\ CallOK(c) /\ c.state = "queued"
  /\ c.fresh => cs = <<>>
  /\ \A i \in DOMAIN cs : ~ SameFetch(cs[i], c)

LEMMA Appended ==
  ASSUME NEW cs, cs \in Seq(FullCall), NEW c, Appendable(c, cs)
  PROVE  /\ Append(cs, c) # <<>>
         /\ Queue(cs) => Queue(Append(cs, c))
         /\ Rest(cs) => Queue(Append(cs, c))
         /\ Rest(cs) /\ ~ c.fresh => Rest(Append(cs, c))
         /\ cs # <<>> => Append(cs, c)[1] = cs[1]
         /\ cs = <<>> => Append(cs, c)[1] = c
<1> DEFINE n == Len(cs)
           as == Append(cs, c)
<1>1. /\ as \in Seq(FullCall) /\ n \in Nat /\ DOMAIN as = 1 .. n + 1 /\ DOMAIN cs = 1 .. n
      /\ \A i \in 1 .. n : as[i] = cs[i]
      /\ as[n + 1] = c
  BY DEF Appendable
<1>2. n = 0 <=> cs = <<>>  BY DEF n
<1>3. \A i \in 1 .. n + 1 : i \in 1 .. n \/ i = n + 1  BY <1>1
<1>4. as # <<>>
  <2>1. 1 \in DOMAIN as  BY <1>1
  <2>2. 1 \notin DOMAIN <<>>  OBVIOUS
  <2> QED  BY <2>1, <2>2
<1> HIDE DEF n, as
<1>5. ASSUME OneKept(cs) PROVE OneKept(as)
  <2> SUFFICES ASSUME NEW i \in DOMAIN as, NEW j \in DOMAIN as, SameFetch(as[i], as[j])
               PROVE  i = j
    BY DEF OneKept
  <2>1. SameFetch(as[j], as[i])  BY DEF SameFetch
  <2>2. ~ (i \in 1 .. n /\ j = n + 1)  BY <1>1 DEF Appendable
  <2>3. ~ (j \in 1 .. n /\ i = n + 1)  BY <1>1, <2>1 DEF Appendable
  <2>4. i \in 1 .. n /\ j \in 1 .. n => i = j  BY <1>1, <1>5 DEF OneKept
  <2> QED  BY <1>1, <1>3, <2>2, <2>3, <2>4
<1>6. Queue(cs) => Queue(as)
  <2>1. n + 1 > 1 => ~ c.fresh  BY <1>1, <1>2 DEF Appendable
  <2> QED  BY <1>1, <1>3, <1>5, <2>1 DEF Queue, Appendable
<1>7. Rest(cs) => Queue(as)  BY <1>6, RestIsQueue
<1>8. Rest(cs) /\ ~ c.fresh => Rest(as)
  BY <1>1, <1>3, <1>5 DEF Rest, Appendable
<1>9. (cs # <<>> => as[1] = cs[1]) /\ (cs = <<>> => as[1] = c)
  <2>1. CASE n = 0
    <3>1. n + 1 = 1  BY <2>1
    <3>2. as[1] = c  BY <1>1, <3>1
    <3> QED  BY <1>2, <2>1, <3>2
  <2>2. CASE n # 0
    <3>1. 1 \in 1 .. n  BY <1>1, <2>2
    <3> QED  BY <1>1, <1>2, <2>2, <3>1
  <2> QED  BY <2>1, <2>2
<1> QED  BY <1>4, <1>6, <1>7, <1>8, <1>9 DEF as

\* the oldest call goes on
LEMMA HeadGoesOn ==
  ASSUME NEW cs, Queue(cs), cs # <<>>, NEW c \in FullCall, CallOK(c),
         c.op = cs[1].op, c.kept = cs[1].kept, c.query = cs[1].query
  PROVE  /\ Queue(<<c>> \o Tail(cs)) /\ <<c>> \o Tail(cs) # <<>>
         /\ (<<c>> \o Tail(cs))[1] = c
<1> DEFINE n == Len(cs)
           hs == <<c>> \o Tail(cs)
<1>1. /\ cs \in Seq(FullCall) /\ n \in Nat \ {0} /\ DOMAIN cs = 1 .. n
      /\ Tail(cs) \in Seq(FullCall) /\ Len(Tail(cs)) = n - 1
      /\ \A i \in 1 .. n - 1 : Tail(cs)[i] = cs[i + 1]
  BY HeadTailProperties DEF Queue
<1>2. /\ hs \in Seq(FullCall) /\ DOMAIN hs = 1 .. n /\ hs[1] = c
      /\ \A i \in 2 .. n : hs[i] = cs[i]
  <2>1. <<c>> \in Seq(FullCall) /\ Len(<<c>>) = 1 /\ <<c>>[1] = c  OBVIOUS
  <2> DEFINE s == <<c>>
             t == Tail(cs)
  <2> HIDE DEF s, t, n
  <2>2. /\ s \o t \in Seq(FullCall) /\ Len(s \o t) = n
        /\ \A i \in 1 .. n : (s \o t)[i] = IF i <= 1 THEN s[i] ELSE t[i - 1]
    BY <1>1, <2>1, ConcatProperties DEF s, t
  <2>3. \A i \in 2 .. n : i - 1 \in 1 .. n - 1 /\ (i - 1) + 1 = i  BY <1>1
  <2>4. \A i \in 2 .. n : (s \o t)[i] = cs[i]
    BY <1>1, <2>2, <2>3 DEF t
  <2> QED  BY <1>1, <2>1, <2>2, <2>4 DEF s, t
<1> HIDE DEF hs
<1>3. \A i \in 1 .. n : i = 1 \/ i \in 2 .. n  BY <1>1
<1>4. OneKept(hs)
  <2> SUFFICES ASSUME NEW i \in DOMAIN hs, NEW j \in DOMAIN hs, SameFetch(hs[i], hs[j])
               PROVE  i = j
    BY DEF OneKept
  <2>1. SameFetch(cs[i], cs[j])  BY <1>1, <1>2, <1>3 DEF SameFetch
  <2> QED  BY <1>1, <1>2, <2>1 DEF Queue, OneKept
<1>5. \A i \in DOMAIN hs :
        /\ CallOK(hs[i])
        /\ i > 1 => hs[i].state = "queued" /\ ~ hs[i].fresh
  BY <1>1, <1>2, <1>3 DEF Queue
<1>6. hs # <<>>
  <2>1. 1 \in DOMAIN hs  BY <1>1, <1>2
  <2>2. 1 \notin DOMAIN <<>>  OBVIOUS
  <2> QED  BY <2>1, <2>2
<1> QED  BY <1>2, <1>4, <1>5, <1>6 DEF Queue, hs

\* what the handlers of the page invalidate
Keys == {<<"sprint-active">>, <<"sprint-active", "sprints">>}

LEMMA KeysOnce ==
  ASSUME NEW keys \in Keys
  PROVE  /\ keys \in Seq(Queries)
         /\ \A i, j \in 1 .. Len(keys) : keys[i] = keys[j] => i = j
         /\ ToSet(keys) = {keys[i] : i \in 1 .. Len(keys)}
<1>1. CASE keys = <<"sprint-active">>
  <2>1. keys \in Seq(Queries) /\ Len(keys) = 1  BY <1>1 DEF Queries
  <2> QED  BY <2>1 DEF ToSet
<1>2. CASE keys = <<"sprint-active", "sprints">>
  <2>1. /\ keys \in Seq(Queries) /\ Len(keys) = 2
        /\ keys[1] = "sprint-active" /\ keys[2] = "sprints"
    BY <1>2 DEF Queries
  <2>2. \A i \in 1 .. Len(keys) : i = 1 \/ i = 2  BY <2>1
  <2> QED  BY <2>1, <2>2 DEF ToSet
<1> QED  BY <1>1, <1>2 DEF Keys

\* an invalidated query is asked again, and no other answer to it is wanted
LEMMA RefetchedRest ==
  ASSUME NEW cs, Rest(cs), NEW keys \in Keys
  PROVE  Rest(Refetched(cs, keys))
<1> DEFINE n == Len(cs)
           m == Len(keys)
           old == [i \in DOMAIN cs |-> IF cs[i].op = "fetch" /\ cs[i].query \in ToSet(keys)
                                       THEN [cs[i] EXCEPT !.kept = FALSE] ELSE cs[i]]
           new == [i \in DOMAIN keys |-> Fetch(keys[i])]
           all == old \o new
<1>1. /\ cs \in Seq(FullCall) /\ n \in Nat /\ DOMAIN cs = 1 .. n
      /\ m \in Nat /\ DOMAIN keys = 1 .. m
      /\ \A i \in 1 .. m : keys[i] \in Queries
      /\ \A i, j \in 1 .. m : keys[i] = keys[j] => i = j
      /\ ToSet(keys) = {keys[i] : i \in 1 .. m}
  BY KeysOnce DEF Rest
<1>2. \A i \in 1 .. n :
        /\ old[i] \in FullCall /\ CallOK(old[i]) /\ old[i].state = "queued" /\ ~ old[i].fresh
        /\ old[i].op = cs[i].op /\ old[i].query = cs[i].query
        /\ old[i].kept => cs[i].kept /\ ~ (cs[i].op = "fetch" /\ cs[i].query \in ToSet(keys))
  <2> SUFFICES ASSUME NEW i \in 1 .. n
               PROVE  /\ old[i] \in FullCall /\ CallOK(old[i])
                      /\ old[i].state = "queued" /\ ~ old[i].fresh
                      /\ old[i].op = cs[i].op /\ old[i].query = cs[i].query
                      /\ old[i].kept => /\ cs[i].kept
                                        /\ ~ (cs[i].op = "fetch" /\ cs[i].query \in ToSet(keys))
    OBVIOUS
  <2>1. /\ cs[i] \in FullCall /\ CallOK(cs[i]) /\ cs[i].state = "queued" /\ ~ cs[i].fresh
    BY <1>1 DEF Rest
  <2>2. CASE old[i] = cs[i] /\ ~ (cs[i].op = "fetch" /\ cs[i].query \in ToSet(keys))
    BY <2>1, <2>2
  <2>3. CASE old[i] = [cs[i] EXCEPT !.kept = FALSE]
    <3> DEFINE c == cs[i]
               d == [c EXCEPT !.kept = FALSE]
    <3>1. /\ d \in FullCall /\ d.kept = FALSE /\ d.op = c.op /\ d.state = c.state
          /\ d.query = c.query /\ d.fresh = c.fresh /\ d.sprint = c.sprint
          /\ d.task = c.task /\ d.decision = c.decision /\ d.answer = c.answer
      BY <2>1 DEF FullCall
    <3>2. old[i] = d  BY <2>3
    <3> HIDE DEF d, old
    <3>3. CallOK(d)  BY <2>1, <3>1 DEF CallOK
    <3> QED  BY <2>1, <3>1, <3>2, <3>3
  <2> QED  BY <1>1, <2>2, <2>3
<1>3. \A i \in 1 .. m :
        /\ new[i] \in FullCall /\ CallOK(new[i]) /\ new[i].state = "queued" /\ ~ new[i].fresh
        /\ new[i].op = "fetch" /\ new[i].query = keys[i]
  BY <1>1, FetchType
<1>4. /\ old \in Seq(FullCall) /\ Len(old) = n /\ new \in Seq(FullCall) /\ Len(new) = m
  BY <1>1, <1>2, <1>3
<1> HIDE DEF old, new, n, m
<1>5. /\ all \in Seq(FullCall) /\ Len(all) = n + m /\ DOMAIN all = 1 .. n + m
      /\ \A i \in 1 .. n + m : all[i] = IF i <= n THEN old[i] ELSE new[i - n]
  <2>1. /\ all \in Seq(FullCall) /\ Len(all) = Len(old) + Len(new)
        /\ \A i \in 1 .. Len(old) + Len(new) :
             all[i] = IF i <= Len(old) THEN old[i] ELSE new[i - Len(old)]
    BY <1>4, ConcatProperties
  <2> HIDE DEF all
  <2> QED  BY <1>4, <2>1
<1> HIDE DEF all
<1>6. \A i \in 1 .. n + m :
        (i <= n /\ i \in 1 .. n) \/ (~ i <= n /\ i - n \in 1 .. m)
  BY <1>1
<1>7. \A i \in 1 .. n + m : CallOK(all[i]) /\ all[i].state = "queued" /\ ~ all[i].fresh
  BY <1>2, <1>3, <1>5, <1>6
<1>8. OneKept(all)
  <2> SUFFICES ASSUME NEW i \in 1 .. n + m, NEW j \in 1 .. n + m, SameFetch(all[i], all[j])
               PROVE  i = j
    BY <1>5 DEF OneKept
  <2>1. CASE i <= n /\ j <= n
    <3>1. SameFetch(cs[i], cs[j])
      BY <1>2, <1>5, <1>6, <2>1 DEF SameFetch
    <3> QED  BY <1>1, <1>6, <2>1, <3>1 DEF Rest, OneKept
  <2>2. CASE ~ i <= n /\ ~ j <= n
    <3>1. keys[i - n] = keys[j - n] /\ i - n \in 1 .. m /\ j - n \in 1 .. m
      BY <1>3, <1>5, <1>6, <2>2 DEF SameFetch
    <3>2. i - n = j - n  BY <1>1, <3>1
    <3> QED  BY <1>1, <3>2
  \* one of each is no fetch of the same query
  <2>3. ASSUME NEW a \in 1 .. n + m, NEW b \in 1 .. n + m, a <= n, ~ b <= n,
               SameFetch(all[a], all[b])
        PROVE  FALSE
    <3>1. /\ all[a] = old[a] /\ all[b] = new[b - n] /\ a \in 1 .. n /\ b - n \in 1 .. m
      BY <1>5, <1>6, <2>3
    <3>2. cs[a].op = "fetch" /\ cs[a].query = keys[b - n] /\ old[a].kept
      BY <1>2, <1>3, <2>3, <3>1 DEF SameFetch
    <3> QED  BY <1>1, <1>2, <3>1, <3>2
  <2>4. SameFetch(all[j], all[i])  BY DEF SameFetch
  <2> QED  BY <2>1, <2>2, <2>3, <2>4
<1> QED
  BY <1>5, <1>7, <1>8 DEF Rest, Refetched, all, old, new

-----------------------------------------------------------------------------
(* Answers and the dialog *)

LEMMA ServerAnswers ==
  ASSUME NEW rows, NEW links, NEW k \in Queries
  PROVE  AnswerOf(rows, links)[k] \in Answers(k)
<1>1. CASE k = "sprints"
  BY <1>1 DEF AnswerOf, Answers, Plans, PlannedAnswer
<1>2. CASE k = "sprint-active"
  <2> DEFINE mine == {s \in Sprints : rows[s].owner = Me /\ rows[s].state = "ACTIVE"}
             s == CHOOSE s \in mine : TRUE
             in == {t \in Tasks : links[t].state = "live" /\ links[t].sprint = s}
             done == {t \in in : links[t].done}
  <2>1. NoActive \in Actives  BY DEF NoActive, Actives
  <2>2. ASSUME mine # {} PROVE [sprint |-> s, tasks |-> in, done |-> done] \in Actives
    <3>1. s \in Sprints  BY <2>2
    <3>2. in \subseteq Tasks /\ done \subseteq in  OBVIOUS
    <3>3. s # None  BY <3>1, BodyAssumption
    <3> HIDE DEF s, in, done
    <3> QED  BY <3>1, <3>2, <3>3 DEF Actives
  <2>3. AnswerOf(rows, links)[k]
          = IF mine = {} THEN NoActive ELSE [sprint |-> s, tasks |-> in, done |-> done]
    BY <1>2 DEF AnswerOf, ActiveAnswer, Queries
  <2> HIDE DEF mine, s, in, done
  <2> QED  BY <1>2, <2>1, <2>2, <2>3 DEF Answers
<1> QED  BY <1>1, <1>2 DEF Queries

LEMMA RefusedAnswers ==
  ASSUME NEW k \in Queries
  PROVE  Refusal[k] \in Answers(k)
BY DEF Refusal, Answers, Plans, Actives, NoActive, Queries

\* what an up-to-date answer of the active sprint tells
LEMMA ActiveTells ==
  ASSUME NEW a, a = ActiveAnswer(sprint, task)
  PROVE  /\ a.sprint = None =>
              \A s \in Sprints : sprint[s].owner = Me => sprint[s].state # "ACTIVE"
         /\ a.sprint # None =>
              /\ a.sprint \in Sprints
              /\ sprint[a.sprint].owner = Me /\ sprint[a.sprint].state = "ACTIVE"
              /\ a.tasks = {t \in Tasks : task[t].state = "live" /\ task[t].sprint = a.sprint}
              /\ a.done = {t \in a.tasks : task[t].done}
<1> DEFINE mine == {s \in Sprints : sprint[s].owner = Me /\ sprint[s].state = "ACTIVE"}
           s == CHOOSE s \in mine : TRUE
           in == {t \in Tasks : task[t].state = "live" /\ task[t].sprint = s}
           done == {t \in in : task[t].done}
<1>1. a = IF mine = {} THEN NoActive ELSE [sprint |-> s, tasks |-> in, done |-> done]
  BY DEF ActiveAnswer
<1>2. mine # {} => s \in mine  OBVIOUS
<1>3. CASE mine = {}
  BY <1>1, <1>3 DEF NoActive
<1>4. CASE mine # {}
  <2>1. s \in Sprints /\ sprint[s].owner = Me /\ sprint[s].state = "ACTIVE" /\ s # None
    BY <1>2, <1>4, BodyAssumption
  <2>2. a.sprint = s /\ a.tasks = in /\ a.done = done
    BY <1>1, <1>4
  <2> HIDE DEF mine, s
  <2> QED  BY <2>1, <2>2
<1> QED  BY <1>3, <1>4

LEMMA EffectsType ==
  ASSUME NEW d, DialogOK(d), NEW some \in SUBSET Sprints, NEW e \in Effects(d, some)
  PROVE  DialogOK(e)
<1>1. CASE e = d  BY <1>1
<1>2. CASE e = [d EXCEPT !.decision = "RETURN_TO_BACKLOG"]
  BY <1>2 DEF DialogOK, Decision
<1>3. ASSUME NEW s \in First(some), e = [d EXCEPT !.target = s] PROVE DialogOK(e)
  <2>1. s \in Sprints  BY DEF First
  <2> QED  BY <1>3, <2>1 DEF DialogOK
<1> QED  BY <1>1, <1>2, <1>3 DEF Effects

LEMMA BareDialog ==
  ASSUME NEW open \in BOOLEAN
  PROVE  DialogOK([NewDialog EXCEPT !.open = open]) /\ Bare([NewDialog EXCEPT !.open = open])
BY DEF DialogOK, Bare, NewDialog, Decision

LEMMA BareIsNew ==
  ASSUME NEW d, DialogOK(d), Bare(d)
  PROVE  d = [NewDialog EXCEPT !.open = d.open]
<1> DEFINE o == d.open
           e == [NewDialog EXCEPT !.open = o]
<1>1. o \in BOOLEAN  BY DEF DialogOK
<1> HIDE DEF o
<1>2. DialogOK(e) /\ Bare(e) /\ e.open = o  BY <1>1, BareDialog DEF NewDialog
<1>3. d.open = o  BY DEF o
<1> HIDE DEF e
<1>4. d = e  BY <1>2, <1>3 DEF DialogOK, Bare
<1> QED  BY <1>4 DEF e, o

LEMMA OfferedSprints ==
  ASSUME NEW answers, ShownOK(answers)
  PROVE  /\ Offered(answers) \subseteq Sprints
         /\ answers["sprints"] \subseteq Sprints
         /\ answers["sprint-active"] \in Actives
BY DEF Offered, ShownOK, Answers, Plans, Queries

LEMMA RenderedType ==
  ASSUME NEW answers, ShownOK(answers), NEW d, DialogOK(d), NEW e \in Rendered(d, answers)
  PROVE  /\ DialogOK(e)
         /\ answers["sprint-active"].sprint = None => Bare(e)
<1>1. d.open \in BOOLEAN  BY DEF DialogOK
<1> QED  BY <1>1, BareDialog, EffectsType, OfferedSprints DEF Rendered

-----------------------------------------------------------------------------
(* Every step of the page is one of the server, or none *)

LEMMA HeadType ==
  ASSUME Queue(calls), calls # <<>>
  PROVE  /\ Head(calls) = calls[1] /\ calls[1] \in FullCall /\ CallOK(calls[1])
         /\ Rest(Tail(calls))
BY TailRest

LEMMA SentCall ==
  ASSUME Queue(calls), SendCall
  PROVE  /\ calls # <<>> /\ calls[1].state = "queued" /\ Accept(Page)
         /\ calls[1].op \notin {"fetch", "create"}
<1> DEFINE c == calls[1]
<1>1. calls # <<>> /\ Head(calls) = c  BY HeadType DEF SendCall, Waiting
<1>2. c \in FullCall /\ CallOK(c)  BY <1>1, HeadType
<1> HIDE DEF c
<1>3. ASSUME NEW op \in {"activate", "start"}, Waiting(op),
             BeginUpdate(Page, c.sprint, "ACTIVE", <<None, None>>)
      PROVE  Accept(Page) /\ c.state = "queued" /\ c.op = op
  <2>1. c.sprint \in Sprints /\ c.state = "queued" /\ c.op = op
    BY <1>1, <1>2, <1>3 DEF Waiting, CallOK
  <2> QED  BY <1>3, <2>1, PageAssumption DEF Accept, SprintStatus
<1>4. CASE Waiting("add") /\ BeginAddTask(Page, c.sprint, c.task)
  <2>1. c.sprint \in Sprints /\ c.task \in Tasks /\ c.state = "queued" /\ c.op = "add"
    BY <1>1, <1>2, <1>4 DEF Waiting, CallOK
  <2> QED  BY <1>1, <1>4, <2>1 DEF Accept, c
<1>5. CASE Waiting("take") /\ BeginRemoveTask(Page, c.sprint, c.task)
  <2>1. c.sprint \in Sprints /\ c.task \in Tasks /\ c.state = "queued" /\ c.op = "take"
    BY <1>1, <1>2, <1>5 DEF Waiting, CallOK
  <2> QED  BY <1>1, <1>5, <2>1 DEF Accept, c
<1>6. CASE Waiting("close") /\ BeginClose(Page, c.sprint, c.decision, c.target)
  <2>1. /\ c.sprint \in Sprints /\ c.decision \in Decision /\ c.target \in Sprints \cup {None}
        /\ c.state = "queued" /\ c.op = "close"
    BY <1>1, <1>2, <1>6 DEF Waiting, CallOK, FullCall
  <2> QED  BY <1>1, <1>6, <2>1 DEF Accept, c
<1> QED  BY <1>1, <1>3, <1>4, <1>5, <1>6 DEF SendCall, c

LEMMA PageStep ==
  ASSUME Queue(calls), PageNext
  PROVE  [Next]_vars
<1> USE PageAssumption
<1>1. CASE User
  BY <1>1 DEF User, SubmitActivate, SubmitCreate, SubmitAdd, SubmitRemove, OpenDialog,
              ChooseDecision, ChooseTarget, SubmitClose, Cancel, Submit
<1>2. CASE Others
  <2>1. \A t \in Tasks : {t} \in (SUBSET Tasks) \ {{}}  OBVIOUS
  <2> QED  BY <1>2, <2>1 DEF Others, Next, AtOnce
<1>3. CASE SendCall  BY <1>3, SentCall DEF Next
<1>4. CASE Refuse \/ FailCall
  BY <1>4 DEF Refuse, FailCall, Next
<1>5. CASE ServeCreate  BY <1>5 DEF ServeCreate, Next, AtOnce
<1>6. CASE ServeFetch \/ AnswerCall \/ AnswerFetch \/ Break
  BY <1>6 DEF ServeFetch, AnswerCall, AnswerFetch, Break
<1>7. CASE ServeCall  BY <1>7 DEF ServeCall, Next
<1> QED
  BY <1>1, <1>2, <1>3, <1>4, <1>5, <1>6, <1>7 DEF PageNext, Serve, Answer

-----------------------------------------------------------------------------
(* What the steps leave alone *)

ClientInv ==
  /\ Queue(calls) /\ ShownOK(shown) /\ DialogOK(dialog) /\ Unmounted
  /\ Missed /\ Busy /\ Fresh /\ Faithful

LEMMA FaithfulStep ==
  ASSUME Faithful, UNCHANGED shown,
         \A k \in Queries : missed'[k] = {} =>
           /\ missed[k] = {}
           /\ AnswerOf(sprint', task')[k] = AnswerOf(sprint, task)[k]
           /\ Brings(k)' = Brings(k)
           /\ Brings(k) => /\ calls'[1].answer = calls[1].answer
                           /\ calls'[1].state = calls[1].state
  PROVE  Faithful'
<1> SUFFICES ASSUME NEW k \in Queries, missed'[k] = {}
             PROVE  /\ Newest(k)' = AnswerOf(sprint', task')[k]
                    /\ Brings(k)' => calls'[1].state # "refused"
  BY DEF Faithful, UpToDate
<1>1. /\ Newest(k) = AnswerOf(sprint, task)[k]
      /\ Brings(k) => calls[1].state # "refused"
  BY DEF Faithful, UpToDate
<1>2. Newest(k)' = Newest(k)  BY DEF Newest
<1> QED  BY <1>1, <1>2

\* no answer is on its way unless the oldest call is a fetch that was served
LEMMA RestBringsNone ==
  ASSUME NEW cs, Rest(cs), cs # <<>>
  PROVE  cs[1].state = "queued" /\ ~ cs[1].fresh
<1>1. 1 \in DOMAIN cs
  <2>1. Len(cs) \in Nat /\ DOMAIN cs = 1 .. Len(cs) /\ Len(cs) # 0
    BY DEF Rest
  <2> QED  BY <2>1
<1> QED  BY <1>1 DEF Rest

\* the dialog without the calls
LEMMA DialogStep ==
  ASSUME ClientInv, UNCHANGED <<sprint, task, req, shown, calls, missed>>,
         DialogOK(dialog'), Unmounted'
  PROVE  ClientInv'
<1>1. Faithful'
  BY FaithfulStep DEF ClientInv, Brings
<1>2. Busy' /\ Fresh' /\ Missed'
  BY DEF ClientInv, Busy, Serves, InFlight, Fresh, FreshCall, Active, Counted, Missed
<1> QED  BY <1>1, <1>2 DEF ClientInv

\* a call is made
LEMMA SubmitStep ==
  ASSUME ClientInv, NEW c, Appendable(c, calls), calls' = Append(calls, c),
         c.fresh => FreshCall(c), UNCHANGED <<sprint, task, req, shown, missed>>,
         DialogOK(dialog'), Unmounted'
  PROVE  ClientInv'
<1>1. /\ calls \in Seq(FullCall) /\ calls' # <<>> /\ Queue(calls')
      /\ calls # <<>> => calls'[1] = calls[1]
      /\ calls = <<>> => calls'[1] = c
  BY Appended DEF ClientInv, Queue
<1>2. \A k \in Queries :
        /\ Brings(k)' = Brings(k)
        /\ Brings(k) => calls'[1] = calls[1]
  BY <1>1 DEF Brings, Appendable
<1>3. Faithful'
  BY <1>2, FaithfulStep DEF ClientInv
<1>4. Busy'
  BY <1>1 DEF ClientInv, Busy, Serves, InFlight
<1>5. Fresh'
  BY <1>1 DEF ClientInv, Fresh, FreshCall, Active, Counted
<1> QED  BY <1>1, <1>3, <1>4, <1>5 DEF ClientInv, Missed

-----------------------------------------------------------------------------
(* The user *)

LEMMA SubmittedStep ==
  ASSUME ClientInv, NEW c \in FullCall, Submit(c), DialogOK(dialog'), Unmounted',
         c.op # "fetch", c.state = "queued", CallOK(c), FreshCall(c)
  PROVE  ClientInv'
<1> DEFINE up == calls = <<>> /\ \A k \in Queries : UpToDate(k)
           d == [c EXCEPT !.fresh = up]
<1>1. /\ d \in FullCall /\ d.fresh = up /\ d.op = c.op /\ d.state = c.state
      /\ d.query = c.query /\ d.sprint = c.sprint /\ d.task = c.task
      /\ d.decision = c.decision /\ d.answer = c.answer /\ d.counted = c.counted
  <2>1. up \in BOOLEAN  OBVIOUS
  <2> HIDE DEF up
  <2> QED  BY <2>1 DEF FullCall
<1>2. calls' = Append(calls, d) /\ UNCHANGED <<vars, shown, missed>>
  BY DEF Submit
<1>3. up => calls = <<>>  OBVIOUS
<1> HIDE DEF d, up
<1>4. CallOK(d) /\ FreshCall(d)
  BY <1>1 DEF CallOK, FreshCall
<1>5. Appendable(d, calls)
  BY <1>1, <1>3, <1>4 DEF Appendable, SameFetch
<1> QED  BY <1>2, <1>4, <1>5, SubmitStep DEF vars

LEMMA SameDialog ==
  ASSUME ClientInv, UNCHANGED <<shown, dialog>>
  PROVE  DialogOK(dialog') /\ Unmounted'
BY DEF ClientInv, Unmounted, Active

LEMMA ActiveType ==
  ASSUME ShownOK(shown)
  PROVE  /\ Active.sprint \in Sprints \cup {None} /\ Active.tasks \subseteq Tasks
         /\ Active.done \subseteq Active.tasks /\ Counted(Active) \subseteq Tasks
         /\ Active.sprint = None => Active = NoActive
         /\ shown["sprints"] \subseteq Sprints
BY OfferedSprints DEF Active, Actives, Counted

\* the calls that are submitted are those a page may offer
LEMMA ButtonsStep ==
  ASSUME ClientInv,
         \/ \E s \in Sprints : SubmitActivate(s)
         \/ \E now \in BOOLEAN : SubmitCreate(now)
         \/ \E t \in Tasks : SubmitAdd(t) \/ SubmitRemove(t)
  PROVE  ClientInv'
<1>0. /\ Active.sprint \in Sprints \cup {None} /\ Active.tasks \subseteq Tasks
      /\ Counted(Active) \subseteq Tasks
  BY ActiveType DEF ClientInv
<1>1. ASSUME NEW s \in Sprints, SubmitActivate(s) PROVE ClientInv'
  <2> DEFINE c == [NewCall("activate") EXCEPT !.sprint = s]
  <2>1. c \in FullCall /\ c.op = "activate" /\ c.state = "queued" /\ c.sprint = s
    BY NewCallType DEF FullCall
  <2>2. Submit(c) /\ UNCHANGED dialog /\ Startable(s)  BY <1>1 DEF SubmitActivate
  <2> HIDE DEF c
  <2>3. CallOK(c) /\ FreshCall(c)
    BY <2>1, <2>2 DEF CallOK, FreshCall, Startable
  <2> QED  BY <2>1, <2>2, <2>3, SameDialog, SubmittedStep DEF Submit
<1>2. ASSUME NEW now \in BOOLEAN, SubmitCreate(now) PROVE ClientInv'
  <2> DEFINE c == [NewCall("create") EXCEPT !.now = now]
  <2>1. c \in FullCall /\ c.op = "create" /\ c.state = "queued"
    BY NewCallType DEF FullCall
  <2>2. Submit(c) /\ UNCHANGED dialog  BY <1>2 DEF SubmitCreate
  <2> HIDE DEF c
  <2>3. CallOK(c) /\ FreshCall(c)  BY <2>1 DEF CallOK, FreshCall
  <2> QED  BY <2>1, <2>2, <2>3, SameDialog, SubmittedStep DEF Submit
<1>3. ASSUME NEW t \in Tasks, SubmitAdd(t) PROVE ClientInv'
  <2> DEFINE c == [NewCall("add") EXCEPT !.sprint = Active.sprint, !.task = t]
  <2>1. /\ c \in FullCall /\ c.op = "add" /\ c.state = "queued"
        /\ c.sprint = Active.sprint /\ c.task = t
    BY <1>0, NewCallType DEF FullCall
  <2>2. Submit(c) /\ UNCHANGED dialog /\ Active.sprint # None  BY <1>3 DEF SubmitAdd
  <2> HIDE DEF c
  <2>3. CallOK(c) /\ FreshCall(c)  BY <1>0, <2>1, <2>2 DEF CallOK, FreshCall
  <2> QED  BY <2>1, <2>2, <2>3, SameDialog, SubmittedStep DEF Submit
<1>4. ASSUME NEW t \in Tasks, SubmitRemove(t) PROVE ClientInv'
  <2> DEFINE c == [NewCall("take") EXCEPT !.sprint = Active.sprint, !.task = t]
  <2>1. /\ c \in FullCall /\ c.op = "take" /\ c.state = "queued"
        /\ c.sprint = Active.sprint /\ c.task = t
    BY <1>0, NewCallType DEF FullCall
  <2>2. Submit(c) /\ UNCHANGED dialog /\ t \in Active.tasks  BY <1>4 DEF SubmitRemove
  <2>3. Active.sprint # None
    BY <2>2, ActiveType DEF ClientInv, NoActive
  <2> HIDE DEF c
  <2>4. CallOK(c) /\ FreshCall(c)  BY <1>0, <2>1, <2>2, <2>3 DEF CallOK, FreshCall
  <2> QED  BY <2>1, <2>2, <2>4, SameDialog, SubmittedStep DEF Submit
<1> QED  BY <1>1, <1>2, <1>3, <1>4

LEMMA CloseDialogStep ==
  ASSUME ClientInv,
         \/ OpenDialog \/ SubmitClose \/ Cancel
         \/ \E decision \in Decision : ChooseDecision(decision)
         \/ \E s \in Sprints : ChooseTarget(s)
  PROVE  ClientInv'
<1>0. /\ Active.sprint \in Sprints \cup {None} /\ Counted(Active) \subseteq Tasks
      /\ DialogOK(dialog) /\ Offered(shown) \subseteq Sprints
  BY ActiveType, OfferedSprints DEF ClientInv
<1>1. Active.sprint # None /\ UNCHANGED shown
  BY DEF OpenDialog, SubmitClose, Cancel, ChooseDecision, ChooseTarget, Asked, DialogShown,
         Submit
<1>2. Unmounted'  BY <1>1 DEF Unmounted, Active
<1>3. CASE OpenDialog
  <2>1. DialogOK([dialog EXCEPT !.open = TRUE])  BY <1>0 DEF DialogOK
  <2>2. DialogOK(dialog')
    BY <1>0, <1>3, <2>1, EffectsType DEF OpenDialog
  <2>3. CASE UNCHANGED calls
    BY <1>2, <1>3, <2>2, <2>3, DialogStep DEF OpenDialog, vars
  <2>4. CASE ~ Due("sprints") /\ calls' = Append(calls, Fetch("sprints"))
    <3>1. Appendable(Fetch("sprints"), calls) /\ ~ Fetch("sprints").fresh
      BY <2>4, FetchType DEF Appendable, Due, SameFetch, Queries
    <3> QED  BY <1>2, <1>3, <2>2, <2>4, <3>1, SubmitStep DEF OpenDialog, vars
  <2> QED  BY <1>3, <2>3, <2>4 DEF OpenDialog
<1>4. CASE SubmitClose
  <2> DEFINE tg == IF dialog.decision = "MOVE_TO_NEXT" THEN dialog.target ELSE None
             c == [NewCall("close") EXCEPT
                     !.sprint = Active.sprint, !.decision = dialog.decision,
                     !.target = tg, !.counted = Counted(Active)]
  <2>1. tg \in Sprints \cup {None} /\ dialog.decision \in Decision
    BY <1>0 DEF DialogOK
  <2>2. Submit(c) /\ dialog' = [dialog EXCEPT !.loading = TRUE]
    BY <1>4 DEF SubmitClose
  <2> HIDE DEF tg
  <2>3. /\ c \in FullCall /\ c.op = "close" /\ c.state = "queued"
        /\ c.sprint = Active.sprint /\ c.decision \in Decision
        /\ c.counted = Counted(Active)
    BY <1>0, <2>1, NewCallType DEF FullCall
  <2> HIDE DEF c
  <2>4. CallOK(c) /\ FreshCall(c)
    BY <1>0, <1>1, <2>3 DEF CallOK, FreshCall
  <2>5. DialogOK(dialog')  BY <1>0, <2>2 DEF DialogOK
  <2> QED  BY <1>2, <2>2, <2>3, <2>4, <2>5, SubmittedStep
<1>5. CASE Cancel
  <2>1. DialogOK(dialog')  BY <1>0, <1>5 DEF Cancel, DialogOK
  <2> QED  BY <1>2, <1>5, <2>1, DialogStep DEF Cancel, vars
<1>6. ASSUME NEW decision \in Decision, ChooseDecision(decision) PROVE ClientInv'
  <2>1. DialogOK([dialog EXCEPT !.decision = decision])  BY <1>0 DEF DialogOK
  <2>2. DialogOK(dialog')
    BY <1>0, <1>6, <2>1, EffectsType DEF ChooseDecision
  <2> QED  BY <1>2, <1>6, <2>2, DialogStep DEF ChooseDecision, vars
<1>7. ASSUME NEW s \in Sprints, ChooseTarget(s) PROVE ClientInv'
  <2>1. DialogOK(dialog')  BY <1>0, <1>7 DEF ChooseTarget, DialogOK
  <2> QED  BY <1>2, <1>7, <2>1, DialogStep DEF ChooseTarget, vars
<1> QED  BY <1>3, <1>4, <1>5, <1>6, <1>7

-----------------------------------------------------------------------------
(* The oldest call goes on *)

LEMMA HeadStep ==
  ASSUME ClientInv, calls # <<>>, NEW c \in FullCall, CallOK(c), HeadBecomes(c),
         c.op = calls[1].op, c.kept = calls[1].kept, c.query = calls[1].query,
         c.fresh = calls[1].fresh, c.task = calls[1].task, c.counted = calls[1].counted,
         c.op # "create" => c.sprint = calls[1].sprint,
         UNCHANGED <<shown, dialog>>
  PROVE  /\ Queue(calls') /\ calls' # <<>> /\ calls'[1] = c
         /\ ShownOK(shown') /\ DialogOK(dialog') /\ Unmounted' /\ Fresh'
<1>1. calls' = <<c>> \o Tail(calls)  BY DEF HeadBecomes
<1>2. Queue(calls') /\ calls' # <<>> /\ calls'[1] = c
  BY <1>1, HeadGoesOn DEF ClientInv
<1>3. Fresh'
  BY <1>2 DEF ClientInv, Fresh, FreshCall, Active, Counted
<1> QED  BY <1>2, <1>3 DEF ClientInv, Unmounted, Active

LEMMA ToldStep ==
  ASSUME Missed, NEW who \in {"page", "others", "failure"}, ToldOf(who)
  PROVE  /\ Missed'
         /\ \A k \in Queries : missed'[k] = {} =>
              /\ missed[k] = {}
              /\ AnswerOf(sprint', task')[k] = AnswerOf(sprint, task)[k]
BY DEF ToldOf, Missed

\* a call failed or broke
LEMMA FailedStep ==
  ASSUME Missed, NEW c,
         missed' = [k \in Queries |-> IF c.op = "fetch" /\ ~ (c.kept /\ c.query = k)
                                      THEN missed[k] ELSE missed[k] \cup {"failure"}]
  PROVE  /\ Missed'
         /\ \A k \in Queries : missed'[k] = {} =>
              missed[k] = {} /\ c.op = "fetch" /\ ~ (c.kept /\ c.query = k)
BY DEF Missed

\* nothing is on its way for a call that is no fetch
LEMMA QuietHead ==
  ASSUME Faithful, UNCHANGED shown,
         calls # <<>>, calls[1].op # "fetch" \/ calls[1].state = "queued",
         calls' # <<>> => calls'[1].op # "fetch" \/ calls'[1].state = "queued",
         \A k \in Queries : missed'[k] = {} =>
           missed[k] = {} /\ AnswerOf(sprint', task')[k] = AnswerOf(sprint, task)[k]
  PROVE  Faithful'
<1>1. \A k \in Queries : Brings(k) = FALSE /\ Brings(k)' = FALSE
  BY DEF Brings
<1>2. \A k \in Queries : Brings(k)' = Brings(k)
  BY <1>1
<1> QED  BY <1>1, <1>2, FaithfulStep

LEMMA ServesNone ==
  ASSUME ClientInv, calls # <<>>, calls[1].state # "sent" \/ ~ InFlight(Page)
  PROVE  ~ InFlight(Page)
BY DEF ClientInv, Busy, Serves

LEMMA SendStep ==
  ASSUME ClientInv, TypeOK, SendCall
  PROVE  ClientInv'
<1> DEFINE old == calls[1]
           c == [old EXCEPT !.state = "sent"]
<1>1. /\ calls # <<>> /\ old.state = "queued" /\ old.op \notin {"fetch", "create"}
      /\ Head(calls) = old /\ old \in FullCall /\ CallOK(old)
  BY SentCall, HeadType DEF ClientInv
<1>2. HeadBecomes(c) /\ UNCHANGED <<shown, dialog, missed>>
  BY <1>1 DEF SendCall
<1>3. /\ c \in FullCall /\ c.state = "sent" /\ c.op = old.op /\ c.kept = old.kept
      /\ c.query = old.query /\ c.fresh = old.fresh /\ c.task = old.task
      /\ c.counted = old.counted /\ c.sprint = old.sprint /\ c.target = old.target
      /\ c.decision = old.decision /\ c.answer = old.answer
  BY <1>1 DEF FullCall
<1> HIDE DEF c
<1>4. CallOK(c)  BY <1>1, <1>3 DEF CallOK
<1>5. /\ Queue(calls') /\ calls' # <<>> /\ calls'[1] = c
      /\ ShownOK(shown') /\ DialogOK(dialog') /\ Unmounted' /\ Fresh'
  BY <1>1, <1>2, <1>3, <1>4, HeadStep
<1>6. UNCHANGED <<sprint, task>>
  BY SentCall DEF ClientInv, SendCall, BeginUpdate, BeginAddTask, BeginRemoveTask, BeginClose,
                  Begin
<1>7. Faithful'
  BY <1>1, <1>2, <1>3, <1>5, <1>6, QuietHead DEF ClientInv
<1>8. Serves(req'[Page], c)
  <2>0. Page \in Requests /\ req \in [Requests -> Request]
    BY PageAssumption DEF TypeOK
  <2>1. CASE \E op \in {"activate", "start"} :
               Waiting(op) /\ BeginUpdate(Page, old.sprint, "ACTIVE", <<None, None>>)
    <3>1. req'[Page] = [Idle EXCEPT !.pc = "update", !.sprint = old.sprint,
                                    !.status = "ACTIVE", !.dates = <<None, None>>]
      BY <2>0, <2>1 DEF BeginUpdate, Begin
    <3>2. req'[Page].pc = "update" /\ req'[Page].sprint = old.sprint
      BY <3>1 DEF Idle
    <3> QED  BY <1>3, <3>2 DEF Serves
  <2>2. CASE BeginAddTask(Page, old.sprint, old.task)
    <3>1. req'[Page] = [Idle EXCEPT !.pc = "add", !.sprint = old.sprint, !.task = old.task]
      BY <2>0, <2>2 DEF BeginAddTask, Begin
    <3>2. req'[Page].pc = "add" /\ req'[Page].sprint = old.sprint
      BY <3>1 DEF Idle
    <3> QED  BY <1>3, <3>2 DEF Serves
  <2>3. CASE BeginRemoveTask(Page, old.sprint, old.task)
    <3>1. req'[Page] = [Idle EXCEPT !.pc = "take", !.sprint = old.sprint, !.task = old.task]
      BY <2>0, <2>3 DEF BeginRemoveTask, Begin
    <3>2. req'[Page].pc = "take" /\ req'[Page].sprint = old.sprint
      BY <3>1 DEF Idle
    <3> QED  BY <1>3, <3>2 DEF Serves
  <2>4. CASE Waiting("close") /\ BeginClose(Page, old.sprint, old.decision, old.target)
    <3>1. req'[Page] = [Idle EXCEPT !.pc = IF old.decision = "MOVE_TO_NEXT" THEN "target"
                                           ELSE "incomplete",
                                    !.sprint = old.sprint, !.decision = old.decision,
                                    !.target = old.target]
      BY <2>0, <2>4 DEF BeginClose, Begin
    <3>2. /\ req'[Page].target = old.target /\ req'[Page].sprint = old.sprint
          /\ req'[Page].pc = "target" => old.target \in Sprints
      BY <2>4, <3>1 DEF Idle, BeginClose
    <3>3. old.op = "close"  BY <1>1, <2>4 DEF Waiting
    <3> QED  BY <1>3, <3>2, <3>3 DEF Serves
  <2> QED  BY <1>1, <2>1, <2>2, <2>3, <2>4 DEF SendCall
<1>9. Busy'  BY <1>5, <1>8 DEF Busy
<1> QED  BY <1>2, <1>5, <1>7, <1>9 DEF ClientInv, Missed

LEMMA FailType ==
  ASSUME TypeOK, Fail(Page)
  PROVE  ~ InFlight(Page)' /\ InFlight(Page) /\ UNCHANGED <<sprint, task>>
<1>1. Page \in Requests /\ req \in [Requests -> Request]
  BY PageAssumption DEF TypeOK
<1>2. req'[Page] = Idle  BY <1>1 DEF Fail, Ends
<1>3. req'[Page].pc = "idle"  BY <1>2 DEF Idle
<1> QED  BY <1>3 DEF Fail, InFlight

LEMMA RefuseStep ==
  ASSUME ClientInv, TypeOK, Refuse
  PROVE  ClientInv'
<1> DEFINE old == calls[1]
           c == [old EXCEPT !.state = "refused"]
<1>1. calls # <<>> /\ Head(calls) = old /\ old \in FullCall /\ CallOK(old)
  BY HeadType DEF ClientInv, Refuse
<1>2. HeadBecomes(c) /\ UNCHANGED <<shown, dialog, missed>>
  BY <1>1 DEF Refuse
<1>3. old.op # "fetch" /\ old.op # "create" /\ UNCHANGED <<sprint, task>> /\ ~ InFlight(Page)'
  <2>1. CASE old.state = "queued" /\ RefusedAtOnce(old) /\ UNCHANGED vars
    <3>1. ~ InFlight(Page)  BY <1>1, <2>1, ServesNone
    <3> QED  BY <2>1, <3>1 DEF RefusedAtOnce, vars, InFlight
  <2>2. CASE req[Page].pc = "target" /\ Fail(Page)
    <3>1. old.op = "close"
      BY <1>1, <2>2 DEF ClientInv, Busy, Serves, InFlight
    <3> QED  BY <2>2, <3>1, FailType
  <2> QED  BY <1>1, <2>1, <2>2 DEF Refuse
<1>4. /\ c \in FullCall /\ c.state = "refused" /\ c.op = old.op /\ c.kept = old.kept
      /\ c.query = old.query /\ c.fresh = old.fresh /\ c.task = old.task
      /\ c.counted = old.counted /\ c.sprint = old.sprint /\ c.decision = old.decision
  BY <1>1 DEF FullCall
<1> HIDE DEF c
<1>5. CallOK(c)  BY <1>1, <1>3, <1>4 DEF CallOK
<1>6. /\ Queue(calls') /\ calls' # <<>> /\ calls'[1] = c
      /\ ShownOK(shown') /\ DialogOK(dialog') /\ Unmounted' /\ Fresh'
  BY <1>1, <1>2, <1>4, <1>5, HeadStep
<1>7. Faithful'
  BY <1>1, <1>2, <1>3, <1>4, <1>6, QuietHead DEF ClientInv
<1>8. Busy'  BY <1>3 DEF Busy
<1> QED  BY <1>2, <1>6, <1>7, <1>8 DEF ClientInv, Missed

LEMMA ServeCreateStep ==
  ASSUME ClientInv, ServeCreate
  PROVE  ClientInv'
<1> DEFINE old == calls[1]
<1>1. /\ calls # <<>> /\ Head(calls) = old /\ old \in FullCall /\ CallOK(old)
      /\ old.state = "queued" /\ old.op = "create"
  BY HeadType DEF ClientInv, ServeCreate, Waiting
<1>2. PICK s \in Sprints :
        CreateSprint(Me, Home, s, Start, End) /\ HeadBecomes([old EXCEPT !.state = "done",
                                                                          !.sprint = s])
  BY <1>1 DEF ServeCreate
<1> DEFINE c == [old EXCEPT !.state = "done", !.sprint = s]
<1>3. ToldOf("page") /\ UNCHANGED <<shown, dialog, req>>
  BY <1>2 DEF ServeCreate, CreateSprint
<1>4. /\ c \in FullCall /\ c.state = "done" /\ c.op = old.op /\ c.kept = old.kept
      /\ c.query = old.query /\ c.fresh = old.fresh /\ c.task = old.task
      /\ c.counted = old.counted /\ c.sprint = s /\ c.decision = old.decision
  BY <1>1 DEF FullCall
<1>5. HeadBecomes(c)  BY <1>2
<1> HIDE DEF c
<1>6. CallOK(c)  BY <1>1, <1>4 DEF CallOK
<1>7. /\ Queue(calls') /\ calls' # <<>> /\ calls'[1] = c
      /\ ShownOK(shown') /\ DialogOK(dialog') /\ Unmounted' /\ Fresh'
  BY <1>1, <1>3, <1>4, <1>5, <1>6, HeadStep
<1>8. /\ Missed'
      /\ \A k \in Queries : missed'[k] = {} =>
           missed[k] = {} /\ AnswerOf(sprint', task')[k] = AnswerOf(sprint, task)[k]
  BY <1>3, ToldStep DEF ClientInv
<1>9. Faithful'
  BY <1>1, <1>3, <1>4, <1>7, <1>8, QuietHead DEF ClientInv
<1>10. ~ InFlight(Page)  BY <1>1, ServesNone
<1>11. Busy'  BY <1>3, <1>10 DEF Busy, InFlight
<1> QED  BY <1>7, <1>8, <1>9, <1>11 DEF ClientInv

\* a fetch brings what the server answers now
LEMMA ServeFetchStep ==
  ASSUME ClientInv, ServeFetch
  PROVE  ClientInv'
<1> DEFINE old == calls[1]
           got == AnswerOf(sprint, task)[old.query]
           c == [old EXCEPT !.state = "done", !.answer = got]
<1>1. /\ calls # <<>> /\ Head(calls) = old /\ old \in FullCall /\ CallOK(old)
      /\ old.state = "queued" /\ old.op = "fetch"
  BY HeadType DEF ClientInv, ServeFetch, Waiting
<1>2. old.query \in Queries /\ ~ old.fresh  BY <1>1 DEF CallOK
<1>3. got \in Answers(old.query) /\ got \in Plans \cup Actives
  BY <1>2, ServerAnswers DEF Answers
<1>4. HeadBecomes(c) /\ UNCHANGED <<vars, shown, dialog>>
  BY <1>1 DEF ServeFetch
<1>5. missed' = IF old.kept THEN [missed EXCEPT ![old.query] = {}] ELSE missed
  BY <1>1 DEF ServeFetch
<1> HIDE DEF got
<1>6. /\ c \in FullCall /\ c.state = "done" /\ c.op = old.op /\ c.kept = old.kept
      /\ c.query = old.query /\ c.fresh = old.fresh /\ c.task = old.task
      /\ c.counted = old.counted /\ c.sprint = old.sprint /\ c.decision = old.decision
      /\ c.answer = got
  BY <1>1, <1>3 DEF FullCall
<1> HIDE DEF c
<1>7. CallOK(c)  BY <1>1, <1>2, <1>3, <1>6 DEF CallOK
<1>8. /\ Queue(calls') /\ calls' # <<>> /\ calls'[1] = c
      /\ ShownOK(shown') /\ DialogOK(dialog') /\ Unmounted' /\ Fresh'
  BY <1>1, <1>4, <1>6, <1>7, HeadStep
<1>9. Missed'
  BY <1>2, <1>5 DEF ClientInv, Missed
<1>10. ~ InFlight(Page)  BY <1>1, ServesNone
<1>11. Busy'  BY <1>4, <1>10 DEF Busy, InFlight, vars
<1>12. Faithful'
  <2> SUFFICES ASSUME NEW k \in Queries, missed'[k] = {}
               PROVE  /\ Newest(k)' = AnswerOf(sprint', task')[k]
                      /\ Brings(k)' => calls'[1].state # "refused"
    BY DEF Faithful, UpToDate
  <2>1. AnswerOf(sprint', task')[k] = AnswerOf(sprint, task)[k]
    BY <1>4 DEF vars
  <2>2. CASE old.kept /\ old.query = k
    <3>1. Brings(k)'  BY <1>1, <1>6, <1>8, <2>2 DEF Brings
    <3>2. Newest(k)' = got  BY <1>6, <1>8, <3>1 DEF Newest
    <3> QED  BY <1>6, <1>8, <2>1, <2>2, <3>2 DEF got
  <2>3. CASE ~ (old.kept /\ old.query = k)
    <3>1. ~ Brings(k) /\ ~ Brings(k)'
      BY <1>1, <1>6, <1>8, <2>3 DEF Brings
    <3>2. missed[k] = {}
      BY <1>2, <1>5, <2>3 DEF ClientInv, Missed
    <3>3. shown[k] = AnswerOf(sprint, task)[k]
      BY <3>1, <3>2 DEF ClientInv, Faithful, UpToDate, Newest
    <3> QED  BY <1>4, <2>1, <3>1, <3>3 DEF Newest
  <2> QED  BY <2>2, <2>3
<1> QED  BY <1>8, <1>9, <1>11, <1>12 DEF ClientInv

LEMMA AdvanceKeeps ==
  ASSUME TypeOK, Advance(Page)
  PROVE  /\ InFlight(Page)
         /\ \/ ~ InFlight(Page)'
            \/ /\ req'[Page].sprint = req[Page].sprint
               /\ req'[Page].pc \in {"incomplete", "close"}
               /\ req'[Page].pc = "incomplete" => req[Page].pc = "target"
<1>1. Page \in Requests /\ req \in [Requests -> Request]
  BY PageAssumption DEF TypeOK
<1> DEFINE q == req[Page]
<1>2. q \in Request  BY <1>1
<1>3. ASSUME Ends(Page) PROVE ~ InFlight(Page)'
  <2>1. req'[Page] = Idle  BY <1>1, <1>3 DEF Ends
  <2> QED  BY <2>1 DEF InFlight, Idle
<1>4. CASE CheckTarget(Page)
  <2>1. req'[Page] = [q EXCEPT !.pc = "incomplete"] /\ q.pc = "target"
    BY <1>1, <1>4 DEF CheckTarget
  <2>2. req'[Page].pc = "incomplete" /\ req'[Page].sprint = q.sprint
    BY <1>2, <2>1 DEF Request
  <2> QED  BY <2>1, <2>2 DEF InFlight
<1>5. CASE ReadIncomplete(Page)
  <2>1. /\ req'[Page] = [q EXCEPT !.pc = "close", !.incomplete = Incomplete(q.sprint)]
        /\ q.pc = "incomplete"
    BY <1>1, <1>5 DEF ReadIncomplete
  <2>2. req'[Page].pc = "close" /\ req'[Page].sprint = q.sprint
    BY <1>2, <2>1 DEF Request
  <2> QED  BY <2>1, <2>2 DEF InFlight
<1>6. CASE UpdateSprint(Page) \/ CloseCommit(Page) \/ AddTask(Page) \/ RemoveTask(Page)
           \/ InsertTask(Page)
  BY <1>3, <1>6 DEF UpdateSprint, CloseCommit, AddTask, RemoveTask, InsertTask, InFlight
<1> QED  BY <1>4, <1>5, <1>6 DEF Advance

LEMMA ServeCallStep ==
  ASSUME ClientInv, TypeOK, ServeCall
  PROVE  ClientInv'
<1>1. Advance(Page) /\ ToldOf("page") /\ UNCHANGED <<shown, dialog, calls>>
  BY DEF ServeCall, client
<1>2. calls # <<>> /\ Serves(req[Page], calls[1])
  BY <1>1, AdvanceKeeps DEF ClientInv, Busy
<1>3. calls[1].op # "fetch"
  <2>1. calls[1] \in FullCall /\ CallOK(calls[1])
    BY <1>2, HeadType DEF ClientInv
  <2> QED  BY <1>2, <2>1 DEF Serves, CallOK
<1>4. /\ Missed'
      /\ \A k \in Queries : missed'[k] = {} =>
           missed[k] = {} /\ AnswerOf(sprint', task')[k] = AnswerOf(sprint, task)[k]
  BY <1>1, ToldStep DEF ClientInv
<1>5. Faithful'
  BY <1>1, <1>2, <1>3, <1>4, QuietHead DEF ClientInv
<1>6. Busy'
  BY <1>1, <1>2, AdvanceKeeps DEF Busy, Serves
<1> QED
  BY <1>1, <1>4, <1>5, <1>6 DEF ClientInv, Unmounted, Fresh, FreshCall, Active, Counted

LEMMA OthersStep ==
  ASSUME ClientInv, Others
  PROVE  ClientInv'
<1>1. UNCHANGED <<req, shown, dialog, calls>> /\ ToldOf("others")
  BY DEF Others, CreateTask, MoveTasks, PatchTask, DeleteTask
<1>2. /\ Missed'
      /\ \A k \in Queries : missed'[k] = {} =>
           missed[k] = {} /\ AnswerOf(sprint', task')[k] = AnswerOf(sprint, task)[k]
  BY <1>1, ToldStep DEF ClientInv
<1>3. Faithful'
  BY <1>1, <1>2, FaithfulStep DEF ClientInv, Brings
<1> QED
  BY <1>1, <1>2, <1>3
     DEF ClientInv, Unmounted, Busy, Serves, InFlight, Fresh, FreshCall, Active, Counted

LEMMA FailCallStep ==
  ASSUME ClientInv, TypeOK, FailCall
  PROVE  ClientInv'
<1> DEFINE old == calls[1]
           got == IF old.op = "fetch" THEN Refusal[old.query] ELSE {}
           c == [old EXCEPT !.state = "refused", !.answer = got]
<1>1. calls # <<>> /\ Head(calls) = old /\ old \in FullCall /\ CallOK(old)
  BY HeadType DEF ClientInv, FailCall
<1>2. HeadBecomes(c) /\ UNCHANGED <<shown, dialog>>
  BY <1>1 DEF FailCall
<1>3. /\ Missed'
      /\ \A k \in Queries : missed'[k] = {} =>
           missed[k] = {} /\ old.op = "fetch" /\ ~ (old.kept /\ old.query = k)
  <2>1. missed' = [k \in Queries |-> IF old.op = "fetch" /\ ~ (old.kept /\ old.query = k)
                                     THEN missed[k] ELSE missed[k] \cup {"failure"}]
    BY <1>1 DEF FailCall
  <2> HIDE DEF old
  <2> QED  BY <2>1, FailedStep DEF ClientInv
<1>4. UNCHANGED <<sprint, task>> /\ ~ InFlight(Page)'
  <2>1. CASE old.state = "queued" /\ UNCHANGED vars
    <3>1. ~ InFlight(Page)  BY <1>1, <2>1, ServesNone
    <3> QED  BY <2>1, <3>1 DEF vars, InFlight
  <2> QED  BY <1>1, <2>1, FailType DEF FailCall
<1>5. got \in Plans \cup Actives /\ (old.op = "fetch" => got \in Answers(old.query))
  BY <1>1, RefusedAnswers DEF CallOK, Answers, Plans
<1> HIDE DEF got
<1>6. /\ c \in FullCall /\ c.state = "refused" /\ c.op = old.op /\ c.kept = old.kept
      /\ c.query = old.query /\ c.fresh = old.fresh /\ c.task = old.task
      /\ c.counted = old.counted /\ c.sprint = old.sprint /\ c.decision = old.decision
      /\ c.answer = got
  BY <1>1, <1>5 DEF FullCall
<1> HIDE DEF c
<1>7. CallOK(c)  BY <1>1, <1>5, <1>6 DEF CallOK
<1>8. /\ Queue(calls') /\ calls' # <<>> /\ calls'[1] = c
      /\ ShownOK(shown') /\ DialogOK(dialog') /\ Unmounted' /\ Fresh'
  BY <1>1, <1>2, <1>6, <1>7, HeadStep
<1>9. Faithful'
  <2>1. ASSUME NEW k \in Queries, missed'[k] = {}
        PROVE  Brings(k) = FALSE /\ Brings(k)' = FALSE
    BY <1>3, <1>6, <1>8, <2>1 DEF Brings
  <2>2. \A k \in Queries : missed'[k] = {} =>
          missed[k] = {} /\ ~ Brings(k) /\ Brings(k)' = Brings(k)
    BY <1>3, <2>1
  <2> QED  BY <1>2, <1>4, <2>2, FaithfulStep DEF ClientInv
<1>10. Busy'  BY <1>4 DEF Busy
<1> QED  BY <1>3, <1>8, <1>9, <1>10 DEF ClientInv

-----------------------------------------------------------------------------
(* The oldest call is answered, or breaks *)

LEMMA RestStep ==
  ASSUME ClientInv, calls # <<>>, Rest(calls'), ~ InFlight(Page), UNCHANGED req
  PROVE  /\ Queue(calls') /\ Busy' /\ Fresh'
         /\ \A k \in Queries : Brings(k)' = FALSE
<1>1. calls' # <<>> => calls'[1].state = "queued" /\ ~ calls'[1].fresh
  BY RestBringsNone
<1>2. Queue(calls')  BY RestIsQueue
<1>3. Busy'  BY DEF Busy, InFlight
<1>4. Fresh'  BY <1>1 DEF Fresh
<1>5. \A k \in Queries : Brings(k)' = FALSE  BY <1>1 DEF Brings
<1> QED  BY <1>2, <1>3, <1>4, <1>5

LEMMA AnsweredCall ==
  ASSUME ClientInv, calls # <<>>, Answered(calls[1]) \/ calls[1].state = "queued"
  PROVE  ~ InFlight(Page)
BY ServesNone DEF Answered

LEMMA AnswerCallStep ==
  ASSUME ClientInv, AnswerCall
  PROVE  ClientInv'
<1> DEFINE c == calls[1]
           start == [NewCall("start") EXCEPT !.sprint = c.sprint]
<1>1. /\ calls # <<>> /\ Head(calls) = c /\ c \in FullCall /\ CallOK(c) /\ Rest(Tail(calls))
      /\ c.op # "fetch" /\ Answered(c)
  BY HeadType DEF ClientInv, AnswerCall
<1>2. UNCHANGED <<vars, shown, missed>>  BY DEF AnswerCall
<1>3. Rest(calls')
  <2>1. CASE /\ c.op = "create" /\ c.state # "refused"
             /\ calls' = Append(Tail(calls), start)
    <3>1. c.sprint \in Sprints
      BY <1>1, <2>1 DEF Answered, CallOK
    <3>2. /\ start \in FullCall /\ start.op = "start" /\ start.state = "queued"
          /\ start.fresh = FALSE /\ start.sprint = c.sprint
      BY <3>1, NewCallType DEF FullCall
    <3> HIDE DEF start
    <3>3. Appendable(start, Tail(calls))
      BY <3>1, <3>2 DEF Appendable, CallOK, SameFetch
    <3>4. Tail(calls) \in Seq(FullCall)  BY <1>1 DEF Rest
    <3> QED  BY <1>1, <2>1, <3>2, <3>3, <3>4, Appended
  <2>2. CASE calls' = Refetched(Tail(calls), Invalidated(c))
    <3>1. Invalidated(c) \in Keys  BY DEF Invalidated, Keys
    <3> QED  BY <1>1, <2>2, <3>1, RefetchedRest
  <2>3. CASE calls' = Tail(calls)  BY <1>1, <2>3
  <2> QED  BY <1>1, <2>1, <2>2, <2>3 DEF AnswerCall
<1>4. ~ InFlight(Page)  BY <1>1, AnsweredCall
<1>5. Queue(calls') /\ Busy' /\ Fresh'  BY <1>1, <1>2, <1>3, <1>4, RestStep DEF vars
<1>6. Faithful'
  <2>1. calls' # <<>> => calls'[1].state = "queued"  BY <1>3, RestBringsNone
  <2> QED  BY <1>1, <1>2, <2>1, QuietHead DEF ClientInv, vars
<1>7. DialogOK(dialog') /\ Unmounted'
  <2> DEFINE open == dialog.open /\ ~ (c.state # "refused")
             waits == dialog.loading /\ Closing(Tail(calls))
             d == [dialog EXCEPT !.open = open, !.loading = waits]
  <2>1. dialog' = dialog \/ dialog' = d
    BY <1>1 DEF AnswerCall
  <2>2. open \in BOOLEAN /\ waits \in BOOLEAN /\ (dialog.loading = FALSE => waits = FALSE)
    OBVIOUS
  <2>3. dialog \in [open: BOOLEAN, decision: Decision, target: Sprints \cup {None},
                    loading: BOOLEAN]
    BY DEF ClientInv, DialogOK
  <2> HIDE DEF open, waits
  <2>4. DialogOK(d) /\ (Bare(dialog) => Bare(d))
    BY <2>2, <2>3 DEF DialogOK, Bare
  <2> HIDE DEF d
  <2> QED  BY <1>2, <2>1, <2>4 DEF ClientInv, Unmounted, Active
<1> QED  BY <1>2, <1>5, <1>6, <1>7 DEF ClientInv, Missed

\* what a query brought is what it shows from then on
LEMMA AnswerFetchStep ==
  ASSUME ClientInv, AnswerFetch
  PROVE  ClientInv'
<1> DEFINE c == calls[1]
<1>1. /\ calls # <<>> /\ Head(calls) = c /\ c \in FullCall /\ CallOK(c) /\ Rest(Tail(calls))
      /\ c.op = "fetch" /\ Answered(c) /\ calls' = Tail(calls)
  BY HeadType DEF ClientInv, AnswerFetch
<1>2. UNCHANGED <<vars, missed>> /\ dialog' \in Rendered(dialog, shown')
  BY DEF AnswerFetch
<1>3. shown' = IF c.kept THEN [shown EXCEPT ![c.query] = c.answer] ELSE shown
  BY <1>1 DEF AnswerFetch
<1>4. c.query \in Queries /\ c.state # "queued" /\ c.answer \in Answers(c.query)
  BY <1>1 DEF CallOK, Answered
<1>5. ~ InFlight(Page)  BY <1>1, AnsweredCall
<1>6. Queue(calls') /\ Busy' /\ Fresh' /\ \A k \in Queries : Brings(k)' = FALSE
  BY <1>1, <1>2, <1>5, RestStep DEF vars
<1>7. ShownOK(shown) /\ shown = [k \in Queries |-> shown[k]]
  BY DEF ClientInv, ShownOK
<1>8. /\ \A k \in Queries : shown'[k] = IF c.kept /\ c.query = k THEN c.answer ELSE shown[k]
      /\ shown' = [k \in Queries |-> shown'[k]]
  BY <1>3, <1>4, <1>7
<1>9. ShownOK(shown')
  BY <1>4, <1>7, <1>8 DEF ShownOK
<1>10. DialogOK(dialog') /\ Unmounted'
  BY <1>2, <1>9, RenderedType DEF ClientInv, Unmounted, Active
<1>11. Faithful'
  <2> SUFFICES ASSUME NEW k \in Queries, missed'[k] = {}
               PROVE  Newest(k)' = AnswerOf(sprint', task')[k]
    BY <1>6 DEF Faithful, UpToDate
  <2>1. Newest(k) = AnswerOf(sprint, task)[k]
    BY <1>2 DEF ClientInv, Faithful, UpToDate
  <2>2. Newest(k) = IF c.kept /\ c.query = k THEN c.answer ELSE shown[k]
    BY <1>1, <1>4 DEF Newest, Brings
  <2>3. Newest(k)' = shown'[k]  BY <1>6 DEF Newest
  <2> QED  BY <1>2, <1>8, <2>1, <2>2, <2>3 DEF vars
<1> QED  BY <1>2, <1>6, <1>9, <1>10, <1>11 DEF ClientInv, Missed

LEMMA BreakStep ==
  ASSUME ClientInv, Break
  PROVE  ClientInv'
<1> DEFINE c == calls[1]
           first == Fetch(c.query)
           again == [first EXCEPT !.retried = TRUE]
<1>1. /\ calls # <<>> /\ Head(calls) = c /\ c \in FullCall /\ CallOK(c) /\ Rest(Tail(calls))
  BY HeadType DEF ClientInv, Break
<1>2. UNCHANGED <<vars, shown, dialog>> /\ (c.state = "queued" \/ Answered(c))
  BY <1>1 DEF Break
<1>3. /\ Missed'
      /\ \A k \in Queries : missed'[k] = {} =>
           missed[k] = {} /\ c.op = "fetch" /\ ~ (c.kept /\ c.query = k)
  <2>1. missed' = [k \in Queries |-> IF c.op = "fetch" /\ ~ (c.kept /\ c.query = k)
                                     THEN missed[k] ELSE missed[k] \cup {"failure"}]
    BY <1>1 DEF Break
  <2> HIDE DEF c
  <2> QED  BY <2>1, FailedStep DEF ClientInv
<1>4. Rest(calls')
  <2>1. CASE c.op = "fetch" /\ c.kept /\ calls' = Append(Tail(calls), again)
    <3>1. c.query \in Queries  BY <1>1, <2>1 DEF CallOK
    <3>2. /\ again \in FullCall /\ again.op = "fetch" /\ again.state = "queued"
          /\ again.fresh = FALSE /\ again.query = c.query
      <4>1. /\ first \in FullCall /\ first.op = "fetch" /\ first.state = "queued"
            /\ ~ first.fresh /\ first.query = c.query
        BY <3>1, FetchType
      <4> HIDE DEF first
      <4>2. first.fresh = FALSE  BY <4>1 DEF FullCall
      <4> QED  BY <4>1, <4>2 DEF FullCall
    <3>3. \A i \in DOMAIN Tail(calls) : ~ SameFetch(Tail(calls)[i], again)
      <4> SUFFICES ASSUME NEW i \in DOMAIN Tail(calls), SameFetch(Tail(calls)[i], again)
                   PROVE  FALSE
        OBVIOUS
      <4>1. i + 1 \in DOMAIN calls /\ i + 1 > 1 /\ Tail(calls)[i] = calls[i + 1]
        BY <1>1, TailRest DEF ClientInv
      <4>2. SameFetch(calls[i + 1], c)
        BY <2>1, <3>2, <4>1 DEF SameFetch
      <4>3. 1 \in DOMAIN calls
        <5>1. calls \in Seq(FullCall) /\ Len(calls) # 0  BY <1>1 DEF ClientInv, Queue
        <5> QED  BY <5>1
      <4>4. i + 1 = 1  BY <4>1, <4>2, <4>3 DEF ClientInv, Queue, OneKept
      <4> QED  BY <4>1, <4>4
    <3> HIDE DEF again
    <3>4. Appendable(again, Tail(calls))
      BY <3>1, <3>2, <3>3 DEF Appendable, CallOK
    <3>5. Tail(calls) \in Seq(FullCall)  BY <1>1 DEF Rest
    <3> QED  BY <1>1, <2>1, <3>2, <3>4, <3>5, Appended
  <2>2. CASE calls' = Tail(calls)  BY <1>1, <2>2
  <2> QED  BY <1>1, <2>1, <2>2 DEF Break
<1>5. ~ InFlight(Page)  BY <1>1, <1>2, AnsweredCall
<1>6. Queue(calls') /\ Busy' /\ Fresh' /\ \A k \in Queries : Brings(k)' = FALSE
  BY <1>1, <1>2, <1>4, <1>5, RestStep DEF vars
<1>7. Faithful'
  <2>1. \A k \in Queries : missed'[k] = {} => missed[k] = {} /\ Brings(k) = FALSE
    BY <1>1, <1>3 DEF Brings
  <2>2. \A k \in Queries : missed'[k] = {} =>
          missed[k] = {} /\ ~ Brings(k) /\ Brings(k)' = Brings(k)
    BY <1>6, <2>1
  <2> QED  BY <1>2, <2>2, FaithfulStep DEF ClientInv, vars
<1> QED  BY <1>2, <1>3, <1>6, <1>7 DEF ClientInv, Unmounted, Active

-----------------------------------------------------------------------------
(* The invariant holds *)

LEMMA PageInvParts == PageInv <=> TypeOK /\ ClientInv
BY DEF PageInv, ClientInv

LEMMA PageInvStep ==
  ASSUME PageInv, [PageNext]_pageVars
  PROVE  PageInv'
<1>1. TypeOK /\ ClientInv  BY PageInvParts
<1>2. CASE PageNext
  <2>1. TypeOK'  BY <1>1, <1>2, PageStep, NextType DEF ClientInv
  <2>2. ClientInv'
    <3>1. CASE User
      BY <1>1, <3>1, ButtonsStep, CloseDialogStep DEF User
    <3>2. CASE Serve
      BY <1>1, <3>2, SendStep, RefuseStep, ServeCreateStep, ServeFetchStep, ServeCallStep
         DEF Serve
    <3>3. CASE Answer
      BY <1>1, <3>3, AnswerCallStep, AnswerFetchStep DEF Answer
    <3> QED
      BY <1>1, <1>2, <3>1, <3>2, <3>3, OthersStep, FailCallStep, BreakStep DEF PageNext
  <2> QED  BY <2>1, <2>2 DEF PageInv, ClientInv
<1>3. CASE UNCHANGED pageVars
  <2>1. TypeOK'  BY <1>1, <1>3, NextType DEF pageVars
  <2>2. ClientInv'
    BY <1>1, <1>3, DialogStep DEF pageVars, vars, client, ClientInv, Unmounted, Active
  <2> QED  BY <2>1, <2>2 DEF PageInv, ClientInv
<1> QED  BY <1>2, <1>3

LEMMA PageInvInit == PageInit => PageInv
<1> SUFFICES ASSUME PageInit PROVE PageInv  OBVIOUS
<1>1. /\ sprint = StartSprint /\ task = StartTask /\ removed = {} /\ stray = {}
      /\ req = [r \in Requests |-> Idle] /\ shown = AnswerOf(StartSprint, StartTask)
      /\ dialog \in Rendered(NewDialog, shown) /\ calls = <<>>
      /\ missed = [k \in Queries |-> {}]
  BY DEF PageInit
<1>2. TypeOK
  <2>1. \A s \in Sprints : SprintOK(s)
    BY <1>1, StartAssumption DEF SprintOK
  <2>2. \A t \in Tasks : TaskOK(t)
    BY <1>1, StartAssumption DEF TaskOK, Stored, Exists
  <2>3. req \in [Requests -> Request] /\ \A r \in Requests : RequestOK(req[r])
    BY <1>1, IdleType DEF RequestOK
  <2> QED  BY <1>1, <2>1, <2>2, <2>3, StartAssumption DEF TypeOK
<1>3. Queue(calls)
  <2>1. calls \in Seq(FullCall) /\ DOMAIN calls = {}  BY <1>1
  <2> QED  BY <2>1 DEF Queue, OneKept
<1>4. ShownOK(shown)
  <2>1. \A k \in Queries : shown[k] \in Answers(k)
    BY <1>1, ServerAnswers
  <2>2. shown = [k \in Queries |-> shown[k]]
    BY <1>1 DEF AnswerOf
  <2> QED  BY <2>1, <2>2 DEF ShownOK
<1>5. DialogOK(dialog) /\ Unmounted
  <2>1. DialogOK(NewDialog)  BY DEF DialogOK, NewDialog, Decision
  <2> QED  BY <1>1, <1>4, <2>1, RenderedType DEF Unmounted, Active
<1>6. Missed  BY <1>1 DEF Missed
<1>7. Busy
  <2>1. req[Page] = Idle  BY <1>1, PageAssumption
  <2> QED  BY <2>1, IdleType DEF Busy, InFlight
<1>8. Fresh  BY <1>1 DEF Fresh
<1>9. Faithful  BY <1>1 DEF Faithful, Newest, Brings
<1> QED  BY <1>2, <1>3, <1>4, <1>5, <1>6, <1>7, <1>8, <1>9 DEF PageInv

LEMMA PageInvType == PageInv => PageTypeOK
<1> SUFFICES ASSUME PageInv PROVE PageTypeOK  OBVIOUS
<1>1. /\ TypeOK /\ shown["sprints"] \subseteq Sprints
      /\ Active.done \subseteq Active.tasks /\ Active.tasks \subseteq Tasks
      /\ Active.sprint = None => Active = NoActive
                                 /\ dialog = [NewDialog EXCEPT !.open = dialog.open]
      /\ dialog \in [open: BOOLEAN, decision: Decision, target: Sprints \cup {None},
                     loading: BOOLEAN]
      /\ missed \in [Queries -> SUBSET {"page", "others", "failure"}]
  BY ActiveType, BareIsNew DEF PageInv, DialogOK, Unmounted, Missed
<1>2. ASSUME NEW i \in DOMAIN calls
      PROVE  /\ [f \in DOMAIN NewCall("fetch") \ {"answer"} |-> calls[i][f]] \in Call
             /\ i > 1 => calls[i].state = "queued"
             /\ \A j \in DOMAIN calls :
                  /\ calls[i].op = "fetch" /\ calls[j].op = "fetch"
                  /\ calls[i].kept /\ calls[j].kept /\ calls[i].query = calls[j].query
                  => i = j
  <2>1. calls[i] \in FullCall  BY DEF PageInv, Queue
  <2>2. [f \in DOMAIN NewCall("fetch") \ {"answer"} |-> calls[i][f]] \in Call
    BY <2>1, CallType
  <2> QED  BY <2>2 DEF PageInv, Queue, OneKept, SameFetch
<1>3. InFlight(Page) => calls # <<>> /\ Head(calls).state = "sent"
  BY HeadType DEF PageInv, Busy, Serves
<1> QED  BY <1>1, <1>2, <1>3 DEF PageTypeOK

(***************************************************************************)
(* Rows, calls, answers and dialog of the page of the sprints stay well    *)
(* formed; only the oldest call has been sent, the handler works for it,   *)
(* and of the fetches of a query that are due at most one is shown.        *)
(***************************************************************************)
THEOREM PageTypeCorrect == PageSpec => []PageTypeOK
<1>1. PageInit => PageInv  BY PageInvInit
<1>2. PageInv /\ [PageNext]_pageVars => PageInv'  BY PageInvStep
<1>3. PageInv => PageTypeOK  BY PageInvType
<1> HIDE DEF PageInv
<1> QED  BY <1>1, <1>2, <1>3, PTL DEF PageSpec

-----------------------------------------------------------------------------
(* What is offered *)

\* what a page that was up to date showed is what the server has
LEMMA FreshShows ==
  ASSUME PageInv, calls # <<>>, Head(calls).fresh
  PROVE  /\ Head(calls) = calls[1] /\ calls[1] \in FullCall /\ CallOK(calls[1])
         /\ FreshCall(calls[1]) /\ calls[1].op # "fetch"
         /\ \A k \in Queries : UpToDate(k) => shown[k] = AnswerOf(sprint, task)[k]
<1>1. /\ Head(calls) = calls[1] /\ calls[1] \in FullCall /\ CallOK(calls[1])
      /\ FreshCall(calls[1])
  BY HeadType DEF PageInv, Fresh
<1>2. calls[1].op # "fetch"  BY <1>1 DEF CallOK
<1>3. ASSUME NEW k \in Queries, UpToDate(k) PROVE shown[k] = AnswerOf(sprint, task)[k]
  BY <1>2, <1>3 DEF PageInv, Faithful, Newest, Brings
<1> QED  BY <1>1, <1>2, <1>3

LEMMA NothingRefused ==
  ASSUME PageInv, Refuse, Head(calls).fresh, Head(calls).op # "add",
         Head(calls).target \in Offered(shown) \cup {None},
         \A k \in Queries : UpToDate(k)
  PROVE  FALSE
<1> DEFINE c == calls[1]
<1>1. /\ calls # <<>> /\ Head(calls) = c /\ c \in FullCall /\ CallOK(c) /\ FreshCall(c)
      /\ c.op \notin {"fetch", "add", "start"}
      /\ c.target \in Offered(shown) \cup {None}
  BY FreshShows DEF Refuse, FreshCall
<1>2. /\ shown["sprints"] = PlannedAnswer(sprint) /\ Active = ActiveAnswer(sprint, task)
  <2>1. \A k \in Queries : shown[k] = AnswerOf(sprint, task)[k]
    BY <1>1, FreshShows
  <2> QED  BY <2>1 DEF Queries, AnswerOf, Active
<1> HIDE DEF c
<1>3. /\ Active.sprint = None =>
           \A s \in Sprints : sprint[s].owner = Me => sprint[s].state # "ACTIVE"
      /\ Active.sprint # None =>
           /\ Active.sprint \in Sprints
           /\ sprint[Active.sprint].owner = Me /\ sprint[Active.sprint].state = "ACTIVE"
           /\ Active.tasks =
                {t \in Tasks : task[t].state = "live" /\ task[t].sprint = Active.sprint}
  BY <1>2, ActiveTells
<1>4. \A s \in shown["sprints"] :
        s \in Sprints /\ sprint[s].owner = Me /\ sprint[s].state = "PLANNED"
  BY <1>2 DEF PlannedAnswer
<1>5. c.op = "close" =>
        /\ c.sprint = Active.sprint /\ c.sprint \in Sprints
        /\ sprint[c.sprint].owner = Me /\ sprint[c.sprint].state = "ACTIVE"
        /\ c.target # c.sprint
        /\ c.target \in Sprints =>
             sprint[c.target].owner = Me /\ sprint[c.target].state = "PLANNED"
  <2>1. c.op = "close" => c.sprint = Active.sprint /\ Active.sprint # None
    BY <1>1 DEF FreshCall
  <2>2. None \notin Sprints  BY BodyAssumption
  <2>3. c.target \in Sprints => c.target \in shown["sprints"]
    BY <1>1, <2>2 DEF Offered
  <2>4. c.op = "close" => c.target # c.sprint
    BY <1>1, <2>1 DEF Offered, Active
  <2> QED  BY <1>3, <1>4, <2>1, <2>3, <2>4
<1>6. CASE c.state = "queued" /\ RefusedAtOnce(c)
  <2>1. CASE c.op = "activate" /\ OtherActive(c.sprint)
    <3>1. c.sprint \in shown["sprints"] /\ Active.sprint = None
      BY <1>1, <2>1 DEF FreshCall
    <3> QED  BY <1>3, <1>4, <2>1, <3>1 DEF OtherActive
  <2>2. CASE c.op = "take" /\ ~ Takeable(c.sprint, c.task)
    <3>1. c.sprint = Active.sprint /\ c.task \in Active.tasks
      BY <1>1, <2>2 DEF FreshCall
    <3>2. Active.sprint # None
      BY <3>1, ActiveType DEF PageInv, NoActive
    <3> QED  BY <1>3, <2>2, <3>1, <3>2 DEF Takeable, Stored
  <2>3. CASE c.op = "close" /\ (sprint[c.sprint].state = "COMPLETED" \/ c.target = c.sprint)
    BY <1>5, <2>3
  <2> QED  BY <1>1, <1>6, <2>1, <2>2, <2>3 DEF RefusedAtOnce
<1>7. CASE req[Page].pc = "target" /\ ~ TargetOK(req[Page])
  <2>1. Serves(req[Page], c)
    BY <1>7 DEF PageInv, Busy, InFlight, c
  <2>2. /\ c.op = "close" /\ c.sprint = req[Page].sprint
        /\ c.target = req[Page].target /\ c.target \in Sprints
    BY <1>7, <2>1 DEF Serves
  <2> QED  BY <1>5, <1>7, <2>2 DEF TargetOK
<1> QED  BY <1>1, <1>6, <1>7 DEF Refuse

(***************************************************************************)
(* What was submitted on an up-to-date page with nothing due is refused    *)
(* only if an answer shown has become stale since: an activation while no  *)
(* sprint is active, a task of the active sprint to be taken out of it, a  *)
(* closing with one of the sprints the dialog lists.                       *)
(***************************************************************************)
THEOREM OffersAccepted == PageSpec => OffersWhatIsAccepted
<1>1. PageInit => PageInv  BY PageInvInit
<1>2. PageInv /\ [PageNext]_pageVars => PageInv'  BY PageInvStep
<1>3. PageInv => [Refuse /\ Head(calls).fresh /\ Head(calls).op # "add"
                    /\ Head(calls).target \in Offered(shown) \cup {None}
                    => \E k \in Queries : ~ UpToDate(k)]_pageVars
  BY NothingRefused
<1> HIDE DEF PageInv
<1> QED  BY <1>1, <1>2, <1>3, PTL DEF PageSpec, OffersWhatIsAccepted

=============================================================================
