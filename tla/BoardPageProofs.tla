--------------------------- MODULE BoardPageProofs ---------------------------
(***************************************************************************)
(* Proofs about BoardPage, for every set of tasks, lists and requests, and *)
(* for any number of acts and failures.                                    *)
(***************************************************************************)
EXTENDS BoardPage, TaskBoardProofs, SequenceTheorems

-----------------------------------------------------------------------------
(* The inductive invariant *)

\* an answer to the query, and the orders the page makes of one
Data == [ok: BOOLEAN, in: [Tasks -> Columns], at: [Tasks -> Int]]
Views == [Tasks -> Columns]
Orders == {Arranged(in, at) : in \in Views, at \in [Tasks -> Int]}
Sights == [in: Views, order: Orders]
Drops == {Rearranged(o, k, a, l, i) : o \in Orders, k, l \in Lists, a, i \in Nat}

FullCall ==
  [op: {"reorder", "move", "create", "remove", "fetch"},
   state: {"queued", "sent", "done", "refused"},
   task: Tasks \cup {None}, list: Columns, index: Nat,
   kept: BOOLEAN, retried: BOOLEAN,
   answer: Data, from: Sights \cup {None}, sees: Drops \cup {None}]

\* a call has what the server needs
CallOK(c) ==
  /\ c.op = "fetch" => c.state # "sent"
  /\ c.op \in {"reorder", "move", "remove"} => c.task \in Tasks
  /\ c.op \in {"reorder", "move", "create"} => c.list \in Lists

\* both are fetches whose answers are wanted
SameFetch(c, d) == c.op = "fetch" /\ d.op = "fetch" /\ c.kept /\ d.kept

OneKept(cs) == \A i, j \in DOMAIN cs : SameFetch(cs[i], cs[j]) => i = j

\* the calls that wait, and all calls: only the oldest may be further on
Rest(cs) ==
  /\ cs \in Seq(FullCall) /\ OneKept(cs)
  /\ \A i \in DOMAIN cs : CallOK(cs[i]) /\ cs[i].state = "queued"

Queue(cs) ==
  /\ cs \in Seq(FullCall) /\ OneKept(cs)
  /\ \A i \in DOMAIN cs : CallOK(cs[i]) /\ (i > 1 => cs[i].state = "queued")

Drag == [task: Tasks, list: Lists, index: Nat, seen: Sights]

\* the handler works for the oldest call
Busy == InFlight(Page) => calls # <<>> /\ calls[1].state = "sent"

ClientInv ==
  /\ data \in Data /\ view \in Views \cup {None} /\ drag \in Drag \cup {None}
  /\ Queue(calls) /\ Busy /\ missed \subseteq {"page", "others", "failure"}

PageInv == TypeOK /\ ClientInv

-----------------------------------------------------------------------------
(* Queues of calls *)

LEMMA CallType ==
  ASSUME NEW c \in FullCall
  PROVE  [f \in DOMAIN Fetch \ {"answer", "from", "sees"} |-> c[f]] \in Call
<1>1. DOMAIN Fetch \ {"answer", "from", "sees"}
        = {"op", "state", "task", "list", "index", "kept", "retried"}
  BY DEF Fetch, NewCall
<1>2. [f \in {"op", "state", "task", "list", "index", "kept", "retried"} |-> c[f]] \in Call
  BY DEF Call, FullCall
<1> QED  BY <1>1, <1>2

LEMMA NoListsType == NoLists \in Data
BY DEF NoLists, Data, Columns

LEMMA NewCallType ==
  ASSUME NEW op \in {"reorder", "move", "create", "remove", "fetch"}
  PROVE  /\ NewCall(op) \in FullCall
         /\ NewCall(op).op = op /\ NewCall(op).state = "queued" /\ NewCall(op).kept
         /\ NewCall(op).from = None
<1> DEFINE none == NoLists
<1>1. none \in Data  BY NoListsType
<1> HIDE DEF none
<1>2. NewCall(op) = [op |-> op, state |-> "queued", task |-> None, list |-> None,
                     index |-> 0, kept |-> TRUE, retried |-> FALSE,
                     answer |-> none, from |-> None, sees |-> None]
  BY DEF NewCall, none
<1> QED  BY <1>1, <1>2 DEF FullCall, Columns

LEMMA FetchType ==
  /\ Fetch \in FullCall /\ CallOK(Fetch)
  /\ Fetch.op = "fetch" /\ Fetch.kept /\ Fetch.state = "queued"
BY NewCallType DEF Fetch, CallOK

LEMMA RestIsQueue == ASSUME NEW cs, Rest(cs) PROVE Queue(cs)
BY DEF Rest, Queue

LEMMA TailRest ==
  ASSUME NEW cs, Queue(cs), cs # <<>>
  PROVE  /\ Rest(Tail(cs)) /\ Len(Tail(cs)) = Len(cs) - 1
         /\ \A i \in DOMAIN Tail(cs) : i + 1 \in DOMAIN cs /\ i + 1 > 1 /\ Tail(cs)[i] = cs[i + 1]
         /\ cs[1] \in FullCall /\ CallOK(cs[1]) /\ Head(cs) = cs[1]
<1>1. cs \in Seq(FullCall) /\ Len(cs) \in Nat \ {0} /\ DOMAIN cs = 1 .. Len(cs)
  BY DEF Queue
<1>2. /\ Tail(cs) \in Seq(FullCall) /\ Len(Tail(cs)) = Len(cs) - 1
      /\ DOMAIN Tail(cs) = 1 .. Len(cs) - 1
      /\ \A i \in 1 .. Len(cs) - 1 : Tail(cs)[i] = cs[i + 1]
  BY <1>1, HeadTailProperties
<1>3. \A i \in 1 .. Len(cs) - 1 : i + 1 \in 1 .. Len(cs) /\ i + 1 > 1
  BY <1>1
<1> DEFINE tl == Tail(cs)
<1> HIDE DEF tl
<1>4. OneKept(tl)
  <2> SUFFICES ASSUME NEW i \in DOMAIN tl, NEW j \in DOMAIN tl, SameFetch(tl[i], tl[j])
               PROVE  i = j
    BY DEF OneKept
  <2>1. /\ i \in 1 .. Len(cs) - 1 /\ j \in 1 .. Len(cs) - 1
        /\ tl[i] = cs[i + 1] /\ tl[j] = cs[j + 1]
    BY <1>2 DEF tl
  <2>2. i + 1 = j + 1
    BY <1>1, <1>3, <2>1 DEF Queue, OneKept
  <2> QED  BY <1>1, <2>1, <2>2
<1>5. \A i \in DOMAIN tl : CallOK(tl[i]) /\ tl[i].state = "queued"
  BY <1>1, <1>2, <1>3 DEF tl, Queue
<1>6. cs[1] \in FullCall /\ CallOK(cs[1]) /\ Head(cs) = cs[1]
  BY <1>1 DEF Queue
<1> QED  BY <1>1, <1>2, <1>3, <1>4, <1>5, <1>6 DEF Rest, tl

\* a call that may be appended to the queue cs
Appendable(c, cs) ==
  /\ c \in FullCall /\ CallOK(c) /\ c.state = "queued"
  /\ \A i \in DOMAIN cs : ~ SameFetch(cs[i], c)

LEMMA Appended ==
  ASSUME NEW cs, cs \in Seq(FullCall), NEW c, Appendable(c, cs)
  PROVE  /\ Append(cs, c) # <<>>
         /\ Queue(cs) => Queue(Append(cs, c))
         /\ Rest(cs) => Rest(Append(cs, c))
         /\ cs # <<>> => Append(cs, c)[1] = cs[1]
<1> DEFINE n == Len(cs)
           as == Append(cs, c)
<1>1. /\ as \in Seq(FullCall) /\ n \in Nat /\ DOMAIN as = 1 .. n + 1 /\ DOMAIN cs = 1 .. n
      /\ \A i \in 1 .. n : as[i] = cs[i]
      /\ as[n + 1] = c
  BY DEF Appendable
<1>2. n = 0 <=> cs = <<>>  BY DEF n
<1>3. \A i \in 1 .. n + 1 : i \in 1 .. n \/ i = n + 1  BY <1>1
<1>4. as # <<>>
  <2>1. 1 \in DOMAIN as  BY <1>1
  <2>2. 1 \notin DOMAIN <<>>  OBVIOUS
  <2> QED  BY <2>1, <2>2
<1> HIDE DEF n, as
<1>5. ASSUME OneKept(cs) PROVE OneKept(as)
  <2> SUFFICES ASSUME NEW i \in DOMAIN as, NEW j \in DOMAIN as, SameFetch(as[i], as[j])
               PROVE  i = j
    BY DEF OneKept
  <2>1. SameFetch(as[j], as[i])  BY DEF SameFetch
  <2>2. ~ (i \in 1 .. n /\ j = n + 1)  BY <1>1 DEF Appendable
  <2>3. ~ (j \in 1 .. n /\ i = n + 1)  BY <1>1, <2>1 DEF Appendable
  <2>4. i \in 1 .. n /\ j \in 1 .. n => i = j  BY <1>1, <1>5 DEF OneKept
  <2> QED  BY <1>1, <1>3, <2>2, <2>3, <2>4
<1>6. Queue(cs) => Queue(as)
  BY <1>1, <1>3, <1>5 DEF Queue, Appendable
<1>7. Rest(cs) => Rest(as)
  BY <1>1, <1>3, <1>5 DEF Rest, Appendable
<1>8. cs # <<>> => as[1] = cs[1]
  <2>1. n # 0 => 1 \in 1 .. n  BY <1>1
  <2> QED  BY <1>1, <1>2, <2>1
<1> QED  BY <1>4, <1>6, <1>7, <1>8 DEF as

\* the oldest call goes on
LEMMA HeadGoesOn ==
  ASSUME NEW cs, Queue(cs), cs # <<>>, NEW c \in FullCall, CallOK(c),
         c.op = cs[1].op, c.kept = cs[1].kept
  PROVE  /\ Queue(<<c>> \o Tail(cs)) /\ <<c>> \o Tail(cs) # <<>>
         /\ (<<c>> \o Tail(cs))[1] = c
         /\ DOMAIN (<<c>> \o Tail(cs)) = DOMAIN cs
         /\ \A i \in DOMAIN cs : i # 1 => (<<c>> \o Tail(cs))[i] = cs[i]
<1> DEFINE n == Len(cs)
           hs == <<c>> \o Tail(cs)
<1>1. /\ cs \in Seq(FullCall) /\ n \in Nat \ {0} /\ DOMAIN cs = 1 .. n
      /\ Tail(cs) \in Seq(FullCall) /\ Len(Tail(cs)) = n - 1
      /\ \A i \in 1 .. n - 1 : Tail(cs)[i] = cs[i + 1]
  BY HeadTailProperties DEF Queue
<1>2. /\ hs \in Seq(FullCall) /\ DOMAIN hs = 1 .. n /\ hs[1] = c
      /\ \A i \in 2 .. n : hs[i] = cs[i]
  <2>1. <<c>> \in Seq(FullCall) /\ Len(<<c>>) = 1 /\ <<c>>[1] = c  OBVIOUS
  <2> DEFINE s == <<c>>
             t == Tail(cs)
  <2> HIDE DEF s, t, n
  <2>2. /\ s \o t \in Seq(FullCall) /\ Len(s \o t) = n
        /\ \A i \in 1 .. n : (s \o t)[i] = IF i <= 1 THEN s[i] ELSE t[i - 1]
    BY <1>1, <2>1, ConcatProperties DEF s, t
  <2>3. \A i \in 2 .. n : i - 1 \in 1 .. n - 1 /\ (i - 1) + 1 = i  BY <1>1
  <2>4. \A i \in 2 .. n : (s \o t)[i] = cs[i]
    BY <1>1, <2>2, <2>3 DEF t
  <2> QED  BY <1>1, <2>1, <2>2, <2>4 DEF s, t
<1> HIDE DEF hs
<1>3. \A i \in 1 .. n : i = 1 \/ i \in 2 .. n  BY <1>1
<1>4. OneKept(hs)
  <2> SUFFICES ASSUME NEW i \in DOMAIN hs, NEW j \in DOMAIN hs, SameFetch(hs[i], hs[j])
               PROVE  i = j
    BY DEF OneKept
  <2>1. SameFetch(cs[i], cs[j])  BY <1>1, <1>2, <1>3 DEF SameFetch
  <2> QED  BY <1>1, <1>2, <2>1 DEF Queue, OneKept
<1>5. \A i \in DOMAIN hs : CallOK(hs[i]) /\ (i > 1 => hs[i].state = "queued")
  BY <1>1, <1>2, <1>3 DEF Queue
<1>6. hs # <<>>
  <2>1. 1 \in DOMAIN hs  BY <1>1, <1>2
  <2>2. 1 \notin DOMAIN <<>>  OBVIOUS
  <2> QED  BY <2>1, <2>2
<1> QED  BY <1>1, <1>2, <1>3, <1>4, <1>5, <1>6 DEF Queue, hs

\* the lists are asked again, and no other answer is wanted
LEMMA RefetchedRest ==
  ASSUME NEW cs, Rest(cs)
  PROVE  Rest(Refetched(cs))
<1> DEFINE n == Len(cs)
           old == [i \in DOMAIN cs |-> IF cs[i].op = "fetch" THEN [cs[i] EXCEPT !.kept = FALSE]
                                       ELSE cs[i]]
<1>1. cs \in Seq(FullCall) /\ n \in Nat /\ DOMAIN cs = 1 .. n
  BY DEF Rest
<1>2. \A i \in 1 .. n :
        /\ old[i] \in FullCall /\ CallOK(old[i]) /\ old[i].state = "queued"
        /\ ~ (old[i].op = "fetch" /\ old[i].kept)
  <2> SUFFICES ASSUME NEW i \in 1 .. n
               PROVE  /\ old[i] \in FullCall /\ CallOK(old[i]) /\ old[i].state = "queued"
                      /\ ~ (old[i].op = "fetch" /\ old[i].kept)
    OBVIOUS
  <2>1. cs[i] \in FullCall /\ CallOK(cs[i]) /\ cs[i].state = "queued"
    BY <1>1 DEF Rest
  <2>2. CASE cs[i].op # "fetch" /\ old[i] = cs[i]
    BY <2>1, <2>2
  <2>3. CASE old[i] = [cs[i] EXCEPT !.kept = FALSE]
    <3> DEFINE c == cs[i]
               d == [c EXCEPT !.kept = FALSE]
    <3>1. /\ d \in FullCall /\ d.kept = FALSE /\ d.op = c.op /\ d.state = c.state
          /\ d.task = c.task /\ d.list = c.list
      BY <2>1 DEF FullCall
    <3>2. old[i] = d  BY <2>3
    <3> HIDE DEF d, old
    <3>3. CallOK(d)  BY <2>1, <3>1 DEF CallOK
    <3> QED  BY <2>1, <3>1, <3>2, <3>3
  <2> QED  BY <1>1, <2>2, <2>3
<1>3. old \in Seq(FullCall) /\ DOMAIN old = 1 .. n
  BY <1>1, <1>2
<1> HIDE DEF old, n
<1>4. Rest(old)
  BY <1>2, <1>3 DEF Rest, OneKept, SameFetch
<1>5. Appendable(Fetch, old)
  BY <1>2, <1>3, FetchType DEF Appendable, SameFetch
<1> QED
  BY <1>3, <1>4, <1>5, Appended DEF Refetched, old

-----------------------------------------------------------------------------
(* The handlers of the server *)

\* a handler of the page begins
LEMMA PageBegins ==
  ASSUME TypeOK, NEW q \in Request, Begin(Page, q), RequestOK(q)
  PROVE  TypeOK'
BY PageAssumption, BeginType

\* a drop may send an index that its list no longer has
LEMMA DropBegins ==
  ASSUME TypeOK, NEW t \in Tasks, NEW l \in Lists, NEW p \in Nat,
         BeginUpdatePosition(Page, t, p) \/ BeginMove(Page, t, l, p)
  PROVE  TypeOK'
<1>1. Found(t)  BY DEF BeginUpdatePosition, BeginMove
<1>2. /\ Read(t) \in Request /\ Read(t).task = t /\ Read(t).seen = row[t]
      /\ row[t].state = "live" /\ row[t].list \in Lists /\ row[t].status \in Status
  BY <1>1, ReadType DEF Found, TypeOK, RowOK
<1>3. CASE BeginUpdatePosition(Page, t, p)
  <2> DEFINE next == IF p = row[t].position THEN "set" ELSE "shift"
             q == [Read(t) EXCEPT !.pc = next, !.position = p]
  <2>1. next \in {"set", "shift"}  OBVIOUS
  <2>2. Begin(Page, q)  BY <1>3 DEF BeginUpdatePosition
  <2> HIDE DEF next
  <2>3. q \in Request /\ q.pc = next /\ q.task = t /\ q.seen = row[t]
    <3>1. p \in Int  OBVIOUS
    <3> QED  BY <1>2, <2>1, <3>1 DEF Request
  <2> HIDE DEF q
  <2>4. RequestOK(q)  BY <1>2, <2>1, <2>3 DEF RequestOK
  <2> QED  BY <2>2, <2>3, <2>4, PageBegins
<1>4. CASE BeginMove(Page, t, l, p)
  <2> DEFINE q == [Read(t) EXCEPT !.pc = "move", !.list = l, !.position = p]
  <2>1. Begin(Page, q)  BY <1>4 DEF BeginMove
  <2>2. q \in Request /\ q.pc = "move" /\ q.task = t /\ q.list = l /\ q.seen = row[t]
    <3>1. p \in Int  OBVIOUS
    <3> QED  BY <1>2, <3>1 DEF Request
  <2> HIDE DEF q
  <2>3. RequestOK(q)  BY <1>2, <2>2 DEF RequestOK
  <2> QED  BY <2>1, <2>2, <2>3, PageBegins
<1> QED  BY <1>3, <1>4

LEMMA HeadType ==
  ASSUME ClientInv, calls # <<>>
  PROVE  /\ Head(calls) = calls[1] /\ calls[1] \in FullCall /\ CallOK(calls[1])
         /\ Rest(Tail(calls))
BY TailRest DEF ClientInv

LEMMA SentWrite ==
  ASSUME PageInv, SendWrite
  PROVE  /\ TypeOK' /\ calls # <<>> /\ calls[1].state = "queued"
         /\ calls[1].op # "fetch" /\ UNCHANGED <<row, audit, failures>>
<1> DEFINE c == calls[1]
<1>1. calls # <<>> /\ Head(calls) = c /\ c.state = "queued" /\ c.op # "fetch"
  BY HeadType DEF PageInv, SendWrite, Waiting
<1>2. c \in FullCall /\ CallOK(c)  BY <1>1, HeadType DEF PageInv
<1>3. c.index \in Nat  BY <1>2 DEF FullCall
<1>4. UNCHANGED <<row, audit, failures>>
  BY DEF SendWrite, BeginUpdatePosition, BeginMove, BeginCreate, BeginRemove, Begin
<1>5. CASE Waiting("reorder") /\ BeginUpdatePosition(Page, c.task, c.index)
  <2>1. c.task \in Tasks /\ c.list \in Lists
    BY <1>1, <1>2, <1>5 DEF Waiting, CallOK
  <2> HIDE DEF c
  <2> QED  BY <1>1, <1>3, <1>4, <1>5, <2>1, DropBegins DEF PageInv, c
<1>6. CASE Waiting("move") /\ BeginMove(Page, c.task, c.list, c.index)
  <2>1. c.task \in Tasks /\ c.list \in Lists
    BY <1>1, <1>2, <1>6 DEF Waiting, CallOK
  <2> HIDE DEF c
  <2> QED  BY <1>1, <1>3, <1>4, <1>6, <2>1, DropBegins DEF PageInv, c
<1>7. CASE Waiting("create") /\ BeginCreate(Page, c.list, DONE)
  <2>1. c.list \in Lists  BY <1>1, <1>2, <1>7 DEF Waiting, CallOK
  <2>2. Accept(Page)  BY <1>7, <2>1, ValueAssumption DEF Accept
  <2> QED  BY <1>1, <1>4, <2>2, PageAssumption, NextType DEF PageInv, Next
<1>8. CASE Waiting("remove") /\ BeginRemove(Page, c.task)
  <2>1. c.task \in Tasks  BY <1>1, <1>2, <1>8 DEF Waiting, CallOK
  <2>2. Accept(Page)  BY <1>8, <2>1 DEF Accept
  <2> QED  BY <1>1, <1>4, <2>2, PageAssumption, NextType DEF PageInv, Next
<1> QED  BY <1>1, <1>5, <1>6, <1>7, <1>8 DEF SendWrite

\* every step of the page but the sending of a call is one of the server, or none
LEMMA PageStep ==
  ASSUME PageInv, PageNext
  PROVE  TypeOK'
<1> USE PageAssumption
<1>1. CASE SendWrite  BY <1>1, SentWrite
<1>2. CASE User
  BY <1>2, NextType
     DEF PageInv, User, Lift, PutBack, Drop, SubmitCreate, SubmitDelete
<1>3. CASE SendInVain \/ ServeFetch \/ AnswerMove \/ AnswerDialog \/ AnswerFetch
  BY <1>3, NextType
     DEF PageInv, SendInVain, ServeFetch, AnswerMove, AnswerDialog, AnswerFetch
<1>4. CASE FailFetch \/ Break
  <2>1. UNCHANGED <<row, audit, req>> /\ failures' = failures + 1
    BY <1>4 DEF FailFetch, Break
  <2> QED
    BY <2>1 DEF PageInv, TypeOK, RowOK, RequestOK
<1>5. CASE ServeWrite \/ FailWrite
  <2>1. Next  BY <1>5 DEF ServeWrite, FailWrite, Next
  <2> QED  BY <2>1, NextType DEF PageInv
<1>6. ASSUME NEW r \in Requests \ {Page}, Others(r) PROVE TypeOK'
  <2>1. Next  BY <1>6 DEF Others, Next
  <2> QED  BY <2>1, NextType DEF PageInv
<1> QED
  BY <1>1, <1>2, <1>3, <1>4, <1>5, <1>6 DEF PageNext, Serve, Answer

-----------------------------------------------------------------------------
(* Answers and orders *)

LEMMA AnswerType ==
  ASSUME NEW rows \in [Tasks -> TaskRow],
         \A t \in Tasks : rows[t].state = "live" => rows[t].list \in Lists
  PROVE  AnswerOf(rows) \in Data
<1> DEFINE in == [t \in Tasks |-> IF rows[t].state = "live" THEN rows[t].list ELSE None]
           at == [t \in Tasks |-> IF rows[t].state = "live" THEN rows[t].position ELSE 0]
<1>1. in \in [Tasks -> Columns]  BY DEF Columns
<1>2. at \in [Tasks -> Int]  BY DEF TaskRow
<1>3. AnswerOf(rows) = [ok |-> TRUE, in |-> in, at |-> at]  BY DEF AnswerOf
<1> HIDE DEF in, at
<1> QED  BY <1>1, <1>2, <1>3 DEF Data

LEMMA ServedType == ASSUME TypeOK PROVE AnswerOf(row) \in Data
<1>1. /\ row \in [Tasks -> TaskRow]
      /\ \A t \in Tasks : row[t].state = "live" => row[t].list \in Lists
  BY DEF TypeOK, RowOK
<1> QED  BY <1>1, AnswerType

LEMMA SightType ==
  ASSUME ClientInv
  PROVE  Placed \in Views /\ Shown \in Orders /\ Sight \in Sights
<1>1. Placed \in Views  BY DEF ClientInv, Placed, Data, Views
<1>2. data.at \in [Tasks -> Int]  BY DEF ClientInv, Data
<1>3. Shown \in Orders  BY <1>1, <1>2 DEF Shown, Orders
<1> QED  BY <1>1, <1>3 DEF Sight, Sights

LEMMA ReassignedType ==
  ASSUME ClientInv, NEW order, NEW k, NEW l
  PROVE  Reassigned(order, k, l) \in [Tasks -> Int]
<1> DEFINE indexes(t) == {i \in 0 .. Cardinality(Tasks) :
                            \E m \in {k, l} : i < Len(order[m]) /\ order[m][i + 1] = t}
<1>1. data.at \in [Tasks -> Int]  BY DEF ClientInv, Data
<1>2. \A t : indexes(t) \subseteq Int
  <2>1. Cardinality(Tasks) \in Nat  BY ValueAssumption, FS_CardinalityType
  <2> QED  BY <2>1
<1>3. \A t : indexes(t) # {} => (CHOOSE i \in indexes(t) : TRUE) \in indexes(t)
  OBVIOUS
<1>4. Reassigned(order, k, l)
        = [t \in Tasks |-> IF indexes(t) = {} THEN data.at[t]
                           ELSE CHOOSE i \in indexes(t) : TRUE]
  BY DEF Reassigned
<1> HIDE DEF indexes
<1> QED  BY <1>1, <1>2, <1>3, <1>4

-----------------------------------------------------------------------------
(* The user *)

\* a call is made
LEMMA SubmitStep ==
  ASSUME ClientInv, NEW c \in FullCall, CallOK(c), c.op # "fetch", c.state = "queued",
         calls' = Append(calls, c), UNCHANGED req
  PROVE  Queue(calls') /\ Busy'
<1>1. Appendable(c, calls)  BY DEF Appendable, SameFetch
<1>2. calls \in Seq(FullCall)  BY DEF ClientInv, Queue
<1>3. Queue(calls') /\ calls' # <<>> /\ (calls # <<>> => calls'[1] = calls[1])
  BY <1>1, <1>2, Appended DEF ClientInv
<1>4. Busy'  BY <1>3 DEF ClientInv, Busy, InFlight
<1> QED  BY <1>3, <1>4

LEMMA QuietStep ==
  ASSUME ClientInv, UNCHANGED <<calls, req>>
  PROVE  Queue(calls') /\ Busy'
BY DEF ClientInv, Busy, InFlight

LEMMA LiftStep ==
  ASSUME ClientInv, NEW t \in Tasks, Lift(t)
  PROVE  ClientInv'
<1>1. PICK l \in Lists : \E i \in 1 .. Len(Shown[l]) :
        drag' = [task |-> t, list |-> l, index |-> i - 1, seen |-> Sight]
  BY DEF Lift
<1>2. PICK i \in 1 .. Len(Shown[l]) :
        drag' = [task |-> t, list |-> l, index |-> i - 1, seen |-> Sight]
  BY <1>1
<1>3. i - 1 \in Nat  OBVIOUS
<1>4. drag' \in Drag  BY <1>2, <1>3, SightType DEF Drag
<1>5. UNCHANGED <<vars, data, view, calls, missed>>  BY DEF Lift
<1> QED  BY <1>4, <1>5, QuietStep DEF ClientInv, vars

LEMMA DropStep ==
  ASSUME ClientInv, NEW l \in Lists, NEW i \in Nat, Drop(l, i)
  PROVE  ClientInv'
<1>1. /\ drag \in Drag /\ drag' = None /\ UNCHANGED <<vars, missed>>
      /\ ~ (l = drag.list /\ i = drag.index)
  BY DEF Drop, ClientInv
<1>2. drag.task \in Tasks /\ drag.list \in Lists /\ drag.index \in Nat
  BY <1>1 DEF Drag
<1>3. CASE UNCHANGED <<data, view, calls>>
  BY <1>1, <1>3, QuietStep DEF ClientInv, vars
<1>4. CASE ~ UNCHANGED <<data, view, calls>>
  <2> DEFINE moved == Shown[drag.list][drag.index + 1]
             after == Rearranged(Shown, drag.list, drag.index, l, i)
             op == IF l = drag.list THEN "reorder" ELSE "move"
             from == IF Sight = drag.seen THEN Sight ELSE None
             new == NewCall(op)
             c == [new EXCEPT !.task = drag.task, !.list = l, !.index = i,
                              !.from = from, !.sees = after]
  <2>1. /\ view' = [Placed EXCEPT ![moved] = l]
        /\ data' = [data EXCEPT !.at = Reassigned(after, drag.list, l)]
        /\ calls' = Append(calls, c)
    BY <1>4 DEF Drop
  <2>2. after \in Drops  BY <1>2, SightType DEF Drops
  <2>3. from \in Sights \cup {None}  BY SightType
  <2>4. op \in {"reorder", "move"}  OBVIOUS
  <2>5. Reassigned(after, drag.list, l) \in [Tasks -> Int]  BY ReassignedType
  <2> HIDE DEF after, from, op, moved
  <2>11. new \in FullCall /\ new.op = op /\ new.state = "queued"
    BY <2>4, NewCallType
  <2> HIDE DEF new
  <2>6. /\ c \in FullCall /\ c.op = op /\ c.state = "queued" /\ c.task = drag.task
        /\ c.list = l
    BY <1>2, <2>2, <2>3, <2>11 DEF FullCall, Columns
  <2> HIDE DEF c
  <2>7. CallOK(c)  BY <1>2, <2>4, <2>6 DEF CallOK
  <2>8. Queue(calls') /\ Busy'
    BY <1>1, <2>1, <2>4, <2>6, <2>7, SubmitStep DEF vars
  <2>9. view' \in Views
    BY <2>1, SightType DEF Views, Columns
  <2>10. data' \in Data
    BY <2>1, <2>5 DEF ClientInv, Data
  <2> QED  BY <1>1, <2>8, <2>9, <2>10 DEF ClientInv
<1> QED  BY <1>3, <1>4

LEMMA DialogStep ==
  ASSUME ClientInv, NEW x,
         \/ x \in Lists /\ SubmitCreate(x)
         \/ x \in Tasks /\ SubmitDelete(x)
  PROVE  ClientInv'
<1>1. UNCHANGED <<vars, data, view, drag, missed>>
  BY DEF SubmitCreate, SubmitDelete
<1>2. CASE x \in Lists /\ SubmitCreate(x)
  <2> DEFINE c == [NewCall("create") EXCEPT !.list = x]
  <2>1. c \in FullCall /\ c.op = "create" /\ c.state = "queued" /\ c.list = x
    BY <1>2, NewCallType DEF FullCall, Columns
  <2>2. calls' = Append(calls, c)  BY <1>2 DEF SubmitCreate
  <2> HIDE DEF c
  <2>3. CallOK(c)  BY <1>2, <2>1 DEF CallOK
  <2> QED  BY <1>1, <2>1, <2>2, <2>3, SubmitStep DEF ClientInv, vars
<1>3. CASE x \in Tasks /\ SubmitDelete(x)
  <2> DEFINE c == [NewCall("remove") EXCEPT !.task = x]
  <2>1. c \in FullCall /\ c.op = "remove" /\ c.state = "queued" /\ c.task = x
    BY <1>3, NewCallType DEF FullCall
  <2>2. calls' = Append(calls, c)  BY <1>3 DEF SubmitDelete
  <2> HIDE DEF c
  <2>3. CallOK(c)  BY <1>3, <2>1 DEF CallOK
  <2> QED  BY <1>1, <2>1, <2>2, <2>3, SubmitStep DEF ClientInv, vars
<1> QED  BY <1>2, <1>3

LEMMA UserStep == ASSUME ClientInv, User PROVE ClientInv'
<1>1. CASE PutBack
  BY <1>1, QuietStep DEF PutBack, ClientInv, vars
<1>2. ASSUME NEW l \in Lists, NEW i \in 0 .. Cardinality(Tasks), Drop(l, i) PROVE ClientInv'
  <2>1. Cardinality(Tasks) \in Nat  BY ValueAssumption, FS_CardinalityType
  <2>2. i \in Nat  BY <2>1
  <2> QED  BY <1>2, <2>2, DropStep
<1> QED  BY <1>1, <1>2, LiftStep, DialogStep DEF User

-----------------------------------------------------------------------------
(* The oldest call goes on *)

LEMMA HeadStep ==
  ASSUME ClientInv, calls # <<>>, NEW c \in FullCall, CallOK(c), HeadBecomes(c),
         c.op = calls[1].op, c.kept = calls[1].kept
  PROVE  Queue(calls') /\ calls' # <<>> /\ calls'[1] = c
<1>1. calls' = <<c>> \o Tail(calls)  BY DEF HeadBecomes
<1> QED  BY <1>1, HeadGoesOn DEF ClientInv

LEMMA ServesNone ==
  ASSUME ClientInv, calls # <<>>, calls[1].state # "sent" \/ ~ InFlight(Page)
  PROVE  ~ InFlight(Page)
BY DEF ClientInv, Busy

LEMMA SendStep ==
  ASSUME PageInv, SendWrite
  PROVE  ClientInv'
<1> DEFINE old == calls[1]
           from == IF PositionsDense /\ old.from = ServerSight THEN old.from ELSE None
           c == [old EXCEPT !.state = "sent", !.from = from]
<1>1. /\ calls # <<>> /\ Head(calls) = old /\ old \in FullCall /\ CallOK(old)
      /\ old.op # "fetch" /\ ClientInv
  BY SentWrite, HeadType DEF PageInv
<1>2. HeadBecomes(c) /\ UNCHANGED <<data, view, drag, missed>>
  BY <1>1 DEF SendWrite
<1>3. from \in Sights \cup {None}  BY <1>1 DEF FullCall
<1> HIDE DEF from
<1>4. /\ c \in FullCall /\ c.state = "sent" /\ c.op = old.op /\ c.kept = old.kept
      /\ c.task = old.task /\ c.list = old.list
  BY <1>1, <1>3 DEF FullCall
<1> HIDE DEF c
<1>5. CallOK(c)  BY <1>1, <1>4 DEF CallOK
<1>6. Queue(calls') /\ calls' # <<>> /\ calls'[1] = c
  BY <1>1, <1>2, <1>4, <1>5, HeadStep
<1>7. Busy'  BY <1>4, <1>6 DEF Busy
<1> QED  BY <1>1, <1>2, <1>6, <1>7 DEF ClientInv

LEMMA SendInVainStep ==
  ASSUME ClientInv, SendInVain
  PROVE  ClientInv'
<1> DEFINE old == calls[1]
           c == [old EXCEPT !.state = "refused"]
<1>1. /\ calls # <<>> /\ Head(calls) = old /\ old \in FullCall /\ CallOK(old)
      /\ old.state = "queued"
  BY HeadType DEF SendInVain, Waiting
<1>2. HeadBecomes(c) /\ UNCHANGED <<vars, data, view, drag, missed>>
  BY <1>1 DEF SendInVain
<1>3. /\ c \in FullCall /\ c.state = "refused" /\ c.op = old.op /\ c.kept = old.kept
      /\ c.task = old.task /\ c.list = old.list
  BY <1>1 DEF FullCall
<1> HIDE DEF c
<1>4. CallOK(c)  BY <1>1, <1>3 DEF CallOK
<1>5. Queue(calls') /\ calls' # <<>> /\ calls'[1] = c
  BY <1>1, <1>2, <1>3, <1>4, HeadStep
<1>6. ~ InFlight(Page)  BY <1>1, ServesNone
<1>7. Busy'  BY <1>2, <1>6 DEF Busy, InFlight, vars
<1> QED  BY <1>2, <1>5, <1>7 DEF ClientInv

LEMMA FetchedStep ==
  ASSUME PageInv, ServeFetch \/ FailFetch
  PROVE  ClientInv'
<1> DEFINE old == calls[1]
<1>0. ClientInv  BY DEF PageInv
<1>1. /\ calls # <<>> /\ Head(calls) = old /\ old \in FullCall /\ CallOK(old)
      /\ old.state = "queued" /\ old.op = "fetch"
  BY <1>0, HeadType DEF ServeFetch, FailFetch, Waiting
<1>2. /\ UNCHANGED <<req, data, view, drag>>
      /\ missed' \subseteq {"page", "others", "failure"}
  BY <1>0 DEF ClientInv, ServeFetch, FailFetch, vars
<1>3. \E c \in FullCall :
        /\ HeadBecomes(c) /\ c.state = "done" /\ c.op = old.op /\ c.kept = old.kept
        /\ c.task = old.task /\ c.list = old.list
  <2>1. CASE ServeFetch
    <3> DEFINE got == AnswerOf(row)
               c == [old EXCEPT !.state = "done", !.answer = got]
    <3>1. got \in Data  BY ServedType DEF PageInv
    <3>2. HeadBecomes(c)  BY <1>1, <2>1 DEF ServeFetch
    <3> HIDE DEF got
    <3>3. /\ c \in FullCall /\ c.state = "done" /\ c.op = old.op /\ c.kept = old.kept
          /\ c.task = old.task /\ c.list = old.list
      BY <1>1, <3>1 DEF FullCall
    <3> HIDE DEF c
    <3> QED  BY <3>2, <3>3
  <2>2. CASE FailFetch
    <3> DEFINE c == [old EXCEPT !.state = "done"]
    <3>1. HeadBecomes(c)  BY <1>1, <2>2 DEF FailFetch
    <3>2. /\ c \in FullCall /\ c.state = "done" /\ c.op = old.op /\ c.kept = old.kept
          /\ c.task = old.task /\ c.list = old.list
      BY <1>1 DEF FullCall
    <3> HIDE DEF c
    <3> QED  BY <3>1, <3>2
  <2> QED  BY <2>1, <2>2
<1>4. PICK c \in FullCall :
        /\ HeadBecomes(c) /\ c.state = "done" /\ c.op = old.op /\ c.kept = old.kept
        /\ c.task = old.task /\ c.list = old.list
  BY <1>3
<1>5. CallOK(c)  BY <1>1, <1>4 DEF CallOK
<1>6. Queue(calls')
  BY <1>0, <1>1, <1>4, <1>5, HeadStep
<1>7. ~ InFlight(Page)  BY <1>0, <1>1, ServesNone
<1>8. Busy'  BY <1>2, <1>7 DEF Busy, InFlight
<1> QED  BY <1>0, <1>2, <1>6, <1>8 DEF ClientInv

LEMMA AdvanceInFlight == ASSUME NEW r, Advance(r) PROVE InFlight(r)
BY DEF Advance, CreateInsert, UpdateWrite, ShiftOthers, SetPosition, RemoveCommit, MoveCommit,
       WriteLog, InFlight

LEMMA ServeWriteStep ==
  ASSUME ClientInv, ServeWrite
  PROVE  ClientInv'
<1>1. /\ Advance(Page) /\ UNCHANGED <<data, view, drag, calls>>
      /\ missed' \subseteq {"page", "others", "failure"}
  BY DEF ClientInv, ServeWrite, ToldOf, client
<1>2. Busy'  BY <1>1, AdvanceInFlight DEF ClientInv, Busy
<1> QED  BY <1>1, <1>2 DEF ClientInv

LEMMA FailWriteStep ==
  ASSUME PageInv, FailWrite
  PROVE  ClientInv'
<1> DEFINE old == calls[1]
           c == [old EXCEPT !.state = "refused"]
<1>1. calls # <<>> /\ Fail(Page) /\ ClientInv
  BY DEF PageInv, ClientInv, FailWrite, Fail, Busy
<1>2. Head(calls) = old /\ old \in FullCall /\ CallOK(old)
  BY <1>1, HeadType
<1>3. HeadBecomes(c) /\ UNCHANGED <<data, view, drag, missed>>
  BY <1>2 DEF FailWrite
<1>4. /\ c \in FullCall /\ c.state = "refused" /\ c.op = old.op /\ c.kept = old.kept
      /\ c.task = old.task /\ c.list = old.list
  BY <1>2 DEF FullCall
<1> HIDE DEF c
<1>5. CallOK(c)  BY <1>2, <1>4 DEF CallOK
<1>6. Queue(calls')  BY <1>1, <1>2, <1>3, <1>4, <1>5, HeadStep
<1>7. ~ InFlight(Page)'
  <2>1. req'[Page] = Idle
    BY <1>1, PageAssumption DEF PageInv, TypeOK, Fail
  <2> QED  BY <2>1, IdleType DEF InFlight
<1> QED  BY <1>1, <1>3, <1>6, <1>7 DEF ClientInv, Busy

\* what another user does is no step of the handler of the page
LEMMA OthersStep ==
  ASSUME PageInv, NEW r \in Requests \ {Page}, Others(r)
  PROVE  ClientInv'
<1>1. UNCHANGED <<data, view, drag, calls>> /\ missed' \subseteq {"page", "others", "failure"}
  BY DEF PageInv, ClientInv, Others, ToldOf, client
<1>2. req'[Page] = req[Page]
  <2>1. req \in [Requests -> Request]  BY DEF PageInv, TypeOK
  <2>2. CASE Accept(r)
    BY <2>1, <2>2, PageAssumption
       DEF Accept, BeginCreate, BeginUpdate, BeginUpdatePosition, BeginRemove, BeginMove, Begin
  <2>3. CASE Advance(r)
    BY <2>1, <2>3, PageAssumption
       DEF Advance, CreateInsert, UpdateWrite, ShiftOthers, SetPosition, RemoveCommit,
           MoveCommit, WriteLog, ThenLog
  <2> QED  BY <2>2, <2>3 DEF Others
<1> QED  BY <1>1, <1>2 DEF PageInv, ClientInv, Busy, InFlight

-----------------------------------------------------------------------------
(* The oldest call is answered, or breaks *)

LEMMA RestStep ==
  ASSUME ClientInv, calls # <<>>, Rest(calls'), UNCHANGED req,
         Answered(calls[1]) \/ calls[1].state = "queued"
  PROVE  Queue(calls') /\ Busy'
<1>1. ~ InFlight(Page)  BY ServesNone DEF Answered
<1> QED  BY <1>1, RestIsQueue DEF Busy, InFlight

LEMMA AnswerWriteStep ==
  ASSUME ClientInv, AnswerMove \/ AnswerDialog
  PROVE  ClientInv'
<1>1. /\ calls # <<>> /\ Head(calls) = calls[1] /\ Rest(Tail(calls)) /\ Answered(calls[1])
  BY HeadType DEF AnswerMove, AnswerDialog
<1>2. Rest(calls')
  BY <1>1, RefetchedRest DEF AnswerMove, AnswerDialog, AfterMove, AfterDialog
<1>3. /\ UNCHANGED <<req, data, drag>> /\ view' \in Views \cup {None}
      /\ missed' \subseteq {"page", "others", "failure"}
  BY DEF ClientInv, AnswerMove, AnswerDialog, vars
<1> QED  BY <1>1, <1>2, <1>3, RestStep DEF ClientInv

LEMMA AnswerFetchStep ==
  ASSUME ClientInv, AnswerFetch
  PROVE  ClientInv'
<1>1. /\ calls # <<>> /\ Head(calls) = calls[1] /\ Rest(Tail(calls)) /\ Answered(calls[1])
      /\ calls[1] \in FullCall /\ calls' = Tail(calls)
  BY HeadType DEF AnswerFetch
<1>2. calls[1].answer \in Data  BY <1>1 DEF FullCall
<1>3. /\ UNCHANGED <<req, drag, missed>> /\ view' \in Views \cup {None} /\ data' \in Data
  BY <1>1, <1>2 DEF ClientInv, AnswerFetch, vars
<1> QED  BY <1>1, <1>3, RestStep DEF ClientInv

LEMMA BreakStep ==
  ASSUME ClientInv, Break
  PROVE  ClientInv'
<1> DEFINE c == calls[1]
           first == Fetch
           again == [first EXCEPT !.retried = TRUE]
<1>1. /\ calls # <<>> /\ Head(calls) = c /\ Rest(Tail(calls))
      /\ c.state = "queued" \/ Answered(c)
  BY HeadType DEF Break
<1>2. Rest(calls')
  <2>1. CASE c.op = "fetch" /\ c.kept /\ calls' = Append(Tail(calls), again)
    <3>1. first \in FullCall /\ first.op = "fetch" /\ first.state = "queued"
      BY FetchType
    <3> HIDE DEF first
    <3>2. again \in FullCall /\ again.op = "fetch" /\ again.state = "queued"
      BY <3>1 DEF FullCall
    <3>3. \A i \in DOMAIN Tail(calls) : ~ SameFetch(Tail(calls)[i], again)
      <4> SUFFICES ASSUME NEW i \in DOMAIN Tail(calls), SameFetch(Tail(calls)[i], again)
                   PROVE  FALSE
        OBVIOUS
      <4>1. i + 1 \in DOMAIN calls /\ i + 1 > 1 /\ Tail(calls)[i] = calls[i + 1]
        BY <1>1, TailRest DEF ClientInv
      <4>2. SameFetch(calls[i + 1], c)
        BY <2>1, <4>1 DEF SameFetch
      <4>3. 1 \in DOMAIN calls
        <5>1. calls \in Seq(FullCall) /\ Len(calls) # 0  BY <1>1 DEF ClientInv, Queue
        <5> QED  BY <5>1
      <4>4. i + 1 = 1  BY <4>1, <4>2, <4>3 DEF ClientInv, Queue, OneKept
      <4> QED  BY <4>1, <4>4
    <3> HIDE DEF again
    <3>4. Appendable(again, Tail(calls))
      BY <3>2, <3>3 DEF Appendable, CallOK
    <3>5. Tail(calls) \in Seq(FullCall)  BY <1>1 DEF Rest
    <3> QED  BY <1>1, <2>1, <3>4, <3>5, Appended
  <2>2. CASE calls' = Tail(calls)  BY <1>1, <2>2
  <2> QED  BY <1>1, <2>1, <2>2 DEF Break
<1>3. UNCHANGED <<req, data, view, drag>> /\ missed' \subseteq {"page", "others", "failure"}
  BY DEF ClientInv, Break
<1> QED  BY <1>1, <1>2, <1>3, RestStep DEF ClientInv

-----------------------------------------------------------------------------
(* The invariant holds *)

LEMMA PageInvStep ==
  ASSUME PageInv, [PageNext]_pageVars
  PROVE  PageInv'
<1>1. CASE PageNext
  <2>1. TypeOK'  BY <1>1, PageStep
  <2>2. ClientInv'
    <3>1. CASE User  BY <3>1, UserStep DEF PageInv
    <3>2. CASE Serve
      BY <3>2, SendStep, SendInVainStep, FetchedStep, ServeWriteStep DEF PageInv, Serve
    <3>3. CASE Answer
      BY <3>3, AnswerWriteStep, AnswerFetchStep DEF PageInv, Answer
    <3> QED
      BY <1>1, <3>1, <3>2, <3>3, FetchedStep, FailWriteStep, BreakStep, OthersStep
         DEF PageInv, PageNext
  <2> QED  BY <2>1, <2>2 DEF PageInv
<1>2. CASE UNCHANGED pageVars
  <2>1. UNCHANGED vars /\ UNCHANGED <<data, view, drag, calls, missed>>
    BY <1>2 DEF pageVars, client
  <2>2. TypeOK'  BY <2>1, NextType DEF PageInv
  <2>3. ClientInv'  BY <2>1, QuietStep DEF PageInv, ClientInv, vars
  <2> QED  BY <2>2, <2>3 DEF PageInv
<1> QED  BY <1>1, <1>2

LEMMA PageInvInit == PageInit => PageInv
<1> SUFFICES ASSUME PageInit PROVE PageInv  OBVIOUS
<1>1. /\ row = StartRow /\ audit = [t \in Tasks |-> Entry(None)]
      /\ req = [r \in Requests |-> Idle] /\ failures = 0
      /\ data = AnswerOf(row) /\ view = None /\ drag = None /\ calls = <<>> /\ missed = {}
  BY DEF PageInit
<1>2. TypeOK
  <2>1. row \in [Tasks -> TaskRow] /\ \A t \in Tasks : RowOK(t)
    BY <1>1, StartAssumption DEF RowOK
  <2>2. audit \in [Tasks -> LogRow]  BY <1>1 DEF Entry, LogRow
  <2>3. req \in [Requests -> Request] /\ \A r \in Requests : req[r].pc = "idle"
    BY <1>1, IdleType
  <2>4. \A r \in Requests : RequestOK(req[r])
    BY <1>1, <2>3 DEF RequestOK, Idle, NoRow
  <2> QED
    BY <1>1, <2>1, <2>2, <2>3, <2>4
       DEF TypeOK
<1>3. data \in Data  BY <1>1, <1>2, ServedType
<1>4. Queue(calls)
  <2>1. calls \in Seq(FullCall) /\ DOMAIN calls = {}  BY <1>1
  <2> QED  BY <2>1 DEF Queue, OneKept
<1>5. Busy
  BY <1>1, IdleType, PageAssumption DEF Busy, InFlight
<1> QED  BY <1>1, <1>2, <1>3, <1>4, <1>5 DEF PageInv, ClientInv

LEMMA PageInvType == PageInv => PageTypeOK
<1> SUFFICES ASSUME PageInv PROVE PageTypeOK  OBVIOUS
<1>1. /\ TypeOK /\ data \in [ok: BOOLEAN, in: [Tasks -> Columns], at: [Tasks -> Int]]
      /\ view = None \/ view \in [Tasks -> Columns]
      /\ missed \subseteq {"page", "others", "failure"}
  BY DEF PageInv, ClientInv, Data, Views
<1>2. ASSUME NEW i \in DOMAIN calls
      PROVE  /\ [f \in DOMAIN Fetch \ {"answer", "from", "sees"} |-> calls[i][f]] \in Call
             /\ i > 1 => calls[i].state = "queued"
             /\ \A j \in DOMAIN calls :
                  calls[i].op = "fetch" /\ calls[j].op = "fetch"
                  /\ calls[i].kept /\ calls[j].kept => i = j
  <2>1. calls[i] \in FullCall  BY DEF PageInv, ClientInv, Queue
  <2>2. [f \in DOMAIN Fetch \ {"answer", "from", "sees"} |-> calls[i][f]] \in Call
    BY <2>1, CallType
  <2> QED  BY <2>2 DEF PageInv, ClientInv, Queue, OneKept, SameFetch
<1>3. InFlight(Page) => calls # <<>> /\ Head(calls).state = "sent"
  BY HeadType DEF PageInv, ClientInv, Busy
<1> QED  BY <1>1, <1>2, <1>3 DEF PageTypeOK

(***************************************************************************)
(* Rows, calls and answers of the board page stay well formed, only the    *)
(* oldest call has been sent, the handler of the page works for it, and at *)
(* most one of the fetches that are due will be shown.                     *)
(***************************************************************************)
THEOREM PageTypeCorrect == PageSpec => []PageTypeOK
<1>1. PageInit => PageInv  BY PageInvInit
<1>2. PageInv /\ [PageNext]_pageVars => PageInv'  BY PageInvStep
<1>3. PageInv => PageTypeOK  BY PageInvType
<1> HIDE DEF PageInv
<1> QED  BY <1>1, <1>2, <1>3, PTL DEF PageSpec

=============================================================================
