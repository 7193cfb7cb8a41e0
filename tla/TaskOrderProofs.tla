--------------------------- MODULE TaskOrderProofs ---------------------------
(***************************************************************************)
(* The positions of the tasks of a list are 0..n-1, and TaskService keeps  *)
(* lists in the order TaskOrder promises: proofs, for every set of tasks,  *)
(* lists and requests.                                                     *)
(***************************************************************************)
EXTENDS TaskBoardOrder, TaskBoardProofs, SequencesExt, SequenceTheorems

-----------------------------------------------------------------------------
(* Sequences *)

LEMMA RemoveAtPlaces ==
  ASSUME NEW S, NEW n \in Nat, NEW s \in [1 .. n -> S], NEW i \in 1 .. n
  PROVE  RemoveAt(s, i) = [j \in 1 .. n - 1 |-> IF j < i THEN s[j] ELSE s[j + 1]]
<1> DEFINE a == SubSeq(s, 1, i - 1)
           b == SubSeq(s, i + 1, n)
           new == [j \in 1 .. n - 1 |-> IF j < i THEN s[j] ELSE s[j + 1]]
<1>1. s \in Seq(S) /\ Len(s) = n
  BY SeqDef
<1>2. /\ a \in Seq(S) /\ Len(a) = i - 1
      /\ \A j \in 1 .. i - 1 : a[j] = s[j]
  BY SubSeqProperties
<1>3. /\ b \in Seq(S) /\ Len(b) = n - i
      /\ \A j \in 1 .. n - i : b[j] = s[i + j]
  BY SubSeqProperties
<1>4. new \in Seq(S) /\ Len(new) = n - 1
  BY SeqDef
<1>5. RemoveAt(s, i) = a \o b
  BY <1>1 DEF RemoveAt
<1> HIDE DEF a, b
<1>6. /\ a \o b \in Seq(S) /\ Len(a \o b) = n - 1
      /\ \A j \in 1 .. n - 1 : (a \o b)[j] = IF j < i THEN a[j] ELSE b[j - (i - 1)]
  <2>1. /\ a \o b \in Seq(S) /\ Len(a \o b) = Len(a) + Len(b)
        /\ \A j \in 1 .. Len(a) + Len(b) :
             (a \o b)[j] = IF j <= Len(a) THEN a[j] ELSE b[j - Len(a)]
    BY <1>2, <1>3, ConcatProperties
  <2>2. Len(a) + Len(b) = n - 1 /\ \A j \in 1 .. n - 1 : j <= i - 1 <=> j < i
    BY <1>2, <1>3
  <2> QED  BY <1>2, <2>1, <2>2
<1>7. \A j \in 1 .. n - 1 : (a \o b)[j] = new[j]
  BY <1>2, <1>3, <1>6
<1> QED
  BY <1>4, <1>5, <1>6, <1>7, SeqEqual

\* new is s, of length n, with e put in as the i-th element
Inserted(new, s, n, i, e) ==
  \A j \in 1 .. n + 1 :
    new[j] = IF j < i THEN s[j] ELSE IF j = i THEN e ELSE s[j - 1]

LEMMA InsertAtPlaces ==
  ASSUME NEW S, NEW n \in Nat, NEW s \in [1 .. n -> S], NEW i \in 1 .. n + 1, NEW e \in S
  PROVE  /\ InsertAt(s, i, e) \in [1 .. n + 1 -> S]
         /\ Inserted(InsertAt(s, i, e), s, n, i, e)
<1> DEFINE a == SubSeq(s, 1, i - 1)
           b == SubSeq(s, i, n)
           new == [j \in 1 .. n + 1 |-> IF j < i THEN s[j] ELSE IF j = i THEN e ELSE s[j - 1]]
<1>1. s \in Seq(S) /\ Len(s) = n
  BY SeqDef
<1>2. /\ a \in Seq(S) /\ Len(a) = i - 1
      /\ \A j \in 1 .. i - 1 : a[j] = s[j]
  BY SubSeqProperties
<1>3. /\ b \in Seq(S) /\ Len(b) = n - i + 1
      /\ \A j \in 1 .. n - i + 1 : b[j] = s[i + j - 1]
  BY SubSeqProperties
<1>4. new \in Seq(S) /\ Len(new) = n + 1
  BY SeqDef
<1>5. InsertAt(s, i, e) = a \o <<e>> \o b
  BY <1>1 DEF InsertAt
<1>6. <<e>> \in Seq(S) /\ Len(<<e>>) = 1 /\ <<e>>[1] = e
  OBVIOUS
<1> HIDE DEF a, b
<1>7. /\ a \o <<e>> \in Seq(S) /\ Len(a \o <<e>>) = i
      /\ \A j \in 1 .. i : (a \o <<e>>)[j] = IF j < i THEN s[j] ELSE e
  <2>1. /\ a \o <<e>> \in Seq(S) /\ Len(a \o <<e>>) = i
        /\ \A j \in 1 .. i : (a \o <<e>>)[j] = IF j <= i - 1 THEN a[j] ELSE <<e>>[j - (i - 1)]
    BY <1>2, <1>6, ConcatProperties
  <2> QED  BY <1>2, <1>6, <2>1
<1> DEFINE c == a \o <<e>>
<1>c. c \in Seq(S) /\ Len(c) = i /\ \A j \in 1 .. i : c[j] = IF j < i THEN s[j] ELSE e
  BY <1>7
<1> HIDE DEF c
<1>8. /\ c \o b \in Seq(S) /\ Len(c \o b) = n + 1
      /\ \A j \in 1 .. n + 1 : (c \o b)[j] = IF j <= i THEN c[j] ELSE b[j - i]
  <2>1. /\ c \o b \in Seq(S) /\ Len(c \o b) = Len(c) + Len(b)
        /\ \A j \in 1 .. Len(c) + Len(b) :
             (c \o b)[j] = IF j <= Len(c) THEN c[j] ELSE b[j - Len(c)]
    BY <1>3, <1>c, ConcatProperties
  <2>2. Len(c) = i /\ Len(c) + Len(b) = n + 1
    BY <1>3, <1>c
  <2> QED  BY <2>1, <2>2
<1>9. ASSUME NEW j \in 1 .. n + 1
      PROVE  (c \o b)[j] = new[j]
  <2>1. CASE j <= i
    <3>1. (c \o b)[j] = c[j] /\ j \in 1 .. i  BY <1>8, <2>1
    <3> QED  BY <1>c, <2>1, <3>1
  <2>2. CASE j > i
    <3>1. (c \o b)[j] = b[j - i] /\ j - i \in 1 .. n - i + 1  BY <1>8, <2>2
    <3>2. b[j - i] = s[j - 1]  BY <1>3, <3>1
    <3> QED  BY <2>2, <3>1, <3>2
  <2>3. j <= i \/ j > i  OBVIOUS
  <2> HIDE DEF new
  <2> QED  BY <2>1, <2>2, <2>3
<1>10. c \o b = new
  BY <1>4, <1>8, <1>9, SeqEqual
<1>11. new \in [1 .. n + 1 -> S] /\ Inserted(new, s, n, i, e)
  BY DEF Inserted
<1>12. InsertAt(s, i, e) = new
  BY <1>5, <1>10 DEF c
<1> QED
  BY <1>11, <1>12

-----------------------------------------------------------------------------
(***************************************************************************)
(* The sequence s lists the members of L by their places 0, 1, ... in at.  *)
(***************************************************************************)
Listed(s, L, at) ==
  /\ s \in [1 .. Cardinality(L) -> L]
  /\ \A i \in 1 .. Cardinality(L) : at[s[i]] = i - 1
  /\ \A t \in L : at[t] \in 0 .. Cardinality(L) - 1 /\ s[at[t] + 1] = t

LEMMA ListedIf ==
  ASSUME NEW m \in Nat, NEW L, Cardinality(L) = m, NEW at, NEW s \in [1 .. m -> L],
         \A i \in 1 .. m : at[s[i]] = i - 1,
         \A t \in L : at[t] \in 0 .. m - 1 /\ s[at[t] + 1] = t
  PROVE  Listed(s, L, at)
BY DEF Listed

LEMMA ListedOnce ==
  ASSUME NEW L, IsFiniteSet(L), NEW at, NEW s1, NEW s2, Listed(s1, L, at), Listed(s2, L, at)
  PROVE  s1 = s2
<1> DEFINE n == Cardinality(L)
<1>1. n \in Nat
  BY FS_CardinalityType
<1>2. ASSUME NEW i \in 1 .. n
      PROVE  s1[i] = s2[i]
  <2>1. s1[i] \in L /\ at[s1[i]] = i - 1  BY DEF Listed
  <2>2. s2[at[s1[i]] + 1] = s1[i]  BY <2>1 DEF Listed
  <2> QED  BY <1>1, <2>1, <2>2
<1>3. s1 \in [1 .. n -> L] /\ s2 \in [1 .. n -> L]
  BY DEF Listed
<1>4. s1 \in Seq(L) /\ s2 \in Seq(L) /\ Len(s1) = n /\ Len(s2) = n
  BY <1>1, <1>3, SeqDef
<1> HIDE DEF n
<1> QED
  BY <1>2, <1>4, SeqEqual

\* with t gone from L the others close the gap
GapClosed(L, at, t, new) ==
  \A u \in L \ {t} : new[u] = IF at[u] > at[t] THEN at[u] - 1 ELSE at[u]

\* the members of L make room at place p
GapOpened(L, at, p, new) ==
  \A u \in L : new[u] = IF at[u] >= p THEN at[u] + 1 ELSE at[u]

(***************************************************************************)
(* Taking out t: the others close the gap.                                 *)
(***************************************************************************)
LEMMA ListedRemove ==
  ASSUME NEW L, IsFiniteSet(L), NEW at, NEW s, Listed(s, L, at), NEW t \in L, NEW new,
         GapClosed(L, at, t, new)
  PROVE  \E i \in 1 .. Len(s) : s[i] = t /\ Listed(RemoveAt(s, i), L \ {t}, new)
<1> DEFINE n == Cardinality(L)
           i == at[t] + 1
           r == RemoveAt(s, i)
<1>0. \A u \in L \ {t} : new[u] = IF at[u] > at[t] THEN at[u] - 1 ELSE at[u]
  BY DEF GapClosed
<1>1. n \in Nat /\ Cardinality(L \ {t}) = n - 1 /\ n - 1 \in Nat
  <2>1. n \in Nat /\ n # 0
    BY FS_CardinalityType, FS_EmptySet
  <2>2. Cardinality(L \ {t}) = n - 1
    BY FS_RemoveElement
  <2> QED  BY <2>1, <2>2
<1>2. /\ s \in [1 .. n -> L]
      /\ \A j \in 1 .. n : at[s[j]] = j - 1
      /\ \A u \in L : at[u] \in 0 .. n - 1 /\ s[at[u] + 1] = u
  BY DEF Listed
<1>3. i \in 1 .. n /\ s[i] = t
  BY <1>1, <1>2
<1>4. r = [j \in 1 .. n - 1 |-> IF j < i THEN s[j] ELSE s[j + 1]]
  BY <1>1, <1>2, <1>3, RemoveAtPlaces
<1>5. Len(s) = n
  BY <1>1, <1>2
<1>6. at[t] = i - 1
  BY <1>1, <1>2, <1>3
<1> HIDE DEF n, i, r
<1>7. ASSUME NEW j \in 1 .. n - 1
      PROVE  r[j] \in L \ {t} /\ new[r[j]] = j - 1
  <2>1. CASE j < i
    <3>1. r[j] = s[j] /\ at[s[j]] = j - 1 /\ s[j] \in L
      BY <1>1, <1>2, <1>4, <2>1
    <3> QED  BY <1>0, <1>1, <1>3, <1>6, <2>1, <3>1
  <2>2. CASE ~ (j < i)
    <3>1. r[j] = s[j + 1] /\ at[s[j + 1]] = j /\ s[j + 1] \in L
      BY <1>1, <1>2, <1>4, <2>2
    <3> QED  BY <1>0, <1>1, <1>3, <1>6, <2>2, <3>1
  <2> QED  BY <2>1, <2>2
<1>8. ASSUME NEW u \in L \ {t}
      PROVE  new[u] \in 0 .. n - 2 /\ r[new[u] + 1] = u
  <2>1. at[u] \in 0 .. n - 1 /\ s[at[u] + 1] = u /\ at[u] # i - 1
    BY <1>1, <1>2, <1>3
  <2>2. CASE at[u] > i - 1
    <3>1. new[u] = at[u] - 1  BY <1>0, <1>6, <2>2
    <3> QED  BY <1>1, <1>3, <1>4, <2>1, <2>2, <3>1
  <2>3. CASE ~ (at[u] > i - 1)
    <3>1. new[u] = at[u]  BY <1>0, <1>6, <2>3
    <3> QED  BY <1>1, <1>3, <1>4, <2>1, <2>3, <3>1
  <2> QED  BY <2>2, <2>3
<1>9. r \in [1 .. n - 1 -> L \ {t}]
  BY <1>4, <1>7
<1>10. Listed(r, L \ {t}, new)
  <2>1. n - 1 - 1 = n - 2  BY <1>1
  <2> QED  BY <1>1, <1>7, <1>8, <1>9, <2>1, ListedIf
<1> QED
  BY <1>3, <1>5, <1>10 DEF r

(***************************************************************************)
(* Putting in t at place p: the others from there on make room.            *)
(***************************************************************************)
LEMMA ListedInsert ==
  ASSUME NEW L, IsFiniteSet(L), NEW at, NEW s, Listed(s, L, at), NEW t, t \notin L,
         NEW p \in 0 .. Cardinality(L), NEW new, new[t] = p,
         GapOpened(L, at, p, new)
  PROVE  /\ Listed(InsertAt(s, p + 1, t), L \cup {t}, new)
         /\ p + 1 \in 1 .. Len(s) + 1
<1> DEFINE n == Cardinality(L)
           i == p + 1
           r == InsertAt(s, i, t)
<1>0. \A u \in L : new[u] = IF at[u] >= p THEN at[u] + 1 ELSE at[u]
  BY DEF GapOpened
<1>1. n \in Nat /\ Cardinality(L \cup {t}) = n + 1
  <2>1. n \in Nat
    BY FS_CardinalityType
  <2> QED  BY <2>1, FS_AddElement
<1>2. /\ s \in [1 .. n -> L]
      /\ \A j \in 1 .. n : at[s[j]] = j - 1
      /\ \A u \in L : at[u] \in 0 .. n - 1 /\ s[at[u] + 1] = u
  BY DEF Listed
<1>3. i \in 1 .. n + 1 /\ i = p + 1 /\ p \in Int
  BY <1>1
<1>4. /\ r \in [1 .. n + 1 -> L \cup {t}]
      /\ \A j \in 1 .. n + 1 :
           r[j] = IF j < i THEN s[j] ELSE IF j = i THEN t ELSE s[j - 1]
  <2> DEFINE S == L \cup {t}
  <2>1. s \in [1 .. n -> S] /\ t \in S /\ i \in 1 .. n + 1
    BY <1>2, <1>3
  <2> HIDE DEF S, n, i
  <2>2. n \in Nat  BY <1>1
  <2> HIDE DEF r
  <2>3. InsertAt(s, i, t) \in [1 .. n + 1 -> S] /\ Inserted(InsertAt(s, i, t), s, n, i, t)
    BY <2>1, <2>2, InsertAtPlaces
  <2> QED  BY <2>3 DEF S, r, Inserted
<1>5. Len(s) = n
  BY <1>1, <1>2
<1> HIDE DEF n, i, r
<1>7. ASSUME NEW j \in 1 .. n + 1
      PROVE  r[j] \in L \cup {t} /\ new[r[j]] = j - 1
  <2>1. CASE j < i
    <3>0. j \in 1 .. n  BY <1>1, <1>3, <2>1
    <3>1. r[j] = s[j] /\ at[s[j]] = j - 1 /\ s[j] \in L
      BY <1>2, <1>4, <2>1, <3>0
    <3> QED  BY <1>0, <1>1, <1>3, <2>1, <3>1
  <2>2. CASE j = i
    BY <1>3, <1>4, <2>2
  <2>3. CASE j > i
    <3>1. r[j] = s[j - 1] /\ at[s[j - 1]] = j - 2 /\ s[j - 1] \in L
      BY <1>1, <1>2, <1>3, <1>4, <2>3
    <3> QED  BY <1>0, <1>1, <1>3, <2>3, <3>1
  <2> QED  BY <1>1, <1>3, <2>1, <2>2, <2>3
<1>8. ASSUME NEW u \in L
      PROVE  new[u] \in 0 .. n /\ r[new[u] + 1] = u
  <2>1. at[u] \in 0 .. n - 1 /\ s[at[u] + 1] = u
    BY <1>1, <1>2
  <2>2. CASE at[u] >= p
    <3>1. new[u] = at[u] + 1  BY <1>0, <2>2
    <3> QED  BY <1>1, <1>3, <1>4, <2>1, <2>2, <3>1
  <2>3. CASE ~ (at[u] >= p)
    <3>1. new[u] = at[u]  BY <1>0, <2>3
    <3> QED  BY <1>1, <1>3, <1>4, <2>1, <2>3, <3>1
  <2> QED  BY <2>2, <2>3
<1>9. new[t] \in 0 .. n /\ r[new[t] + 1] = t
  BY <1>1, <1>3, <1>4
<1>10. r \in [1 .. n + 1 -> L \cup {t}]
  BY <1>4, <1>7
<1>11. Listed(r, L \cup {t}, new)
  <2> DEFINE m == n + 1
             M == L \cup {t}
  <2>1. /\ m \in Nat /\ Cardinality(M) = m /\ r \in [1 .. m -> M]
        /\ \A j \in 1 .. m : new[r[j]] = j - 1
        /\ \A u \in M : new[u] \in 0 .. m - 1 /\ r[new[u] + 1] = u
    BY <1>1, <1>7, <1>8, <1>9, <1>10
  <2> HIDE DEF m, M
  <2>2. Listed(r, M, new)
    BY <2>1, ListedIf
  <2> QED  BY <2>2 DEF M
<1> QED
  BY <1>3, <1>5, <1>11 DEF i, r

(***************************************************************************)
(* The same at the end of the list.                                        *)
(***************************************************************************)
LEMMA ListedAppend ==
  ASSUME NEW L, IsFiniteSet(L), NEW at, NEW s, Listed(s, L, at), NEW t, t \notin L,
         NEW new, new[t] = Cardinality(L), \A u \in L : new[u] = at[u]
  PROVE  Listed(Append(s, t), L \cup {t}, new)
<1> DEFINE n == Cardinality(L)
           r == Append(s, t)
<1>1. n \in Nat /\ Cardinality(L \cup {t}) = n + 1
  <2>1. n \in Nat
    BY FS_CardinalityType
  <2> QED  BY <2>1, FS_AddElement
<1>2. /\ s \in [1 .. n -> L]
      /\ \A j \in 1 .. n : at[s[j]] = j - 1
      /\ \A u \in L : at[u] \in 0 .. n - 1 /\ s[at[u] + 1] = u
  BY DEF Listed
<1>3. s \in Seq(L \cup {t}) /\ Len(s) = n
  BY <1>1, <1>2, SeqDef
<1>4. /\ r \in Seq(L \cup {t}) /\ Len(r) = n + 1
      /\ \A j \in 1 .. n : r[j] = s[j]
      /\ r[n + 1] = t
  BY <1>3, AppendProperties
<1>5. r \in [1 .. n + 1 -> L \cup {t}]
  BY <1>4, LenProperties
<1> HIDE DEF r, n
<1>6. ASSUME NEW j \in 1 .. n + 1
      PROVE  new[r[j]] = j - 1
  <2>1. CASE j \in 1 .. n
    BY <1>2, <1>4, <2>1
  <2>2. CASE j = n + 1
    BY <1>1, <1>4, <2>2 DEF n
  <2> QED  BY <1>1, <2>1, <2>2
<1>7. ASSUME NEW u \in L \cup {t}
      PROVE  new[u] \in 0 .. n + 1 - 1 /\ r[new[u] + 1] = u
  <2>0. n + 1 - 1 = n  BY <1>1
  <2>1. CASE u \in L
    <3>1. at[u] \in 0 .. n - 1 /\ s[at[u] + 1] = u /\ new[u] = at[u]  BY <1>2, <2>1
    <3>2. at[u] + 1 \in 1 .. n /\ at[u] \in 0 .. n  BY <1>1, <3>1
    <3> QED  BY <1>4, <2>0, <3>1, <3>2
  <2>2. CASE u = t
    <3>1. new[t] = n /\ n \in 0 .. n  BY <1>1 DEF n
    <3> QED  BY <1>4, <2>0, <2>2, <3>1
  <2> QED  BY <2>1, <2>2
<1> DEFINE m == n + 1
           M == L \cup {t}
<1>8. /\ m \in Nat /\ Cardinality(M) = m /\ r \in [1 .. m -> M]
      /\ \A j \in 1 .. m : new[r[j]] = j - 1
      /\ \A u \in M : new[u] \in 0 .. m - 1 /\ r[new[u] + 1] = u
  BY <1>1, <1>5, <1>6, <1>7
<1> HIDE DEF m, M
<1>9. Listed(r, M, new)
  BY <1>8, ListedIf
<1> QED
  BY <1>9 DEF r, M

-----------------------------------------------------------------------------
(* The inductive invariant *)

(***************************************************************************)
(* The instances the order of a list is about: no list is mapped to a      *)
(* status and the body of an update names no list, so that a task changes  *)
(* its list only by a move; two requests in flight never touch the same    *)
(* list; clients send an index of the list they see; and no handler ends   *)
(* between its two writes.                                                 *)
(***************************************************************************)
Orderly ==
  /\ \A l \in Lists : ColumnStatus[l] = None
  /\ UpdateLists = {}
  /\ Isolation = "list"
  /\ ClientsInRange
  /\ MaxFailures = 0

\* no two handlers in flight touch the same list
ListsApart ==
  \A r, s \in Requests :
    r # s /\ InFlight(r) /\ InFlight(s) => ListsOf(req[r]) \cap ListsOf(req[s]) = {}

\* so what a handler has read of its task is so when it writes, position included
PlaceRead ==
  \A r \in Requests : Writing(req[r]) =>
    LET q == req[r] IN
    /\ row[q.task].state = "live"
    /\ row[q.task].list = q.seen.list
    /\ row[q.task].position = q.seen.position

\* it holds no list it does not write, and its index still is one of the list
InRange(q) ==
  /\ Writing(q) => q.position \in Nat
  /\ q.pc = "create" => q.seen.list = None /\ q.position = Cardinality(Live(q.list))
  /\ q.pc \in {"update", "shift", "set", "remove"} => q.list = None
  /\ q.pc \in {"shift", "set"} => q.position < Cardinality(Live(q.seen.list))
  /\ q.pc = "move" => q.position <= Cardinality(Live(q.list) \ {q.task})

PlaceInRange == \A r \in Requests : InRange(req[r])

Places == [t \in Tasks |-> EffectivePosition(t)]

\* the places of the live tasks of a list are 0, 1, ... without gap or double
Numbered == \A l \in Lists : Listed(InOrder(l), Live(l), Places)

OrderInv == TypeOK /\ ListsApart /\ PlaceRead /\ PlaceInRange /\ Numbered

-----------------------------------------------------------------------------
(* What the places of tasks are *)

LEMMA LiveFinite ==
  \A l : IsFiniteSet(Live(l)) /\ Live(l) \subseteq Tasks /\ Cardinality(Live(l)) \in Nat
<1> SUFFICES ASSUME NEW l
             PROVE  IsFiniteSet(Live(l)) /\ Live(l) \subseteq Tasks
  BY LiveCount
<1>1. Live(l) \subseteq Tasks
  BY DEF Live
<1> QED
  BY <1>1, FS_Subset, ValueAssumption

Setting(r, t) == req[r].pc = "set" /\ req[r].task = t

LEMMA RowPlace ==
  \A t : (\A r \in Requests : ~ Setting(r, t)) => EffectivePosition(t) = row[t].position
BY DEF EffectivePosition, Setting

LEMMA SetPlace ==
  TypeOK /\ ListsApart /\ PlaceRead =>
    \A r \in Requests : \A t \in Tasks : Setting(r, t) =>
      /\ EffectivePosition(t) = req[r].position
      /\ row[t].list = req[r].seen.list
      /\ row[t].list \in ListsOf(req[r])
<1> SUFFICES ASSUME TypeOK, ListsApart, PlaceRead,
                    NEW r \in Requests, NEW t \in Tasks, Setting(r, t)
             PROVE  /\ EffectivePosition(t) = req[r].position
                    /\ row[t].list = req[r].seen.list
                    /\ row[t].list \in ListsOf(req[r])
  OBVIOUS
<1>1. ASSUME NEW u \in Requests, Setting(u, t)
      PROVE  row[t].list = req[u].seen.list /\ row[t].list \in ListsOf(req[u]) /\ InFlight(u)
  <2>1. req[u].seen.list \in Lists
    BY <1>1 DEF TypeOK, RequestOK, Setting
  <2> QED
    BY <1>1, <2>1, ValueAssumption DEF PlaceRead, Writing, Setting, ListsOf, InFlight
<1>2. \A u \in Requests : Setting(u, t) => u = r
  BY <1>1 DEF ListsApart
<1>3. EffectivePosition(t) = req[r].position
  BY <1>2 DEF EffectivePosition, Setting
<1> QED
  BY <1>1, <1>3

\* positions that number the tasks of a list give its order
LEMMA InOrderIs ==
  \A l, s : Listed(s, Live(l), Places) => InOrder(l) = s
<1> SUFFICES ASSUME NEW l, NEW s, Listed(s, Live(l), Places)
             PROVE  InOrder(l) = s
  OBVIOUS
<1> DEFINE L == Live(l)
           n == Cardinality(Live(l))
<1>1. n \in Nat /\ Live(l) \subseteq Tasks
  BY LiveFinite
<1>2. /\ s \in [1 .. n -> Live(l)]
      /\ \A i \in 1 .. n : EffectivePosition(s[i]) = i - 1
      /\ \A t \in Live(l) : s[EffectivePosition(t) + 1] = t
  BY <1>1 DEF Listed, Places
<1>3. ASSUME NEW i \in 1 .. n
      PROVE  TaskAt(l, i - 1) = s[i]
  <2>1. \E t \in Live(l) : EffectivePosition(t) = i - 1
    BY <1>2
  <2>2. TaskAt(l, i - 1) \in Live(l) /\ EffectivePosition(TaskAt(l, i - 1)) = i - 1
    BY <2>1 DEF TaskAt
  <2>3. i - 1 + 1 = i
    BY <1>1
  <2> QED
    BY <1>2, <2>2, <2>3
<1> HIDE DEF n
<1>4. s = [i \in 1 .. n |-> s[i]]
  BY <1>2
<1>5. [i \in 1 .. n |-> TaskAt(l, i - 1)] = [i \in 1 .. n |-> s[i]]
  BY <1>3
<1> QED
  BY <1>4, <1>5 DEF InOrder, n

-----------------------------------------------------------------------------
(* What a step leaves alone *)

LEMMA UpdateManyPlaces ==
  ASSUME NEW rows \in [Tasks -> TaskRow], NEW l, NEW where, NEW d \in Int, NEW t \in Tasks
  PROVE  LET new == UpdateMany(rows, l, where, d)
             hit == rows[t].state = "live" /\ rows[t].list = l /\ rows[t].position \in where
         IN
         /\ new \in [Tasks -> TaskRow]
         /\ new[t].state = rows[t].state /\ new[t].list = rows[t].list
         /\ new[t].position = IF hit THEN rows[t].position + d ELSE rows[t].position
         /\ ~ hit => new[t] = rows[t]
BY DEF UpdateMany, TaskRow

\* a handler past its read, and the lists it holds
LEMMA Holds ==
  ASSUME TypeOK, PlaceRead, PlaceInRange, NEW r \in Requests, Writing(req[r])
  PROVE  LET q == req[r] IN
         /\ q \in Request /\ q.task \in Tasks /\ q.seen.list \in Lists
         /\ q.seen.list \in ListsOf(q)
         /\ row[q.task].state = "live" /\ row[q.task].list = q.seen.list
         /\ row[q.task].position = q.seen.position /\ q.seen.position \in Int
         /\ q.position \in Nat
         /\ row \in [Tasks -> TaskRow]
<1>1. req[r] \in Request /\ RequestOK(req[r]) /\ row \in [Tasks -> TaskRow]
  BY DEF TypeOK
<1>2. req[r].task \in Tasks /\ req[r].seen.list \in Lists
  BY <1>1 DEF RequestOK, Writing
<1>3. req[r].seen.position \in Int /\ req[r].position \in Nat
  BY <1>1 DEF Request, TaskRow, PlaceInRange, InRange
<1> QED
  BY <1>1, <1>2, <1>3, ValueAssumption DEF PlaceRead, ListsOf

LEMMA NoColumns ==
  ASSUME Orderly, TypeOK, PlaceRead, PlaceInRange, NEW r \in Requests, UpdateWrite(r)
  PROVE  UpdatedRow(req[r]).list = row[req[r].task].list
         /\ UpdatedRow(req[r]).position = row[req[r].task].position
         /\ UpdatedRow(req[r]).state = row[req[r].task].state
<1> DEFINE q == req[r]
<1>1. q.pc = "update" /\ q.list = None /\ q \in Request
  BY DEF UpdateWrite, PlaceInRange, InRange, TypeOK
<1>2. StatusChanging(q) => q.status \in Status
  BY <1>1 DEF StatusChanging, Request
<1>3. SyncedList(q) = {}
  BY <1>2, ValueAssumption DEF SyncedList, ColumnsFor, Orderly
<1>4. UpdatedList(q) = row[q.task].list
  BY <1>1, <1>3 DEF UpdatedList
<1>5. row[q.task] \in TaskRow
  BY <1>1, Holds DEF Writing
<1> QED
  BY <1>4, <1>5 DEF UpdatedRow, TaskRow

\* a row changes only inside the lists of the handler that writes it
LEMMA RowsElsewhere ==
  ASSUME Orderly, OrderInv, NEW r \in Requests, Advance(r), NEW t \in Tasks
  PROVE  \/ row'[t] = row[t]
         \/ /\ row'[t].list \in ListsOf(req[r])
            /\ row[t].state = "absent" \/ row[t].list \in ListsOf(req[r])
<1> DEFINE q == req[r]
<1> USE DEF OrderInv
<1>0. row \in [Tasks -> TaskRow] /\ q \in Request /\ q.seen.position \in Int /\ q.position \in Int
  BY HandlerType DEF TypeOK
<1>1. CASE CreateInsert(r)
  <2>1. PICK u \in Tasks : row[u].state = "absent" /\ row' = [row EXCEPT ![u] = CreatedRow(q)]
    BY <1>1 DEF CreateInsert
  <2>2. q.list \in Lists
    BY <1>1 DEF CreateInsert, TypeOK, RequestOK
  <2>3. CreatedRow(q).list = q.list /\ q.list \in ListsOf(q)
    BY <2>2, ValueAssumption DEF CreatedRow, ListsOf
  <2> QED  BY <1>0, <2>1, <2>3
<1>2. CASE UpdateWrite(r)
  <2>1. Writing(q) /\ row' = [row EXCEPT ![q.task] = UpdatedRow(q)]
    BY <1>2 DEF UpdateWrite, Writing
  <2>2. UpdatedRow(q).list = row[q.task].list /\ row[q.task].list \in ListsOf(q)
    BY <1>2, <2>1, NoColumns, Holds
  <2> QED  BY <1>0, <2>1, <2>2
<1>3. CASE ShiftOthers(r)
  <2>1. Writing(q)
    BY <1>3 DEF ShiftOthers, Writing
  <2>2. PICK where : \E d \in {1, -1} : row' = UpdateMany(row, q.seen.list, where, d)
    BY <1>3 DEF ShiftOthers, ShiftedRows
  <2>3. row'[t].list = row[t].list /\ (row[t].list # q.seen.list => row'[t] = row[t])
    BY <1>0, <2>2, UpdateManyPlaces
  <2> QED  BY <2>1, <2>3, Holds
<1>4. CASE SetPosition(r)
  <2>1. Writing(q) /\ row' = [row EXCEPT ![q.task].position = q.position]
    BY <1>4 DEF SetPosition, Writing
  <2>2. row'[q.task].list = row[q.task].list
    BY <1>0, <2>1, Holds DEF TaskRow
  <2> QED  BY <1>0, <2>1, <2>2, Holds
<1>5. CASE RemoveCommit(r)
  <2> DEFINE rows == [row EXCEPT ![q.task].state = "deleted"]
  <2>1. /\ row' = UpdateMany(rows, q.seen.list, From(q.seen.position + 1), -1)
        /\ Writing(q)
    BY <1>5 DEF RemoveCommit, RemovedRows, Writing
  <2>2. /\ rows \in [Tasks -> TaskRow] /\ rows[t].list = row[t].list
        /\ t # q.task => rows[t] = row[t]
    BY <1>0 DEF TaskRow
  <2> HIDE DEF rows
  <2>3. row'[t].list = rows[t].list /\ (rows[t].list # q.seen.list => row'[t] = rows[t])
    BY <2>1, <2>2, UpdateManyPlaces
  <2> QED  BY <2>1, <2>2, <2>3, Holds
<1>6. CASE MoveCommit(r)
  <2> DEFINE closed == UpdateMany(row, q.seen.list, From(q.seen.position + 1), -1)
             opened == UpdateMany(closed, q.list, From(q.position), 1)
  <2>1. row' = [opened EXCEPT ![q.task] = MovedRow(q)] /\ Writing(q) /\ q.list \in Lists
    BY <1>6 DEF MoveCommit, MovedRows, Writing, TypeOK, RequestOK
  <2>2. /\ closed \in [Tasks -> TaskRow] /\ closed[t].list = row[t].list
        /\ row[t].list # q.seen.list => closed[t] = row[t]
    BY <1>0, UpdateManyPlaces
  <2> HIDE DEF closed
  <2>3. /\ opened \in [Tasks -> TaskRow] /\ opened[t].list = closed[t].list
        /\ closed[t].list # q.list => opened[t] = closed[t]
    <3> DEFINE where == From(q.position)
               k == q.list
    <3> HIDE DEF where, k
    <3>1. UpdateMany(closed, k, where, 1) \in [Tasks -> TaskRow]
      BY <2>2, UpdateManyRows
    <3>2. LET new == UpdateMany(closed, k, where, 1) IN
          new[t].list = closed[t].list /\ (closed[t].list # k => new[t] = closed[t])
      BY <2>2 DEF UpdateMany, TaskRow
    <3> QED  BY <3>1, <3>2 DEF where, k
  <2> HIDE DEF opened
  <2>4. MovedRow(q).list = q.list /\ q.list \in ListsOf(q)
    <3>1. row[q.task] \in TaskRow  BY <2>1, Holds
    <3> QED  BY <2>1, <3>1, ValueAssumption DEF MovedRow, TaskRow, ListsOf
  <2> QED  BY <2>1, <2>2, <2>3, <2>4, Holds
<1>7. CASE WriteLog(r)
  BY <1>7 DEF WriteLog
<1> QED  BY <1>1, <1>2, <1>3, <1>4, <1>5, <1>6, <1>7 DEF Advance

-----------------------------------------------------------------------------
(* The lists of handlers *)

\* what a step of r does to the other handlers, and where it leaves r
LEMMA HandlerAfter ==
  ASSUME TypeOK, NEW r \in Requests, Advance(r)
  PROVE  /\ InFlight(r)
         /\ \A u \in Requests \ {r} : req'[u] = req[u]
         /\ \/ req'[r].pc \in {"idle", "log"} /\ ListsOf(req'[r]) = {}
            \/ ShiftOthers(r) /\ req'[r] = [req[r] EXCEPT !.pc = "set"]
<1>1. ASSUME NEW t, NEW entry, ThenLog(r, t, entry)
      PROVE  req'[r].pc = "log" /\ ListsOf(req'[r]) = {}
  <2> DEFINE q == [Idle EXCEPT !.pc = "log", !.task = t, !.entry = entry]
  <2>1. q.pc = "log" /\ q.list = None /\ q.seen.list = None
    BY DEF Idle, NoRow
  <2>2. req'[r] = q
    BY <1>1 DEF ThenLog, TypeOK
  <2> HIDE DEF q
  <2> QED  BY <2>1, <2>2 DEF ListsOf
<1>2. CASE CreateInsert(r) \/ UpdateWrite(r) \/ RemoveCommit(r) \/ MoveCommit(r)
  <2>1. \E t, entry : ThenLog(r, t, entry)
    BY <1>2 DEF CreateInsert, UpdateWrite, RemoveCommit, MoveCommit
  <2> QED  BY <1>1, <2>1, Advanced
<1>3. CASE ShiftOthers(r)
  BY <1>3, Advanced DEF ShiftOthers, TypeOK
<1>4. CASE SetPosition(r) \/ WriteLog(r)
  <2>1. req'[r] = Idle
    BY <1>4 DEF SetPosition, WriteLog, TypeOK
  <2>2. Idle.pc = "idle" /\ ListsOf(Idle) = {}
    BY DEF Idle, NoRow, ListsOf
  <2> QED  BY <2>1, <2>2, Advanced
<1> QED  BY <1>2, <1>3, <1>4 DEF Advance

LEMMA LiveElsewhere ==
  ASSUME Orderly, OrderInv, NEW r \in Requests, Advance(r), NEW l \in Lists, l \notin ListsOf(req[r])
  PROVE  Live(l)' = Live(l) /\ \A t \in Live(l) : row'[t] = row[t]
<1>1. ASSUME NEW t \in Tasks, row[t].list = l \/ row'[t].list = l
      PROVE  row'[t] = row[t]
  <2>1. row[t].list # l => row[t].state = "absent" \/ row'[t] = row[t]
    BY <1>1, RowsElsewhere
  <2>2. row[t].state = "absent" => row[t].list # l
    BY ValueAssumption DEF OrderInv, TypeOK, RowOK, NoRow
  <2> QED  BY <1>1, <2>1, <2>2, RowsElsewhere
<1> QED  BY <1>1 DEF Live

\* the first statement of updatePosition changes positions only
LEMMA ShiftKeepsLists ==
  ASSUME TypeOK, NEW r \in Requests, ShiftOthers(r), NEW t \in Tasks
  PROVE  row'[t].state = row[t].state /\ row'[t].list = row[t].list
<1>1. PICK where : \E d \in {1, -1} : row' = UpdateMany(row, req[r].seen.list, where, d)
  BY DEF ShiftOthers, ShiftedRows
<1> QED  BY <1>1, UpdateManyRows DEF TypeOK

LEMMA HeldAfter ==
  ASSUME Orderly, OrderInv, NEW r \in Requests, Advance(r)
  PROVE  ListsApart' /\ PlaceRead'
<1> USE DEF OrderInv
<1>1. /\ InFlight(r)
      /\ \A u \in Requests \ {r} : req'[u] = req[u]
      /\ \/ req'[r].pc \in {"idle", "log"} /\ ListsOf(req'[r]) = {}
         \/ ShiftOthers(r) /\ req'[r] = [req[r] EXCEPT !.pc = "set"]
  BY HandlerAfter
<1>2. ListsOf(req'[r]) \subseteq ListsOf(req[r])
  <2>1. req[r] \in Request
    BY DEF TypeOK
  <2> QED  BY <1>1, <2>1 DEF ListsOf, Request
<1>3. ListsApart'
  BY <1>1, <1>2 DEF ListsApart, InFlight
<1>4. ASSUME NEW u \in Requests, u # r, Writing(req[u])
      PROVE  row'[req[u].task] = row[req[u].task]
  <2>1. ListsOf(req[r]) \cap ListsOf(req[u]) = {}
    BY <1>1, <1>4 DEF ListsApart, InFlight, Writing
  <2>2. /\ req[u].task \in Tasks /\ row[req[u].task].state = "live"
        /\ row[req[u].task].list \in ListsOf(req[u])
    BY <1>4, Holds
  <2> QED  BY <2>1, <2>2, RowsElsewhere
<1>5. ASSUME ShiftOthers(r)
      PROVE  /\ row'[req[r].task].state = row[req[r].task].state
             /\ row'[req[r].task].list = row[req[r].task].list
             /\ row'[req[r].task].position = row[req[r].task].position
             /\ Writing(req[r])
  <2> DEFINE q == req[r]
  <2>1. Writing(q)
    BY <1>5 DEF ShiftOthers, Writing
  <2>2. /\ q.task \in Tasks /\ row[q.task].position = q.seen.position
        /\ q.seen.position \in Int /\ q.position \in Nat /\ row \in [Tasks -> TaskRow]
    BY <2>1, Holds
  <2>3. CASE q.position < q.seen.position
    <3> DEFINE where == q.position .. q.seen.position - 1
    <3>1. row' = UpdateMany(row, q.seen.list, where, 1)
      BY <1>5, <2>3 DEF ShiftOthers, ShiftedRows
    <3>2. row[q.task].position \notin where
      BY <2>2
    <3> HIDE DEF where
    <3> QED  BY <2>1, <2>2, <3>1, <3>2, UpdateManyPlaces
  <2>4. CASE ~ (q.position < q.seen.position)
    <3> DEFINE where == q.seen.position + 1 .. q.position
    <3>1. row' = UpdateMany(row, q.seen.list, where, -1)
      BY <1>5, <2>4 DEF ShiftOthers, ShiftedRows
    <3>2. row[q.task].position \notin where
      BY <2>2
    <3> HIDE DEF where
    <3> QED  BY <2>1, <2>2, <3>1, <3>2, UpdateManyPlaces
  <2> QED  BY <2>3, <2>4
<1>6. PlaceRead'
  <2> SUFFICES ASSUME NEW u \in Requests, Writing(req'[u])
               PROVE  /\ row'[req'[u].task].state = "live"
                      /\ row'[req'[u].task].list = req'[u].seen.list
                      /\ row'[req'[u].task].position = req'[u].seen.position
    BY DEF PlaceRead
  <2>1. CASE u # r
    BY <1>1, <1>4, <2>1 DEF PlaceRead
  <2>2. CASE u = r
    <3>1. ShiftOthers(r) /\ req'[r] = [req[r] EXCEPT !.pc = "set"]
      BY <1>1, <2>2 DEF Writing
    <3>2. req'[r].task = req[r].task /\ req'[r].seen = req[r].seen
      BY <3>1 DEF TypeOK, Request
    <3> QED  BY <1>5, <2>2, <3>1, <3>2 DEF PlaceRead
  <2> QED  BY <2>1, <2>2
<1> QED  BY <1>3, <1>6

LEMMA RangeAfter ==
  ASSUME Orderly, OrderInv, NEW r \in Requests, Advance(r)
  PROVE  PlaceInRange'
<1> USE DEF OrderInv
<1>1. /\ InFlight(r)
      /\ \A u \in Requests \ {r} : req'[u] = req[u]
      /\ \/ req'[r].pc \in {"idle", "log"}
         \/ ShiftOthers(r) /\ req'[r] = [req[r] EXCEPT !.pc = "set"]
  BY HandlerAfter
<1>2. ASSUME NEW u \in Requests, u # r
      PROVE  InRange(req[u])'
  <2> DEFINE q == req[u]
  <2>1. req'[u] = q /\ InRange(q)
    BY <1>1, <1>2 DEF PlaceInRange
  <2>2. \A l \in Lists : l \in ListsOf(q) /\ InFlight(u) => Live(l)' = Live(l)
    <3>1. SUFFICES ASSUME NEW l \in Lists, l \in ListsOf(q), InFlight(u)
                   PROVE  Live(l)' = Live(l)
      OBVIOUS
    <3>2. l \notin ListsOf(req[r])
      BY <1>1, <1>2, <3>1 DEF ListsApart
    <3> QED  BY <3>2, LiveElsewhere
  <2>3. q.pc \in {"create", "move"} =>
          q.list \in Lists /\ q.list \in ListsOf(q) /\ InFlight(u)
    BY ValueAssumption DEF TypeOK, RequestOK, ListsOf, InFlight
  <2>4. q.pc \in {"shift", "set"} =>
          q.seen.list \in Lists /\ q.seen.list \in ListsOf(q) /\ InFlight(u)
    BY Holds DEF Writing, InFlight
  <2> QED  BY <2>1, <2>2, <2>3, <2>4 DEF InRange
<1>3. InRange(req[r])'
  <2>1. CASE req'[r].pc \in {"idle", "log"}
    BY <2>1 DEF InRange, Writing
  <2>2. CASE ShiftOthers(r) /\ req'[r] = [req[r] EXCEPT !.pc = "set"]
    <3>1. /\ req'[r].pc = "set" /\ req'[r].position = req[r].position
          /\ req'[r].seen = req[r].seen /\ req'[r].list = req[r].list
      BY <2>2 DEF TypeOK, Request
    <3>2. req[r].list = None /\ req[r].position < Cardinality(Live(req[r].seen.list))
      BY <2>2 DEF ShiftOthers, PlaceInRange, InRange
    <3>4. req[r].position \in Nat
      BY <2>2 DEF ShiftOthers, PlaceInRange, InRange, Writing
    <3>3. \A l : Live(l)' = Live(l)
      BY <2>2, ShiftKeepsLists DEF Live
    <3> QED  BY <3>1, <3>2, <3>3, <3>4 DEF InRange
  <2> QED  BY <1>1, <2>1, <2>2
<1> QED  BY <1>2, <1>3 DEF PlaceInRange

-----------------------------------------------------------------------------
(* The places of tasks, before and after a step of r *)

LEMMA PlaceHeld ==
  ASSUME TypeOK, ListsApart, PlaceRead, NEW r \in Requests, InFlight(r),
         NEW t \in Tasks, row[t].list \in ListsOf(req[r])
  PROVE  EffectivePosition(t) = IF Setting(r, t) THEN req[r].position ELSE row[t].position
<1>1. ASSUME NEW u \in Requests, Setting(u, t)
      PROVE  u = r
  BY <1>1, SetPlace DEF ListsApart, InFlight, Setting
<1>2. CASE Setting(r, t)
  BY <1>2, SetPlace
<1>3. CASE ~ Setting(r, t)
  BY <1>1, <1>3, RowPlace
<1> QED
  BY <1>2, <1>3

LEMMA SetPlaceAfter ==
  TypeOK' /\ ListsApart' /\ PlaceRead' =>
    \A r \in Requests : \A t \in Tasks : Setting(r, t)' =>
      /\ EffectivePosition(t)' = req'[r].position
      /\ row'[t].list \in ListsOf(req'[r])
<1>1. (TypeOK /\ ListsApart /\ PlaceRead =>
        \A r \in Requests : \A t \in Tasks : Setting(r, t) =>
          /\ EffectivePosition(t) = req[r].position
          /\ row[t].list = req[r].seen.list
          /\ row[t].list \in ListsOf(req[r]))'
  BY SetPlace, PTL
<1> QED
  BY <1>1

LEMMA SetAfter ==
  ASSUME Orderly, OrderInv, TypeOK', NEW r \in Requests, Advance(r)
  PROVE  \A u \in Requests : \A t \in Tasks :
           /\ Setting(u, t)' => /\ EffectivePosition(t)' = req'[u].position
                                /\ row'[t].list \in ListsOf(req'[u])
           /\ u # r => (Setting(u, t)' <=> Setting(u, t)) /\ req'[u] = req[u]
<1>1. TypeOK' /\ ListsApart' /\ PlaceRead'
  BY HeldAfter
<1>2. \A u \in Requests \ {r} : req'[u] = req[u]
  BY HandlerAfter DEF OrderInv
<1> QED
  BY <1>1, <1>2, SetPlaceAfter DEF Setting

LEMMA RowPlaceAfter ==
  \A t : (\A u \in Requests : ~ Setting(u, t)') => EffectivePosition(t)' = row'[t].position
<1>1. (\A t : (\A r \in Requests : ~ Setting(r, t)) => EffectivePosition(t) = row[t].position)'
  BY RowPlace, PTL
<1> QED
  BY <1>1

LEMMA PlaceAfter ==
  ASSUME Orderly, OrderInv, TypeOK', NEW r \in Requests, Advance(r),
         NEW t \in Tasks, row'[t].list \in ListsOf(req[r])
  PROVE  EffectivePosition(t)' = IF Setting(r, t)' THEN req'[r].position ELSE row'[t].position
<1>1. ASSUME NEW u \in Requests, Setting(u, t)'
      PROVE  u = r
  <2>1. SUFFICES ASSUME u # r  PROVE FALSE
    OBVIOUS
  <2>2. Setting(u, t) /\ req'[u] = req[u] /\ row'[t].list \in ListsOf(req[u])
    BY <1>1, <2>1, SetAfter
  <2>3. InFlight(u) /\ InFlight(r)
    BY <2>2, HandlerAfter DEF InFlight, Setting, OrderInv
  <2> QED
    BY <2>1, <2>2, <2>3 DEF OrderInv, ListsApart
<1>2. CASE Setting(r, t)'
  BY <1>2, SetAfter
<1>3. CASE ~ Setting(r, t)'
  BY <1>1, <1>3, RowPlaceAfter
<1> QED
  BY <1>2, <1>3

LEMMA PlaceElsewhere ==
  ASSUME Orderly, OrderInv, TypeOK', NEW r \in Requests, Advance(r),
         NEW l \in Lists, l \notin ListsOf(req[r]), NEW t \in Live(l)
  PROVE  EffectivePosition(t)' = EffectivePosition(t)
<1> USE DEF OrderInv
<1>1. t \in Tasks /\ row[t].list = l /\ row'[t] = row[t]
  BY LiveElsewhere DEF Live
<1>2. ListsOf(req'[r]) \subseteq ListsOf(req[r])
  <2>1. req[r] \in Request
    BY DEF TypeOK
  <2> QED  BY <2>1, HandlerAfter DEF ListsOf, Request
<1>3. ~ Setting(r, t) /\ ~ Setting(r, t)'
  BY <1>1, <1>2, SetPlace, SetAfter
<1>4. CASE \E u \in Requests : Setting(u, t)
  <2>1. PICK u \in Requests : Setting(u, t)
    BY <1>4
  <2>2. Setting(u, t)' /\ req'[u] = req[u]
    BY <1>1, <1>3, <2>1, SetAfter
  <2> QED
    BY <1>1, <2>1, <2>2, SetPlace, SetAfter
<1>5. CASE \A u \in Requests : ~ Setting(u, t)
  <2>1. \A u \in Requests : ~ Setting(u, t)'
    BY <1>1, <1>3, <1>5, SetAfter
  <2> QED
    BY <1>1, <1>5, <2>1, RowPlace, RowPlaceAfter
<1> QED
  BY <1>4, <1>5

\* what numbers the tasks of a list after a step is its order then
LEMMA InOrderAfter ==
  \A l, s : Listed(s, Live(l)', Places') =>
    InOrder(l)' = s /\ Listed(InOrder(l)', Live(l)', Places')
<1>1. (\A l, s : Listed(s, Live(l), Places) => InOrder(l) = s)'
  BY InOrderIs, PTL
<1> QED
  BY <1>1

\* the places of the tasks of a list are as they were
LEMMA SameOrder ==
  ASSUME Numbered, NEW l \in Lists, Live(l)' = Live(l),
         \A t \in Live(l) : EffectivePosition(t)' = EffectivePosition(t)
  PROVE  InOrder(l)' = InOrder(l) /\ Listed(InOrder(l)', Live(l)', Places')
<1>1. Live(l) \subseteq Tasks
  BY LiveFinite
<1>2. \A t \in Live(l) : Places'[t] = Places[t]
  BY <1>1 DEF Places
<1>3. Listed(InOrder(l), Live(l), Places)
  BY DEF Numbered
<1>4. Listed(InOrder(l), Live(l), Places')
  <2> DEFINE s == InOrder(l)
             at == Places
             new == Places'
             n == Cardinality(Live(l))
  <2>1. /\ s \in [1 .. n -> Live(l)]
        /\ \A i \in 1 .. n : at[s[i]] = i - 1
        /\ \A t \in Live(l) : at[t] \in 0 .. n - 1 /\ s[at[t] + 1] = t
    BY <1>3 DEF Listed
  <2> HIDE DEF s, at, new, n
  <2>2. \A t \in Live(l) : new[t] = at[t]
    BY <1>2 DEF new, at
  <2>3. \A i \in 1 .. n : new[s[i]] = i - 1
    BY <2>1, <2>2
  <2>4. \A t \in Live(l) : new[t] \in 0 .. n - 1 /\ s[new[t] + 1] = t
    BY <2>1, <2>2
  <2>5. Listed(s, Live(l), new)
    BY <2>1, <2>3, <2>4 DEF Listed, n
  <2> QED  BY <2>5 DEF s, new
<1> QED
  BY <1>4, InOrderAfter

LEMMA OrderElsewhere ==
  ASSUME Orderly, OrderInv, TypeOK', NEW r \in Requests, Advance(r),
         NEW l \in Lists, l \notin ListsOf(req[r])
  PROVE  InOrder(l)' = InOrder(l) /\ Listed(InOrder(l)', Live(l)', Places')
BY LiveElsewhere, PlaceElsewhere, SameOrder DEF OrderInv

-----------------------------------------------------------------------------
(* What each statement does to the order of the list it is about *)

\* a handler that does not go on with SetPosition has no task in between
LEMMA NotSettingAfter ==
  ASSUME TypeOK, NEW r \in Requests, Advance(r), ~ ShiftOthers(r)
  PROVE  \A t : ~ Setting(r, t)'
BY HandlerAfter DEF Setting

LEMMA CreateOrder ==
  ASSUME Orderly, OrderInv, TypeOK', NEW r \in Requests, CreateInsert(r)
  PROVE  \E t \in Tasks, l \in Lists :
           /\ ListsOf(req[r]) = {l}
           /\ row[t].state = "absent" /\ row'[t].state = "live"
           /\ \A u \in Tasks \ {t} : row'[u] = row[u]
           /\ InOrder(l)' = Append(InOrder(l), t)
           /\ Listed(InOrder(l)', Live(l)', Places')
<1> USE DEF OrderInv
<1> DEFINE q == req[r]
<1>1. /\ q.list \in Lists /\ ListsOf(q) = {q.list} /\ q.pc = "create"
      /\ q.position = Cardinality(Live(q.list))
  <2>1. /\ q.pc = "create" /\ q.list \in Lists /\ q.seen.list = None
        /\ q.position = Cardinality(Live(q.list))
    BY DEF CreateInsert, TypeOK, RequestOK, PlaceInRange, InRange
  <2> QED  BY <2>1, ValueAssumption DEF ListsOf
<1>2. PICK t \in Tasks : row[t].state = "absent" /\ row' = [row EXCEPT ![t] = CreatedRow(q)]
  BY DEF CreateInsert
<1>3. row \in [Tasks -> TaskRow]
  BY DEF TypeOK
<1>4. /\ row'[t] = CreatedRow(q) /\ row'[t].state = "live"
      /\ row'[t].list = q.list /\ row'[t].position = q.position
      /\ \A u \in Tasks \ {t} : row'[u] = row[u]
  BY <1>2, <1>3 DEF CreatedRow
<1>5. Advance(r) /\ InFlight(r) /\ ~ ShiftOthers(r)
  BY <1>1 DEF Advance, InFlight, ShiftOthers
<1>6. PICK l \in Lists : l = q.list
  BY <1>1
<1>7. Live(l)' = Live(l) \cup {t} /\ t \notin Live(l)
  BY <1>2, <1>4, <1>6 DEF Live
<1>8. Places'[t] = Cardinality(Live(l))
  <2>1. EffectivePosition(t)' = q.position
    BY <1>1, <1>4, <1>5, PlaceAfter, NotSettingAfter
  <2> QED  BY <1>1, <1>6, <2>1 DEF Places
<1>9. \A u \in Live(l) : Places'[u] = Places[u]
  <2> SUFFICES ASSUME NEW u \in Live(l)
               PROVE  Places'[u] = Places[u]
    OBVIOUS
  <2>1. u \in Tasks \ {t} /\ row[u].list = l
    BY <1>7 DEF Live
  <2>2. EffectivePosition(u) = row[u].position
    BY <1>1, <1>5, <1>6, <2>1, PlaceHeld DEF Setting
  <2>3. EffectivePosition(u)' = row[u].position
    BY <1>1, <1>4, <1>5, <1>6, <2>1, PlaceAfter, NotSettingAfter
  <2> QED  BY <2>1, <2>2, <2>3 DEF Places
<1>10. Listed(Append(InOrder(l), t), Live(l) \cup {t}, Places')
  <2> DEFINE L == Live(l)
             at == Places
             new == Places'
             s == InOrder(l)
  <2>1. IsFiniteSet(L) /\ Listed(s, L, at) /\ t \notin L
        /\ new[t] = Cardinality(L) /\ \A u \in L : new[u] = at[u]
    BY <1>7, <1>8, <1>9, LiveFinite DEF Numbered
  <2> HIDE DEF L, at, new, s
  <2>2. Listed(Append(s, t), L \cup {t}, new)
    BY <2>1, ListedAppend
  <2> QED  BY <2>2 DEF L, new, s
<1>11. InOrder(l)' = Append(InOrder(l), t) /\ Listed(InOrder(l)', Live(l)', Places')
  BY <1>7, <1>10, InOrderAfter
<1> QED
  BY <1>1, <1>2, <1>4, <1>6, <1>11

\* an update of a row, the second statement of updatePosition and a log
\* leave every list as it was
LEMMA QuietOrder ==
  ASSUME Orderly, OrderInv, TypeOK', NEW r \in Requests,
         UpdateWrite(r) \/ SetPosition(r) \/ WriteLog(r), NEW l \in Lists
  PROVE  /\ InOrder(l)' = InOrder(l) /\ Listed(InOrder(l)', Live(l)', Places')
         /\ \A t \in Tasks : row'[t].state = row[t].state
<1> USE DEF OrderInv
<1> DEFINE q == req[r]
<1>1. Advance(r) /\ InFlight(r) /\ ~ ShiftOthers(r)
  BY DEF Advance, InFlight, ShiftOthers, UpdateWrite, SetPosition, WriteLog
<1>2. row \in [Tasks -> TaskRow]
  BY DEF TypeOK
<1>3. ASSUME NEW t \in Tasks
      PROVE  /\ row'[t].state = row[t].state /\ row'[t].list = row[t].list
             /\ row'[t].position = IF Setting(r, t) THEN q.position ELSE row[t].position
  <2>1. CASE UpdateWrite(r)
    <3>1. row' = [row EXCEPT ![q.task] = UpdatedRow(q)] /\ q.pc = "update"
      BY <2>1 DEF UpdateWrite
    <3>2. row[t] \in TaskRow
      BY <1>2
    <3> QED  BY <1>2, <2>1, <3>1, <3>2, NoColumns DEF Setting
  <2>2. CASE SetPosition(r)
    <3>1. row' = [row EXCEPT ![q.task].position = q.position] /\ q.pc = "set"
      BY <2>2 DEF SetPosition
    <3> QED  BY <1>2, <3>1 DEF Setting, TaskRow
  <2>3. CASE WriteLog(r)
    BY <2>3 DEF WriteLog, Setting
  <2> QED  BY <2>1, <2>2, <2>3
<1>4. Live(l)' = Live(l)
  BY <1>3 DEF Live
<1>5. ASSUME NEW t \in Live(l), l \in ListsOf(q)
      PROVE  EffectivePosition(t)' = EffectivePosition(t)
  <2>1. t \in Tasks /\ row[t].list = l
    BY DEF Live
  <2>2. EffectivePosition(t) = IF Setting(r, t) THEN q.position ELSE row[t].position
    BY <1>1, <1>5, <2>1, PlaceHeld
  <2>3. EffectivePosition(t)' = row'[t].position
    BY <1>1, <1>3, <1>5, <2>1, PlaceAfter, NotSettingAfter
  <2> QED  BY <1>3, <2>1, <2>2, <2>3
<1>6. InOrder(l)' = InOrder(l) /\ Listed(InOrder(l)', Live(l)', Places')
  <2>1. CASE l \in ListsOf(q)
    BY <1>4, <1>5, <2>1, SameOrder
  <2>2. CASE l \notin ListsOf(q)
    BY <1>1, <2>2, OrderElsewhere
  <2> QED  BY <2>1, <2>2
<1> QED
  BY <1>3, <1>6

(***************************************************************************)
(* What the transactions of remove and moveTaskToList and the first        *)
(* statement of updatePosition find: the task they are about is at the     *)
(* place it was read at.                                                   *)
(***************************************************************************)
LEMMA AtItsPlace ==
  ASSUME OrderInv, NEW r \in Requests, req[r].pc \in {"shift", "remove", "move"}
  PROVE  LET q == req[r]
             k == q.seen.list IN
         /\ q.task \in Live(k) /\ k \in Lists /\ k \in ListsOf(q)
         /\ Places[q.task] = q.seen.position
         /\ \A u \in Live(k) : u \in Tasks /\ Places[u] = row[u].position /\ row[u].position \in Int
         /\ \A u \in Live(k) \ {q.task} : row[u].position # q.seen.position
         /\ Listed(InOrder(k), Live(k), Places)
<1> USE DEF OrderInv
<1> DEFINE q == req[r]
           k == q.seen.list
<1>1. Writing(q) /\ InFlight(r) /\ \A t : ~ Setting(r, t)
  BY DEF Writing, InFlight, Setting
<1>2. /\ q.task \in Tasks /\ k \in Lists /\ k \in ListsOf(q)
      /\ row[q.task].state = "live" /\ row[q.task].list = k
      /\ row[q.task].position = q.seen.position
      /\ row \in [Tasks -> TaskRow]
  BY <1>1, Holds
<1>3. q.task \in Live(k)
  BY <1>2 DEF Live
<1>4. ASSUME NEW u \in Live(k)
      PROVE  u \in Tasks /\ Places[u] = row[u].position /\ row[u].position \in Int
  <2>1. u \in Tasks /\ row[u].list = k
    BY DEF Live
  <2>2. EffectivePosition(u) = row[u].position
    BY <1>1, <1>2, <2>1, PlaceHeld
  <2> QED  BY <1>2, <2>1, <2>2 DEF Places, TaskRow
<1>5. Listed(InOrder(k), Live(k), Places)
  BY <1>2 DEF Numbered
<1>6. \A u \in Live(k) : InOrder(k)[Places[u] + 1] = u
  BY <1>5 DEF Listed
<1>7. ASSUME NEW u \in Live(k) \ {q.task}
      PROVE  row[u].position # q.seen.position
  BY <1>2, <1>3, <1>4, <1>6
<1> QED
  BY <1>2, <1>3, <1>4, <1>5, <1>7

\* a task taken out of its list
RemovedFrom(k, t) ==
  \E i \in 1 .. Len(InOrder(k)) :
    /\ t = InOrder(k)[i]
    /\ InOrder(k)' = RemoveAt(InOrder(k), i)
    /\ Listed(InOrder(k)', Live(k)', Places')

LEMMA TakeOrder ==
  ASSUME Numbered, NEW k \in Lists, NEW t \in Live(k), Live(k)' = Live(k) \ {t},
         GapClosed(Live(k), Places, t, Places')
  PROVE  RemovedFrom(k, t)
<1> DEFINE L == Live(k)
           at == Places
           new == Places'
           s == InOrder(k)
<1>1. IsFiniteSet(L) /\ Listed(s, L, at) /\ t \in L /\ GapClosed(L, at, t, new)
  BY LiveFinite DEF Numbered
<1> HIDE DEF L, at, new, s
<1>2. PICK i \in 1 .. Len(s) : s[i] = t /\ Listed(RemoveAt(s, i), L \ {t}, new)
  BY <1>1, ListedRemove
<1>3. Listed(RemoveAt(InOrder(k), i), Live(k)', Places')
  BY <1>2 DEF s, L, new
<1>4. InOrder(k)' = RemoveAt(InOrder(k), i) /\ Listed(InOrder(k)', Live(k)', Places')
  BY <1>3, InOrderAfter
<1> QED
  BY <1>2, <1>4 DEF RemovedFrom, s

LEMMA RemoveOrder ==
  ASSUME Orderly, OrderInv, TypeOK', NEW r \in Requests, RemoveCommit(r)
  PROVE  \E t \in Tasks, k \in Lists :
           /\ ListsOf(req[r]) = {k}
           /\ row[t].state = "live" /\ row'[t].state = "deleted"
           /\ \A u \in Tasks \ {t} : row'[u].state = row[u].state
           /\ RemovedFrom(k, t)
<1> USE DEF OrderInv
<1> DEFINE q == req[r]
<1>1. q.pc = "remove" /\ Writing(q) /\ q.list = None
  BY DEF RemoveCommit, Writing, PlaceInRange, InRange
<1>2. PICK t \in Tasks, k \in Lists, old \in Int :
        t = q.task /\ k = q.seen.list /\ old = q.seen.position
  BY <1>1, Holds
<1>3. /\ t \in Live(k) /\ ListsOf(q) = {k} /\ Places[t] = old
      /\ \A u \in Live(k) : u \in Tasks /\ Places[u] = row[u].position /\ row[u].position \in Int
      /\ Listed(InOrder(k), Live(k), Places)
  <2>1. ListsOf(q) = {k}
    BY <1>1, <1>2, ValueAssumption DEF ListsOf
  <2> QED
    BY <1>1, <1>2, <2>1, AtItsPlace
<1>4. Advance(r) /\ InFlight(r) /\ ~ ShiftOthers(r)
  BY <1>1 DEF Advance, InFlight, ShiftOthers
<1>5. row \in [Tasks -> TaskRow]
  BY DEF TypeOK
<1> DEFINE rows == [row EXCEPT ![t].state = "deleted"]
           where == From(old + 1)
<1>6. row' = UpdateMany(rows, k, where, -1)
  BY <1>2 DEF RemoveCommit, RemovedRows
<1>7. /\ rows \in [Tasks -> TaskRow] /\ rows[t].state = "deleted"
      /\ \A u \in Tasks \ {t} : rows[u] = row[u]
  BY <1>5 DEF TaskRow
<1>8. \A p \in Int : p \in where <=> p > old
  BY <1>2 DEF From
<1> HIDE DEF rows, where
<1>9. row'[t].state = "deleted"
  BY <1>6, <1>7, UpdateManyPlaces
<1>10. ASSUME NEW u \in Tasks \ {t}
       PROVE  /\ row'[u].state = row[u].state /\ row'[u].list = row[u].list
              /\ u \in Live(k) =>
                   row'[u].position = IF row[u].position > old THEN row[u].position - 1
                                                               ELSE row[u].position
  <2>1. /\ row'[u].state = row[u].state /\ row'[u].list = row[u].list
        /\ row'[u].position =
             IF row[u].state = "live" /\ row[u].list = k /\ row[u].position \in where
             THEN row[u].position + (-1) ELSE row[u].position
    BY <1>6, <1>7, UpdateManyPlaces
  <2> QED  BY <1>3, <1>8, <2>1 DEF Live
<1>11. Live(k)' = Live(k) \ {t}
  BY <1>9, <1>10 DEF Live
<1>12. ASSUME NEW u \in Live(k) \ {t}
       PROVE  Places'[u] = IF Places[u] > Places[t] THEN Places[u] - 1 ELSE Places[u]
  <2>1. u \in Tasks /\ row'[u].list = k
    BY <1>10, <1>12 DEF Live
  <2>2. EffectivePosition(u)' = row'[u].position
    BY <1>3, <1>4, <2>1, PlaceAfter, NotSettingAfter
  <2>3. Places'[u] = row'[u].position
    BY <2>1, <2>2 DEF Places
  <2> QED  BY <1>3, <1>10, <2>3
<1>13. RemovedFrom(k, t)
  <2>1. GapClosed(Live(k), Places, t, Places')
    BY <1>12 DEF GapClosed
  <2> QED  BY <1>3, <1>11, <2>1, TakeOrder
<1>14. row[t].state = "live"
  BY <1>3 DEF Live
<1> QED
  BY <1>3, <1>9, <1>10, <1>13, <1>14

Replaced(L, at, t, p, new) ==
  /\ new[t] = p
  /\ \A u \in L \ {t} :
       LET c == IF at[u] > at[t] THEN at[u] - 1 ELSE at[u] IN
       new[u] = IF c >= p THEN c + 1 ELSE c

(***************************************************************************)
(* Taking t out of its place and putting it in at place p of the same      *)
(* list, as one change of places.                                          *)
(***************************************************************************)
LEMMA ListedReplace ==
  ASSUME NEW L, IsFiniteSet(L), NEW at, NEW s, Listed(s, L, at), NEW t \in L,
         NEW p \in 0 .. Cardinality(L) - 1, NEW new, Replaced(L, at, t, p, new)
  PROVE  \E i \in 1 .. Len(s) :
           /\ s[i] = t
           /\ p + 1 \in 1 .. Len(RemoveAt(s, i)) + 1
           /\ Listed(InsertAt(RemoveAt(s, i), p + 1, t), L, new)
<1> DEFINE M == L \ {t}
           mid == [u \in M |-> IF at[u] > at[t] THEN at[u] - 1 ELSE at[u]]
<1>1. PICK i \in 1 .. Len(s) : s[i] = t /\ Listed(RemoveAt(s, i), M, mid)
  <2>1. GapClosed(L, at, t, mid)
    BY DEF GapClosed
  <2> HIDE DEF mid
  <2> QED  BY <2>1, ListedRemove
<1>2. IsFiniteSet(M) /\ Cardinality(M) = Cardinality(L) - 1 /\ t \notin M /\ M \cup {t} = L
  <2>1. IsFiniteSet(M) /\ Cardinality(M) = Cardinality(L) - 1
    BY FS_RemoveElement
  <2>2. t \notin M /\ M \cup {t} = L
    OBVIOUS
  <2> QED  BY <2>1, <2>2
<1>3. p \in 0 .. Cardinality(M)
  BY <1>2
<1>4. GapOpened(M, mid, p, new)
  BY DEF GapOpened, Replaced
<1> DEFINE w == RemoveAt(s, i)
<1> HIDE DEF M, mid, w
<1>5. Listed(InsertAt(w, p + 1, t), M \cup {t}, new) /\ p + 1 \in 1 .. Len(w) + 1
  <2>1. Listed(w, M, mid)
    BY <1>1 DEF w
  <2>2. new[t] = p
    BY DEF Replaced
  <2> QED  BY <1>2, <1>3, <1>4, <2>1, <2>2, ListedInsert
<1>6. Listed(InsertAt(w, p + 1, t), L, new)
  BY <1>2, <1>5
<1> QED
  BY <1>1, <1>5, <1>6 DEF w

\* a task put at another place of its list
ReplacedIn(k, t, p) ==
  \E i \in 1 .. Len(InOrder(k)) :
    /\ t = InOrder(k)[i]
    /\ p + 1 \in 1 .. Len(RemoveAt(InOrder(k), i)) + 1
    /\ InOrder(k)' = InsertAt(RemoveAt(InOrder(k), i), p + 1, t)
    /\ Listed(InOrder(k)', Live(k)', Places')

LEMMA ReplaceOrder ==
  ASSUME Numbered, NEW k \in Lists, NEW t \in Live(k), Live(k)' = Live(k),
         NEW p \in 0 .. Cardinality(Live(k)) - 1, Replaced(Live(k), Places, t, p, Places')
  PROVE  ReplacedIn(k, t, p)
<1> DEFINE L == Live(k)
           at == Places
           new == Places'
           s == InOrder(k)
<1>1. /\ IsFiniteSet(L) /\ Listed(s, L, at) /\ t \in L
      /\ p \in 0 .. Cardinality(L) - 1 /\ Replaced(L, at, t, p, new)
  BY LiveFinite DEF Numbered
<1> HIDE DEF L, at, new, s
<1>2. PICK i \in 1 .. Len(s) :
        /\ s[i] = t
        /\ p + 1 \in 1 .. Len(RemoveAt(s, i)) + 1
        /\ Listed(InsertAt(RemoveAt(s, i), p + 1, t), L, new)
  BY <1>1, ListedReplace
<1>3. Listed(InsertAt(RemoveAt(InOrder(k), i), p + 1, t), Live(k)', Places')
  BY <1>2 DEF s, L, new
<1>4. /\ InOrder(k)' = InsertAt(RemoveAt(InOrder(k), i), p + 1, t)
      /\ Listed(InOrder(k)', Live(k)', Places')
  BY <1>3, InOrderAfter
<1> QED
  BY <1>2, <1>4 DEF ReplacedIn, s

LEMMA ShiftOrder ==
  ASSUME Orderly, OrderInv, TypeOK', NEW r \in Requests, ShiftOthers(r)
  PROVE  \E t \in Tasks, k \in Lists, p \in Nat :
           /\ ListsOf(req[r]) = {k}
           /\ \A u \in Tasks : row'[u].state = row[u].state
           /\ ReplacedIn(k, t, p)
<1> USE DEF OrderInv
<1> DEFINE q == req[r]
<1>1. /\ q.pc = "shift" /\ Writing(q) /\ q.list = None
      /\ q.position < Cardinality(Live(q.seen.list))
  BY DEF ShiftOthers, Writing, PlaceInRange, InRange
<1>2. PICK t \in Tasks, k \in Lists, old \in Int, p \in Nat :
        t = q.task /\ k = q.seen.list /\ old = q.seen.position /\ p = q.position
  BY <1>1, Holds
<1>3. /\ t \in Live(k) /\ ListsOf(q) = {k} /\ Places[t] = old
      /\ \A u \in Live(k) : u \in Tasks /\ Places[u] = row[u].position /\ row[u].position \in Int
      /\ \A u \in Live(k) \ {t} : row[u].position # old
  <2>1. ListsOf(q) = {k}
    BY <1>1, <1>2, ValueAssumption DEF ListsOf
  <2> QED
    BY <1>1, <1>2, <2>1, AtItsPlace
<1>4. Advance(r) /\ InFlight(r)
  BY <1>1 DEF Advance, InFlight
<1>5. row \in [Tasks -> TaskRow]
  BY DEF TypeOK
<1>6. \A u \in Tasks : row'[u].state = row[u].state /\ row'[u].list = row[u].list
  BY ShiftKeepsLists
<1>7. Live(k)' = Live(k)
  BY <1>6 DEF Live
<1>8. \A u \in Tasks : Setting(r, u)' <=> u = t
  <2>1. req'[r] = [q EXCEPT !.pc = "set"] /\ q \in Request
    BY DEF ShiftOthers, TypeOK
  <2>2. req'[r].pc = "set" /\ req'[r].task = t
    BY <1>2, <2>1 DEF Request
  <2> QED  BY <2>2 DEF Setting
<1>9. Places'[t] = p
  <2>1. row'[t].list = k
    BY <1>3, <1>6 DEF Live
  <2>2. EffectivePosition(t)' = req'[r].position
    BY <1>3, <1>4, <1>8, <2>1, PlaceAfter
  <2>3. req'[r].position = p
    BY <1>2 DEF ShiftOthers, TypeOK, Request
  <2> QED  BY <2>2, <2>3 DEF Places
<1>10. ASSUME NEW u \in Live(k) \ {t}
       PROVE  /\ Places'[u] = row'[u].position
              /\ u \in Tasks /\ row[u].state = "live" /\ row[u].list = k
  <2>1. u \in Tasks /\ row'[u].list = k /\ row[u].state = "live" /\ row[u].list = k
    BY <1>6, <1>10 DEF Live
  <2>2. EffectivePosition(u)' = row'[u].position
    BY <1>3, <1>4, <1>8, <1>10, <2>1, PlaceAfter
  <2> QED  BY <2>1, <2>2 DEF Places
<1>11. ASSUME NEW u \in Live(k) \ {t}
       PROVE  LET c == IF Places[u] > Places[t] THEN Places[u] - 1 ELSE Places[u] IN
              Places'[u] = IF c >= p THEN c + 1 ELSE c
  <2>1. PICK x \in Int : x = row[u].position /\ Places[u] = x /\ x # old
    BY <1>3
  <2>2. CASE p < old
    <3> DEFINE where == p .. old - 1
    <3>1. row' = UpdateMany(row, k, where, 1)
      BY <1>2, <2>2 DEF ShiftOthers, ShiftedRows
    <3>2. x \in where <=> p <= x /\ x < old
      BY <2>1
    <3> HIDE DEF where
    <3>3. row'[u].position = IF x \in where THEN x + 1 ELSE x
      BY <1>5, <1>10, <2>1, <3>1, UpdateManyPlaces
    <3> QED  BY <1>3, <1>10, <2>1, <2>2, <3>2, <3>3
  <2>3. CASE ~ (p < old)
    <3> DEFINE where == old + 1 .. p
    <3>1. row' = UpdateMany(row, k, where, -1)
      BY <1>2, <2>3 DEF ShiftOthers, ShiftedRows
    <3>2. x \in where <=> old < x /\ x <= p
      BY <2>1
    <3> HIDE DEF where
    <3>3. row'[u].position = IF x \in where THEN x + (-1) ELSE x
      BY <1>5, <1>10, <2>1, <3>1, UpdateManyPlaces
    <3> QED  BY <1>3, <1>10, <2>1, <2>3, <3>2, <3>3
  <2> QED  BY <2>2, <2>3
<1>12. Replaced(Live(k), Places, t, p, Places')
  BY <1>9, <1>11 DEF Replaced
<1>13. p \in 0 .. Cardinality(Live(k)) - 1
  <2>1. Cardinality(Live(k)) \in Nat
    BY LiveFinite
  <2> QED  BY <1>1, <1>2, <2>1
<1>14. ReplacedIn(k, t, p)
  BY <1>3, <1>7, <1>12, <1>13, ReplaceOrder
<1> QED
  BY <1>3, <1>6, <1>14

\* a task put into a list it was not in
InsertedIn(l, t, p) ==
  /\ p + 1 \in 1 .. Len(InOrder(l)) + 1
  /\ InOrder(l)' = InsertAt(InOrder(l), p + 1, t)
  /\ Listed(InOrder(l)', Live(l)', Places')

LEMMA InsertOrder ==
  ASSUME Numbered, NEW l \in Lists, NEW t, t \notin Live(l), Live(l)' = Live(l) \cup {t},
         NEW p \in 0 .. Cardinality(Live(l)), Places'[t] = p,
         GapOpened(Live(l), Places, p, Places')
  PROVE  InsertedIn(l, t, p)
<1> DEFINE L == Live(l)
           at == Places
           new == Places'
           s == InOrder(l)
<1>1. /\ IsFiniteSet(L) /\ Listed(s, L, at) /\ t \notin L
      /\ p \in 0 .. Cardinality(L) /\ new[t] = p /\ GapOpened(L, at, p, new)
  BY LiveFinite DEF Numbered
<1> HIDE DEF L, at, new, s
<1>2. Listed(InsertAt(s, p + 1, t), L \cup {t}, new) /\ p + 1 \in 1 .. Len(s) + 1
  BY <1>1, ListedInsert
<1>3. Listed(InsertAt(InOrder(l), p + 1, t), Live(l)', Places')
  BY <1>2 DEF s, L, new
<1>4. InOrder(l)' = InsertAt(InOrder(l), p + 1, t) /\ Listed(InOrder(l)', Live(l)', Places')
  BY <1>3, InOrderAfter
<1> QED
  BY <1>2, <1>4 DEF InsertedIn, s

\* what the transaction of moveTaskToList does to the rows
LEMMA MovedPlaces ==
  ASSUME OrderInv, NEW r \in Requests, req[r].pc = "move", row' = MovedRows(req[r]),
         NEW k \in Lists, NEW l \in Lists, NEW t \in Tasks, NEW old \in Int, NEW p \in Nat,
         LET q == req[r] IN
         t = q.task /\ k = q.seen.list /\ l = q.list /\ old = q.seen.position /\ p = q.position,
         NEW u \in Tasks
  PROVE  /\ row'[u].state = row[u].state
         /\ row'[u].list = IF u = t THEN l ELSE row[u].list
         /\ u = t => row'[u].position = p
         /\ u # t =>
              LET x == row[u].position
                  c == IF row[u].state = "live" /\ row[u].list = k /\ x > old THEN x - 1 ELSE x
              IN  row'[u].position =
                    IF row[u].state = "live" /\ row[u].list = l /\ c >= p THEN c + 1 ELSE c
<1> DEFINE q == req[r]
           after == From(old + 1)
           from == From(p)
           closed == UpdateMany(row, k, after, -1)
           opened == UpdateMany(closed, l, from, 1)
<1>1. row' = [opened EXCEPT ![t] = MovedRow(q)]
  BY DEF MovedRows
<1>2. row \in [Tasks -> TaskRow]
  BY DEF OrderInv, TypeOK
<1>3. \A x \in Int : (x \in after <=> x > old) /\ (x \in from <=> x >= p)
  BY DEF From
<1> HIDE DEF after, from
<1>4. /\ closed \in [Tasks -> TaskRow]
      /\ closed[u].state = row[u].state /\ closed[u].list = row[u].list
      /\ closed[u].position =
           IF row[u].state = "live" /\ row[u].list = k /\ row[u].position \in after
           THEN row[u].position + (-1) ELSE row[u].position
  BY <1>2, UpdateManyPlaces
<1> HIDE DEF closed
<1>5. /\ opened \in [Tasks -> TaskRow]
      /\ opened[u].state = closed[u].state /\ opened[u].list = closed[u].list
      /\ opened[u].position =
           IF closed[u].state = "live" /\ closed[u].list = l /\ closed[u].position \in from
           THEN closed[u].position + 1 ELSE closed[u].position
  BY <1>4, UpdateManyPlaces
<1> HIDE DEF opened
<1>6. row[u].position \in Int /\ closed[u].position \in Int
  BY <1>2, <1>4 DEF TaskRow
<1>7. CASE u = t
  <2>1. row'[u] = MovedRow(q)
    BY <1>1, <1>5, <1>7
  <2>2. row[t] \in TaskRow /\ row[t].state = "live"
    BY <1>2, Holds DEF OrderInv, Writing
  <2>3. MovedRow(q).state = row[t].state /\ MovedRow(q).list = l /\ MovedRow(q).position = p
    BY <2>2 DEF MovedRow, TaskRow
  <2> QED  BY <1>7, <2>1, <2>3
<1>8. CASE u # t
  <2>1. row'[u] = opened[u]
    BY <1>1, <1>5, <1>8
  <2> QED  BY <1>3, <1>4, <1>5, <1>6, <1>8, <2>1
<1> QED  BY <1>7, <1>8

LEMMA MoveOrder ==
  ASSUME Orderly, OrderInv, TypeOK', NEW r \in Requests, MoveCommit(r)
  PROVE  \E t \in Tasks, k \in Lists, l \in Lists, p \in Nat :
           /\ ListsOf(req[r]) = {k, l}
           /\ \A u \in Tasks : row'[u].state = row[u].state
           /\ IF k = l THEN ReplacedIn(k, t, p)
                       ELSE RemovedFrom(k, t) /\ InsertedIn(l, t, p)
<1> USE DEF OrderInv
<1> DEFINE q == req[r]
<1>1. /\ q.pc = "move" /\ Writing(q) /\ q.list \in Lists
      /\ q.position <= Cardinality(Live(q.list) \ {q.task})
  BY DEF MoveCommit, Writing, PlaceInRange, InRange, TypeOK, RequestOK
<1>2. PICK t \in Tasks, k \in Lists, l \in Lists, old \in Int, p \in Nat :
        t = q.task /\ k = q.seen.list /\ l = q.list /\ old = q.seen.position /\ p = q.position
  BY <1>1, Holds
<1>3. /\ t \in Live(k) /\ ListsOf(q) = {k, l} /\ Places[t] = old
      /\ \A u \in Live(k) : u \in Tasks /\ Places[u] = row[u].position /\ row[u].position \in Int
  <2>1. ListsOf(q) = {k, l}
    BY <1>1, <1>2, ValueAssumption DEF ListsOf
  <2> QED
    BY <1>1, <1>2, <2>1, AtItsPlace
<1>4. Advance(r) /\ InFlight(r) /\ ~ ShiftOthers(r) /\ \A u : ~ Setting(r, u)
  BY <1>1 DEF Advance, InFlight, ShiftOthers, MoveCommit, Setting
<1>5. ASSUME NEW u \in Tasks
      PROVE  /\ row'[u].state = row[u].state
             /\ row'[u].list = IF u = t THEN l ELSE row[u].list
             /\ u = t => row'[u].position = p
             /\ u # t =>
                  LET x == row[u].position
                      c == IF row[u].state = "live" /\ row[u].list = k /\ x > old
                           THEN x - 1 ELSE x
                  IN  row'[u].position =
                        IF row[u].state = "live" /\ row[u].list = l /\ c >= p
                        THEN c + 1 ELSE c
  BY <1>1, <1>2, MovedPlaces DEF MoveCommit
<1>6. ASSUME NEW u \in Tasks, row'[u].list \in {k, l}
      PROVE  Places'[u] = row'[u].position
  <2>1. EffectivePosition(u)' = row'[u].position
    BY <1>3, <1>4, <1>6, PlaceAfter, NotSettingAfter
  <2> QED  BY <2>1 DEF Places
<1>7. ASSUME NEW m \in {k, l}, NEW u \in Live(m)
      PROVE  /\ u \in Tasks /\ row[u].list = m /\ row[u].state = "live"
             /\ Places[u] = row[u].position /\ row[u].position \in Int
  <2>1. u \in Tasks /\ row[u].list = m /\ row[u].state = "live"
    BY DEF Live
  <2>2. EffectivePosition(u) = row[u].position
    BY <1>3, <1>4, <1>7, <2>1, PlaceHeld
  <2> QED  BY <2>1, <2>2 DEF Places, TypeOK, TaskRow
<1>8. Places'[t] = p /\ t \in Tasks /\ row[t].state = "live" /\ row[t].list = k
  BY <1>3, <1>5, <1>6, <1>7
<1>9. IsFiniteSet(Live(l)) /\ Cardinality(Live(l)) \in Nat
  BY LiveFinite
<1>10. CASE k = l
  <2>1. Live(k)' = Live(k)
    BY <1>5, <1>8, <1>10 DEF Live
  <2>2. ASSUME NEW u \in Live(k) \ {t}
        PROVE  LET c == IF Places[u] > Places[t] THEN Places[u] - 1 ELSE Places[u] IN
               Places'[u] = IF c >= p THEN c + 1 ELSE c
    <3>1. /\ u \in Tasks /\ row[u].list = k /\ row[u].state = "live"
          /\ Places[u] = row[u].position
      BY <1>7, <2>2
    <3>2. Places'[u] = row'[u].position
      BY <1>5, <1>6, <2>2, <3>1
    <3> QED  BY <1>3, <1>5, <1>10, <2>2, <3>1, <3>2
  <2>3. Replaced(Live(k), Places, t, p, Places')
    BY <1>8, <2>2 DEF Replaced
  <2>4. p \in 0 .. Cardinality(Live(k)) - 1
    <3>1. Cardinality(Live(l) \ {t}) = Cardinality(Live(l)) - 1
      BY <1>3, <1>9, <1>10, FS_RemoveElement
    <3> QED  BY <1>1, <1>2, <1>9, <1>10, <3>1
  <2>5. ReplacedIn(k, t, p)
    BY <1>3, <2>1, <2>3, <2>4, ReplaceOrder
  <2> QED  BY <1>3, <1>5, <1>10, <2>5
<1>11. CASE k # l
  <2>1. Live(k)' = Live(k) \ {t} /\ Live(l)' = Live(l) \cup {t} /\ t \notin Live(l)
    BY <1>5, <1>8, <1>11 DEF Live
  <2>2. ASSUME NEW u \in Live(k) \ {t}
        PROVE  Places'[u] = IF Places[u] > Places[t] THEN Places[u] - 1 ELSE Places[u]
    <3>1. /\ u \in Tasks /\ row[u].list = k /\ row[u].state = "live"
          /\ Places[u] = row[u].position
      BY <1>7, <2>2
    <3>2. Places'[u] = row'[u].position
      BY <1>5, <1>6, <2>2, <3>1
    <3> QED  BY <1>3, <1>5, <1>11, <2>2, <3>1, <3>2
  <2>3. ASSUME NEW u \in Live(l)
        PROVE  Places'[u] = IF Places[u] >= p THEN Places[u] + 1 ELSE Places[u]
    <3>1. /\ u \in Tasks /\ row[u].list = l /\ row[u].state = "live" /\ u # t
          /\ Places[u] = row[u].position
      BY <1>7, <2>1, <2>3
    <3>2. Places'[u] = row'[u].position
      BY <1>5, <1>6, <3>1
    <3> QED  BY <1>5, <1>11, <3>1, <3>2
  <2>4. p \in 0 .. Cardinality(Live(l))
    <3>1. Live(l) \ {t} = Live(l)
      BY <2>1
    <3> QED  BY <1>1, <1>2, <1>9, <3>1
  <2>5. GapClosed(Live(k), Places, t, Places') /\ GapOpened(Live(l), Places, p, Places')
    BY <2>2, <2>3 DEF GapClosed, GapOpened
  <2>6. RemovedFrom(k, t)
    BY <1>3, <2>1, <2>5, TakeOrder
  <2>7. InsertedIn(l, t, p)
    BY <1>8, <2>1, <2>4, <2>5, InsertOrder
  <2> QED  BY <1>3, <1>5, <1>11, <2>6, <2>7
<1> QED
  BY <1>10, <1>11

-----------------------------------------------------------------------------
(* The invariant *)

\* what a request begins with
LEMMA BeginRange ==
  ASSUME Orderly, OrderInv, NEW r \in Requests, Accept(r)
  PROVE  \E q :
           /\ Begin(r, q) /\ q.pc \notin {"idle", "log"}
           /\ Writing(q) => q.task \in Tasks /\ row[q.task].state = "live" /\ q.seen = row[q.task]
           /\ InRange(q)
           /\ q.pc = "set" => q.position = q.seen.position
<1> USE DEF OrderInv
<1> DEFINE Good(q) ==
             /\ Begin(r, q) /\ q.pc \notin {"idle", "log"}
             /\ Writing(q) => q.task \in Tasks /\ row[q.task].state = "live" /\ q.seen = row[q.task]
             /\ InRange(q)
             /\ q.pc = "set" => q.position = q.seen.position
<1>1. ASSUME NEW t \in Tasks, Found(t)
      PROVE  /\ Read(t) \in Request /\ Read(t).task = t /\ Read(t).seen = row[t]
             /\ Read(t).list = None /\ Read(t).position = 0 /\ row[t].state = "live"
  BY <1>1, ReadType DEF Found, Read, Idle, Request
<1>2. ASSUME NEW l \in Lists, NEW s \in Status, BeginCreate(r, l, s)
      PROVE  \E q : Good(q)
  <2> DEFINE q == [Idle EXCEPT !.pc = "create", !.list = l, !.status = s,
                               !.position = Cardinality(Live(l))]
  <2>1. /\ q.pc = "create" /\ q.seen.list = None /\ q.list = l
        /\ q.position = Cardinality(Live(l))
    BY DEF Idle, NoRow
  <2>2. Begin(r, q)
    BY <1>2 DEF BeginCreate
  <2> HIDE DEF q
  <2>3. Good(q)
    BY <2>1, <2>2 DEF Writing, InRange
  <2> QED  BY <2>3
<1>3. ASSUME NEW t \in Tasks, NEW s, NEW l \in UpdateLists \cup {None}, BeginUpdate(r, t, s, l)
      PROVE  \E q : Good(q)
  <2> DEFINE q == [Read(t) EXCEPT !.pc = "update", !.status = s, !.list = l]
  <2>1. Begin(r, q) /\ Found(t)
    BY <1>3 DEF BeginUpdate
  <2>2. q.pc = "update" /\ q.task = t /\ q.seen = row[t] /\ q.list = None /\ q.position = 0
    BY <1>1, <2>1 DEF Request, Orderly
  <2> HIDE DEF q
  <2>3. Good(q)
    BY <1>1, <2>1, <2>2 DEF Writing, InRange
  <2> QED  BY <2>3
<1>4. ASSUME NEW t \in Tasks, NEW p \in PositionsFor(t, row[t].list),
             BeginUpdatePosition(r, t, p)
      PROVE  \E q : Good(q)
  <2> DEFINE first == IF p = row[t].position THEN "set" ELSE "shift"
             q == [Read(t) EXCEPT !.pc = first, !.position = p]
  <2>1. Begin(r, q) /\ Found(t) /\ first \in {"set", "shift"}
        /\ (first = "set" => p = row[t].position)
    BY <1>4 DEF BeginUpdatePosition
  <2> HIDE DEF first
  <2>2. q.pc = first /\ q.task = t /\ q.seen = row[t] /\ q.list = None /\ q.position = p
    BY <1>1, <2>1 DEF Request
  <2>3. p \in Nat /\ p < Cardinality(Live(row[t].list))
    <3>1. t \in Live(row[t].list)
      BY <1>1, <2>1 DEF Live
    <3>2. /\ Cardinality(Live(row[t].list) \ {t}) = Cardinality(Live(row[t].list)) - 1
          /\ Cardinality(Live(row[t].list)) \in Nat
      BY <3>1, LiveFinite, FS_RemoveElement
    <3> QED  BY <3>2 DEF PositionsFor, Orderly
  <2> HIDE DEF q
  <2>4. Good(q)
    BY <1>1, <2>1, <2>2, <2>3 DEF Writing, InRange
  <2> QED  BY <2>4
<1>5. ASSUME NEW t \in Tasks, BeginRemove(r, t)
      PROVE  \E q : Good(q)
  <2> DEFINE q == [Read(t) EXCEPT !.pc = "remove"]
  <2>1. Begin(r, q) /\ Found(t)
    BY <1>5 DEF BeginRemove
  <2>2. q.pc = "remove" /\ q.task = t /\ q.seen = row[t] /\ q.list = None /\ q.position = 0
    BY <1>1, <2>1 DEF Request
  <2> HIDE DEF q
  <2>3. Good(q)
    BY <1>1, <2>1, <2>2 DEF Writing, InRange
  <2> QED  BY <2>3
<1>6. ASSUME NEW t \in Tasks, NEW l \in Lists, NEW p \in PositionsFor(t, l),
             BeginMove(r, t, l, p)
      PROVE  \E q : Good(q)
  <2> DEFINE q == [Read(t) EXCEPT !.pc = "move", !.list = l, !.position = p]
  <2>1. Begin(r, q) /\ Found(t)
    BY <1>6 DEF BeginMove
  <2>2. q.pc = "move" /\ q.task = t /\ q.seen = row[t] /\ q.list = l /\ q.position = p
    BY <1>1, <2>1 DEF Request
  <2>3. p \in Nat /\ p <= Cardinality(Live(l) \ {t})
    <3>1. Cardinality(Live(l) \ {t}) \in Nat
      BY LiveFinite, FS_RemoveElement, FS_CardinalityType
    <3> QED  BY <3>1 DEF PositionsFor, Orderly
  <2> HIDE DEF q
  <2>4. Good(q)
    BY <1>1, <2>1, <2>2, <2>3 DEF Writing, InRange
  <2> QED  BY <2>4
<1> HIDE DEF Good
<1>7. \E q : Good(q)
  BY <1>2, <1>3, <1>4, <1>5, <1>6 DEF Accept
<1> QED  BY <1>7 DEF Good

LEMMA BeginOrder ==
  ASSUME Orderly, OrderInv, TypeOK', NEW r \in Requests, Accept(r)
  PROVE  /\ OrderInv' /\ UNCHANGED row
         /\ \A l \in Lists : InOrder(l)' = InOrder(l)
<1> USE DEF OrderInv
<1>1. PICK q :
        /\ Begin(r, q) /\ q.pc \notin {"idle", "log"}
        /\ Writing(q) => q.task \in Tasks /\ row[q.task].state = "live" /\ q.seen = row[q.task]
        /\ InRange(q)
        /\ q.pc = "set" => q.position = q.seen.position
  BY BeginRange
<1>2. /\ ~ InFlight(r) /\ row' = row
      /\ req'[r] = q /\ \A u \in Requests \ {r} : req'[u] = req[u]
      /\ \A u \in Requests : InFlight(u) => ListsOf(req[u]) \cap ListsOf(q) = {}
  BY <1>1 DEF Begin, Isolated, Orderly, TypeOK
<1>3. ListsApart'
  BY <1>2 DEF ListsApart, InFlight
<1>4. PlaceRead'
  BY <1>1, <1>2 DEF PlaceRead
<1>5. \A l : Live(l)' = Live(l)
  BY <1>2 DEF Live
<1>6. PlaceInRange'
  <2>1. ASSUME NEW u \in Requests
        PROVE  InRange(req[u])'
    <3>1. CASE u = r
      BY <1>1, <1>2, <1>5, <3>1 DEF InRange
    <3>2. CASE u # r
      BY <1>2, <1>5, <3>2 DEF InRange, PlaceInRange
    <3> QED  BY <3>1, <3>2
  <2> QED  BY <2>1 DEF PlaceInRange
<1>7. ASSUME NEW l \in Lists, NEW t \in Live(l)
      PROVE  EffectivePosition(t)' = EffectivePosition(t)
  <2>1. t \in Tasks /\ row[t].list = l
    BY DEF Live
  <2>2. ~ Setting(r, t) /\ \A u \in Requests \ {r} : Setting(u, t)' <=> Setting(u, t)
    BY <1>2 DEF Setting, InFlight
  <2>3. CASE Setting(r, t)'
    <3>1. q.pc = "set" /\ q.task = t /\ q.seen.list = l /\ q.position = row[t].position
      BY <1>1, <1>2, <2>1, <2>3 DEF Setting, Writing
    <3>2. l \in ListsOf(q)
      BY <3>1, ValueAssumption DEF ListsOf
    <3>3. \A u \in Requests : ~ Setting(u, t)
      BY <1>2, <2>1, <3>2, SetPlace DEF Setting, InFlight
    <3> QED
      BY <1>2, <1>3, <1>4, <2>1, <2>3, <3>1, <3>3, RowPlace, SetPlaceAfter
  <2>4. CASE ~ Setting(r, t)' /\ \E u \in Requests : Setting(u, t)
    <3>1. PICK u \in Requests : Setting(u, t) /\ u # r
      BY <2>2, <2>4
    <3> QED
      BY <1>2, <1>3, <1>4, <2>1, <2>2, <3>1, SetPlace, SetPlaceAfter
  <2>5. CASE ~ Setting(r, t)' /\ \A u \in Requests : ~ Setting(u, t)
    BY <1>2, <2>2, <2>5, RowPlace, RowPlaceAfter
  <2> QED  BY <2>3, <2>4, <2>5
<1>8. \A l \in Lists : InOrder(l)' = InOrder(l) /\ Listed(InOrder(l)', Live(l)', Places')
  BY <1>5, <1>7, SameOrder
<1>9. Numbered'
  BY <1>8 DEF Numbered
<1> QED
  BY <1>2, <1>3, <1>4, <1>6, <1>8, <1>9

LEMMA NoFailures == ASSUME Orderly, TypeOK, NEW r \in Requests PROVE ~ Fail(r)
BY DEF Orderly, TypeOK, Fail

\* a statement of a handler
LEMMA AdvanceOrder ==
  ASSUME Orderly, OrderInv, TypeOK', NEW r \in Requests, Advance(r)
  PROVE  OrderInv'
<1> USE DEF OrderInv
<1>1. ASSUME NEW l \in Lists
      PROVE  Listed(InOrder(l)', Live(l)', Places')
  <2>1. CASE l \notin ListsOf(req[r])
    BY <2>1, OrderElsewhere
  <2>2. CASE l \in ListsOf(req[r]) /\ CreateInsert(r)
    BY <2>2, CreateOrder
  <2>3. CASE UpdateWrite(r) \/ SetPosition(r) \/ WriteLog(r)
    BY <2>3, QuietOrder
  <2>4. CASE l \in ListsOf(req[r]) /\ ShiftOthers(r)
    BY <2>4, ShiftOrder DEF ReplacedIn
  <2>5. CASE l \in ListsOf(req[r]) /\ RemoveCommit(r)
    BY <2>5, RemoveOrder DEF RemovedFrom
  <2>6. CASE l \in ListsOf(req[r]) /\ MoveCommit(r)
    BY <2>6, MoveOrder DEF ReplacedIn, RemovedFrom, InsertedIn
  <2> QED  BY <2>1, <2>2, <2>3, <2>4, <2>5, <2>6 DEF Advance
<1>2. Numbered'
  BY <1>1 DEF Numbered
<1> QED
  BY <1>2, HeldAfter, RangeAfter

LEMMA OrderInit == Init => OrderInv
<1> SUFFICES ASSUME Init  PROVE OrderInv
  OBVIOUS
<1>1. TypeOK
  BY InitType
<1>2. \A r \in Requests : req[r].pc = "idle"
  BY DEF Init, Idle
<1>3. ListsApart /\ PlaceRead /\ PlaceInRange
  BY <1>2 DEF ListsApart, InFlight, PlaceRead, Writing, PlaceInRange, InRange
<1>4. ASSUME NEW l \in Lists
      PROVE  Live(l) = {} /\ Cardinality(Live(l)) = 0
  <2>1. Live(l) = {}
    BY DEF Live, Init, NoRow
  <2> QED  BY <2>1, FS_EmptySet
<1>5. ASSUME NEW l \in Lists
      PROVE  Listed(InOrder(l), Live(l), Places)
  <2>1. InOrder(l) = [i \in 1 .. 0 |-> TaskAt(l, i - 1)]
    BY <1>4 DEF InOrder
  <2> QED  BY <1>4, <2>1 DEF Listed
<1> QED
  BY <1>1, <1>3, <1>5 DEF OrderInv, Numbered

LEMMA OrderNext == ASSUME Orderly PROVE OrderInv /\ [Next]_vars => OrderInv'
<1> SUFFICES ASSUME OrderInv, [Next]_vars  PROVE OrderInv'
  OBVIOUS
<1>1. TypeOK'
  BY NextType DEF OrderInv
<1>2. CASE Next
  <2>1. PICK r \in Requests : Accept(r) \/ Advance(r)
    BY <1>2, NoFailures DEF Next, OrderInv
  <2> QED  BY <1>1, <2>1, BeginOrder, AdvanceOrder
<1>3. CASE UNCHANGED vars
  <2> USE DEF OrderInv
  <2>1. row' = row /\ req' = req
    BY <1>3 DEF vars
  <2>2. ListsApart' /\ PlaceRead' /\ \A l : Live(l)' = Live(l)
    BY <2>1 DEF ListsApart, InFlight, PlaceRead, Live
  <2>3. PlaceInRange'
    BY <2>1, <2>2 DEF PlaceInRange, InRange
  <2>4. ASSUME NEW t \in Tasks
        PROVE  EffectivePosition(t)' = EffectivePosition(t)
    <3>1. \A u \in Requests : Setting(u, t)' <=> Setting(u, t)
      BY <2>1 DEF Setting
    <3>2. CASE \E u \in Requests : Setting(u, t)
      BY <1>1, <2>1, <2>2, <3>1, <3>2, SetPlace, SetPlaceAfter
    <3>3. CASE \A u \in Requests : ~ Setting(u, t)
      BY <2>1, <3>1, <3>3, RowPlace, RowPlaceAfter
    <3> QED  BY <3>2, <3>3
  <2>5. Numbered'
    BY <2>2, <2>4, SameOrder DEF Numbered, Live
  <2> QED  BY <1>1, <2>2, <2>3, <2>5
<1> QED  BY <1>2, <1>3

(***************************************************************************)
(* While no two requests in flight touch the same list, and no list is     *)
(* mapped to a status, the positions of the live tasks of a list are       *)
(* 0..n-1, except between the two statements of updatePosition on that     *)
(* list: for any number of tasks, lists and requests.                      *)
(***************************************************************************)
THEOREM PositionsStayDense ==
  ASSUME Orderly
  PROVE  Spec => []PositionsDense
<1>1. OrderInv => PositionsDense
  <2> SUFFICES ASSUME OrderInv, NEW l \in Lists, ~ BeingReordered(l)
               PROVE  {row[t].position : t \in Live(l)} = 0 .. Cardinality(Live(l)) - 1
    BY DEF PositionsDense
  <2> DEFINE n == Cardinality(Live(l))
             s == InOrder(l)
  <2>1. /\ s \in [1 .. n -> Live(l)]
        /\ \A i \in 1 .. n : Places[s[i]] = i - 1
        /\ \A t \in Live(l) : Places[t] \in 0 .. n - 1
    BY DEF OrderInv, Numbered, Listed
  <2>2. ASSUME NEW t \in Live(l)
        PROVE  Places[t] = row[t].position
    <3>1. t \in Tasks /\ row[t].list = l
      BY DEF Live
    <3>2. \A r \in Requests : ~ Setting(r, t)
      BY <3>1, SetPlace DEF OrderInv, BeingReordered, Setting
    <3> QED  BY <3>1, <3>2, RowPlace DEF Places
  <2>3. n \in Nat
    BY LiveFinite
  <2> HIDE DEF n, s
  <2>4. ASSUME NEW x \in 0 .. n - 1
        PROVE  \E t \in Live(l) : row[t].position = x
    <3>1. x + 1 \in 1 .. n /\ x + 1 - 1 = x
      BY <2>3
    <3>2. s[x + 1] \in Live(l) /\ Places[s[x + 1]] = x
      BY <2>1, <3>1
    <3> QED  BY <2>2, <3>2
  <2>5. {row[t].position : t \in Live(l)} = 0 .. n - 1
    BY <2>1, <2>2, <2>4
  <2> QED  BY <2>5 DEF n
<1>2. Init => OrderInv
  BY OrderInit
<1>3. OrderInv /\ [Next]_vars => OrderInv'
  BY OrderNext
<1> QED
  BY <1>1, <1>2, <1>3, PTL DEF Spec

-----------------------------------------------------------------------------
(* The implementation of TaskOrder *)

Ordered == [l \in Lists |-> InOrder(l)]
Deleted == {t \in Tasks : row[t].state = "deleted"}

\* the operators of SequencesExt, in TaskOrder as here
LEMMA SameOperators ==
  /\ \A s, i : Order!RemoveAt(s, i) = RemoveAt(s, i)
  /\ \A s, i, e : Order!InsertAt(s, i, e) = InsertAt(s, i, e)
BY DEF Order!RemoveAt, RemoveAt, Order!InsertAt, InsertAt

\* the tasks placed in TaskOrder are the live ones
LEMMA PlacedIsLive ==
  ASSUME OrderInv, NEW t \in Tasks, Order!Placed(t)
  PROVE  row[t].state = "live"
<1>1. PICK l \in Lists : t \in Order!ToSet(Ordered[l])
  BY DEF Order!Placed, Ordered
<1>2. Ordered[l] = InOrder(l)
  BY DEF Ordered
<1>3. InOrder(l) \in [1 .. Cardinality(Live(l)) -> Live(l)]
  BY DEF OrderInv, Numbered, Listed
<1>4. t \in Live(l)
  BY <1>1, <1>2, <1>3 DEF Order!ToSet
<1> QED
  BY <1>4 DEF Live

LEMMA SameDeleted ==
  ASSUME \A u \in Tasks : row'[u].state = row[u].state
  PROVE  Deleted' = Deleted
BY DEF Deleted

\* a list changed by itself
LEMMA OneList ==
  ASSUME NEW k \in Lists, NEW s, InOrder(k)' = s,
         \A l \in Lists \ {k} : InOrder(l)' = InOrder(l)
  PROVE  Ordered' = [Ordered EXCEPT ![k] = s]
BY DEF Ordered

LEMMA CreateMaps ==
  ASSUME Orderly, OrderInv, TypeOK', NEW r \in Requests, CreateInsert(r)
  PROVE  Order!Next
<1>1. PICK t \in Tasks, l \in Lists :
        /\ ListsOf(req[r]) = {l}
        /\ row[t].state = "absent" /\ row'[t].state = "live"
        /\ \A u \in Tasks \ {t} : row'[u] = row[u]
        /\ InOrder(l)' = Append(InOrder(l), t)
  BY CreateOrder
<1>2. \A m \in Lists \ {l} : InOrder(m)' = InOrder(m)
  BY <1>1, OrderElsewhere DEF Advance
<1>3. Ordered' = [Ordered EXCEPT ![l] = Append(InOrder(l), t)]
  BY <1>1, <1>2, OneList
<1>4. Ordered[l] = InOrder(l)
  BY DEF Ordered
<1>5. Deleted' = Deleted /\ t \notin Deleted
  BY <1>1 DEF Deleted
<1>6. ~ Order!Placed(t)
  BY <1>1, PlacedIsLive
<1>7. Order!AppendTask(t, l)
  BY <1>3, <1>4, <1>5, <1>6 DEF Order!AppendTask, Ordered, Deleted
<1> QED
  BY <1>7 DEF Order!Next

\* the order without the i-th task of list k
LEMMA WithoutIs ==
  ASSUME NEW k \in Lists, NEW i
  PROVE  Order!Without(k, i) = [Ordered EXCEPT ![k] = RemoveAt(InOrder(k), i)]
BY SameOperators DEF Order!Without, Ordered

LEMMA RemoveMaps ==
  ASSUME Orderly, OrderInv, TypeOK', NEW r \in Requests, RemoveCommit(r)
  PROVE  Order!Next
<1>1. PICK t \in Tasks, k \in Lists :
        /\ ListsOf(req[r]) = {k}
        /\ row[t].state = "live" /\ row'[t].state = "deleted"
        /\ \A u \in Tasks \ {t} : row'[u].state = row[u].state
        /\ RemovedFrom(k, t)
  BY RemoveOrder
<1>2. PICK i \in 1 .. Len(InOrder(k)) :
        t = InOrder(k)[i] /\ InOrder(k)' = RemoveAt(InOrder(k), i)
  BY <1>1 DEF RemovedFrom
<1>3. \A m \in Lists \ {k} : InOrder(m)' = InOrder(m)
  BY <1>1, OrderElsewhere DEF Advance
<1>4. Ordered' = Order!Without(k, i)
  BY <1>2, <1>3, OneList, WithoutIs
<1>5. Ordered[k] = InOrder(k)
  BY DEF Ordered
<1>6. Deleted' = Deleted \cup {t}
  BY <1>1 DEF Deleted
<1>7. Order!Retire(k, i)
  BY <1>2, <1>4, <1>5, <1>6 DEF Order!Retire, Ordered, Deleted
<1>8. i \in 1 .. Len(Ordered[k])
  BY <1>5
<1> QED
  BY <1>7, <1>8 DEF Order!Next, Ordered

\* a task that is put somewhere else
LEMMA PlaceMaps ==
  ASSUME NEW k \in Lists, NEW l \in Lists, NEW i \in 1 .. Len(InOrder(k)), NEW t,
         t = InOrder(k)[i], NEW j,
         LET rest == [Ordered EXCEPT ![k] = RemoveAt(InOrder(k), i)] IN
         /\ j \in 1 .. Len(rest[l]) + 1
         /\ Ordered' = [rest EXCEPT ![l] = InsertAt(rest[l], j, t)],
         Deleted' = Deleted
  PROVE  Order!Next
<1> DEFINE rest == Order!Without(k, i)
<1>1. rest = [Ordered EXCEPT ![k] = RemoveAt(InOrder(k), i)]
  BY WithoutIs
<1>2. Ordered[k] = InOrder(k)
  BY DEF Ordered
<1> HIDE DEF rest
<1>3. j \in 1 .. Len(rest[l]) + 1 /\ Ordered' = [rest EXCEPT ![l] = InsertAt(rest[l], j, t)]
  BY <1>1
<1>4. Order!Place(k, i, l, j)
  BY <1>2, <1>3, SameOperators DEF Order!Place, Ordered, Deleted, rest
<1>5. i \in 1 .. Len(Ordered[k])
  BY <1>2
<1> QED
  BY <1>3, <1>4, <1>5 DEF Order!Next, Ordered, rest

LEMMA ReplaceMaps ==
  ASSUME NEW k \in Lists, NEW t, NEW p, ReplacedIn(k, t, p),
         \A m \in Lists \ {k} : InOrder(m)' = InOrder(m), Deleted' = Deleted
  PROVE  Order!Next
<1>1. PICK i \in 1 .. Len(InOrder(k)) :
        /\ t = InOrder(k)[i]
        /\ p + 1 \in 1 .. Len(RemoveAt(InOrder(k), i)) + 1
        /\ InOrder(k)' = InsertAt(RemoveAt(InOrder(k), i), p + 1, t)
  BY DEF ReplacedIn
<1> DEFINE w == RemoveAt(InOrder(k), i)
           rest == [Ordered EXCEPT ![k] = w]
<1>2. rest[k] = w
  BY DEF Ordered
<1>3. Ordered' = [Ordered EXCEPT ![k] = InsertAt(w, p + 1, t)]
  BY <1>1, OneList
<1>4. [rest EXCEPT ![k] = InsertAt(w, p + 1, t)] = [Ordered EXCEPT ![k] = InsertAt(w, p + 1, t)]
  BY DEF Ordered
<1>5. /\ p + 1 \in 1 .. Len(rest[k]) + 1
      /\ Ordered' = [rest EXCEPT ![k] = InsertAt(rest[k], p + 1, t)]
  BY <1>1, <1>2, <1>3, <1>4
<1> QED
  BY <1>1, <1>5, PlaceMaps

LEMMA TransferMaps ==
  ASSUME NEW k \in Lists, NEW l \in Lists, k # l, NEW t, NEW p,
         RemovedFrom(k, t), InsertedIn(l, t, p),
         \A m \in Lists \ {k, l} : InOrder(m)' = InOrder(m), Deleted' = Deleted
  PROVE  Order!Next
<1>1. PICK i \in 1 .. Len(InOrder(k)) :
        t = InOrder(k)[i] /\ InOrder(k)' = RemoveAt(InOrder(k), i)
  BY DEF RemovedFrom
<1>2. /\ p + 1 \in 1 .. Len(InOrder(l)) + 1
      /\ InOrder(l)' = InsertAt(InOrder(l), p + 1, t)
  BY DEF InsertedIn
<1> DEFINE w == RemoveAt(InOrder(k), i)
           v == InsertAt(InOrder(l), p + 1, t)
           rest == [Ordered EXCEPT ![k] = w]
<1>3. rest[l] = InOrder(l)
  BY DEF Ordered
<1>4. Ordered' = [rest EXCEPT ![l] = v]
  <2>1. InOrder(k)' = w /\ InOrder(l)' = v
    BY <1>1, <1>2
  <2> HIDE DEF w, v
  <2> QED  BY <2>1 DEF Ordered
<1>5. /\ p + 1 \in 1 .. Len(rest[l]) + 1
      /\ Ordered' = [rest EXCEPT ![l] = InsertAt(rest[l], p + 1, t)]
  BY <1>2, <1>3, <1>4
<1> QED
  BY <1>1, <1>5, PlaceMaps

LEMMA ShiftMaps ==
  ASSUME Orderly, OrderInv, TypeOK', NEW r \in Requests, ShiftOthers(r)
  PROVE  Order!Next
<1>1. PICK t \in Tasks, k \in Lists, p \in Nat :
        /\ ListsOf(req[r]) = {k}
        /\ \A u \in Tasks : row'[u].state = row[u].state
        /\ ReplacedIn(k, t, p)
  BY ShiftOrder
<1>2. \A m \in Lists \ {k} : InOrder(m)' = InOrder(m)
  BY <1>1, OrderElsewhere DEF Advance
<1> QED
  BY <1>1, <1>2, SameDeleted, ReplaceMaps

LEMMA MoveMaps ==
  ASSUME Orderly, OrderInv, TypeOK', NEW r \in Requests, MoveCommit(r)
  PROVE  Order!Next
<1>1. PICK t \in Tasks, k \in Lists, l \in Lists, p \in Nat :
        /\ ListsOf(req[r]) = {k, l}
        /\ \A u \in Tasks : row'[u].state = row[u].state
        /\ IF k = l THEN ReplacedIn(k, t, p)
                    ELSE RemovedFrom(k, t) /\ InsertedIn(l, t, p)
  BY MoveOrder
<1>2. \A m \in Lists \ {k, l} : InOrder(m)' = InOrder(m)
  BY <1>1, OrderElsewhere DEF Advance
<1>3. CASE k = l
  BY <1>1, <1>2, <1>3, SameDeleted, ReplaceMaps
<1>4. CASE k # l
  BY <1>1, <1>2, <1>4, SameDeleted, TransferMaps
<1> QED
  BY <1>3, <1>4

LEMMA QuietMaps ==
  ASSUME Orderly, OrderInv, TypeOK', NEW r \in Requests,
         UpdateWrite(r) \/ SetPosition(r) \/ WriteLog(r) \/ Accept(r)
  PROVE  UNCHANGED <<Ordered, Deleted>>
<1>1. /\ \A l \in Lists : InOrder(l)' = InOrder(l)
      /\ Lists = {} \/ \A t \in Tasks : row'[t].state = row[t].state
  BY QuietOrder, BeginOrder
<1>2. \A t \in Tasks : row'[t].state = row[t].state
  <2>1. CASE Lists = {}
    <3>1. \A t \in Tasks : row[t] = NoRow /\ row'[t] = NoRow
      BY <2>1 DEF OrderInv, TypeOK, RowOK
    <3> QED  BY <3>1
  <2> QED  BY <1>1, <2>1
<1> QED
  BY <1>1, <1>2, SameDeleted DEF Ordered

LEMMA OrderMaps ==
  ASSUME Orderly, OrderInv, [Next]_vars
  PROVE  [Order!Next]_<<Ordered, Deleted>>
<1>1. TypeOK'
  BY NextType DEF OrderInv
<1>2. CASE Next
  <2>1. PICK r \in Requests : Accept(r) \/ Advance(r)
    BY <1>2, NoFailures DEF Next, OrderInv
  <2>2. CASE Accept(r) \/ UpdateWrite(r) \/ SetPosition(r) \/ WriteLog(r)
    BY <1>1, <2>2, QuietMaps
  <2>3. CASE CreateInsert(r) \/ ShiftOthers(r) \/ RemoveCommit(r) \/ MoveCommit(r)
    BY <1>1, <2>3, CreateMaps, ShiftMaps, RemoveMaps, MoveMaps
  <2> QED  BY <2>1, <2>2, <2>3 DEF Advance
<1>3. CASE UNCHANGED vars
  <2>1. row' = row /\ req' = req
    BY <1>3 DEF vars
  <2>2. OrderInv'
    BY OrderNext
  <2>3. \A l \in Lists : InOrder(l)' = InOrder(l)
    BY <1>1, <2>1 DEF InOrder, TaskAt, Live, EffectivePosition
  <2> QED  BY <2>1, <2>3, SameDeleted DEF Ordered
<1> QED  BY <1>2, <1>3

(***************************************************************************)
(* On lists without mapped status, and while no two requests in flight     *)
(* touch the same list, the handlers of TaskService implement TaskOrder,   *)
(* for any number of tasks, lists and requests.                            *)
(***************************************************************************)
THEOREM OrderImplemented ==
  ASSUME Orderly
  PROVE  Spec => ImplementsTaskOrder
<1>1. Init => OrderInv /\ Order!Init
  <2> SUFFICES ASSUME Init PROVE OrderInv /\ Order!Init
    OBVIOUS
  <2>1. OrderInv
    BY OrderInit
  <2>2. \A l \in Lists : InOrder(l) = <<>>
    <3>1. ASSUME NEW l \in Lists PROVE InOrder(l) = <<>>
      <4>1. Live(l) = {}
        BY DEF Live, Init, NoRow
      <4>2. InOrder(l) = [i \in 1 .. 0 |-> TaskAt(l, i - 1)]
        BY <4>1, FS_EmptySet DEF InOrder
      <4> QED  BY <4>2
    <3> QED  BY <3>1
  <2>3. Deleted = {}
    BY DEF Deleted, Init, NoRow
  <2> QED  BY <2>1, <2>2, <2>3 DEF Order!Init, Deleted
<1>2. OrderInv /\ [Next]_vars
        => OrderInv' /\ [Order!Next]_<<[l \in Lists |-> InOrder(l)],
                                       {t \in Tasks : row[t].state = "deleted"}>>
  BY OrderNext, OrderMaps DEF Ordered, Deleted
<1> HIDE DEF OrderInv
<1> QED
  BY <1>1, <1>2, PTL DEF Spec, ImplementsTaskOrder, Order!Spec, Order!ordering

=============================================================================
