------------------------------ MODULE StreamsProofs ------------------------------
(***************************************************************************)
(* Proofs about what the driver hands to its callers: the rows of Streams, *)
(* the rows and the transaction of the DB-API over them, and what the      *)
(* notification manager emits.                                             *)
(***************************************************************************)
EXTENDS DbApi, Notifications, InductionLemmas, SequenceTheorems


Upto(n) == [i \in 1..n |-> i]

\* A sequence of groups that holds the rows a + 1 to b, in order and each once.
Split(a, groups, b) ==
  \E cut \in [0..Len(groups) -> a..b] :
    /\ cut[0] = a /\ cut[Len(groups)] = b
    /\ \A i \in 1..Len(groups) : cut[i - 1] <= cut[i] /\ groups[i] = (cut[i - 1] + 1)..cut[i]

-----------------------------------------------------------------------------
(* Intervals of rows *)

LEMMA IntervalSize ==
  ASSUME NEW a \in Nat, NEW b \in Nat, a <= b
  PROVE  IsFiniteSet((a + 1)..b) /\ Cardinality((a + 1)..b) = b - a
<1>1. a + 1 \in Int /\ b \in Int
  OBVIOUS
<1>2. Cardinality((a + 1)..b) = IF a + 1 > b THEN 0 ELSE b - (a + 1) + 1
  BY <1>1, FS_Interval
<1>3. IsFiniteSet((a + 1)..b)
  BY <1>1, FS_Interval
<1>4. (IF a + 1 > b THEN 0 ELSE b - (a + 1) + 1) = b - a
  OBVIOUS
<1> QED BY <1>2, <1>3, <1>4

LEMMA InOrderInterval ==
  ASSUME NEW a \in Nat, NEW b \in Nat, a <= b
  PROVE  InOrder((a + 1)..b) = [i \in 1..(b - a) |-> a + i]
<1> DEFINE rows == (a + 1)..b
<1>1. Cardinality(rows) = b - a
  BY IntervalSize
<1>2. ASSUME NEW r \in rows
      PROVE  Cardinality({q \in rows : q < r}) = r - a - 1
  <2>1. {q \in rows : q < r} = (a + 1)..(r - 1)
    OBVIOUS
  <2>2. r - 1 \in Nat /\ a <= r - 1
    OBVIOUS
  <2>3. Cardinality((a + 1)..(r - 1)) = (r - 1) - a
    BY <2>2, IntervalSize
  <2>4. (r - 1) - a = r - a - 1
    OBVIOUS
  <2> HIDE DEF rows
  <2> QED BY <2>1, <2>3, <2>4
<1>3. ASSUME NEW i \in 1..(b - a)
      PROVE  (CHOOSE r \in rows : Cardinality({q \in rows : q < r}) = i - 1) = a + i
  <2>1. a + i \in rows
    OBVIOUS
  <2>2. Cardinality({q \in rows : q < a + i}) = i - 1
    <3>1. Cardinality({q \in rows : q < a + i}) = (a + i) - a - 1
      BY <2>1, <1>2
    <3> QED BY <3>1
  <2>3. ASSUME NEW r \in rows, Cardinality({q \in rows : q < r}) = i - 1
        PROVE  r = a + i
    <3>1. r - a - 1 = i - 1
      BY <2>3, <1>2
    <3> QED BY <3>1
  <2> HIDE DEF rows
  <2> QED BY <2>1, <2>2, <2>3
<1> HIDE DEF rows
<1>4. InOrder(rows) = [i \in 1..(b - a) |-> CHOOSE r \in rows : Cardinality({q \in rows : q < r}) = i - 1]
  BY <1>1 DEF InOrder
<1>5. InOrder(rows) = [i \in 1..(b - a) |-> a + i]
  BY <1>3, <1>4
<1> QED BY <1>5 DEF rows

LEMMA UptoIsSeq ==
  ASSUME NEW n \in Nat
  PROVE  Upto(n) \in Seq(Nat) /\ Len(Upto(n)) = n /\ \A i \in 1..n : Upto(n)[i] = i
  BY DEF Upto

LEMMA ReturnsUpto ==
  ASSUME NEW a \in Nat, NEW b \in Nat, a <= b
  PROVE  Upto(a) \o InOrder((a + 1)..b) = Upto(b)
<1> DEFINE t == [i \in 1..(b - a) |-> a + i]
<1>1. InOrder((a + 1)..b) = t
  BY InOrderInterval
<1>2. t \in Seq(Nat) /\ Len(t) = b - a
  OBVIOUS
<1>3. Upto(a) \in Seq(Nat) /\ Len(Upto(a)) = a
  BY UptoIsSeq
<1>4. Upto(b) \in Seq(Nat) /\ Len(Upto(b)) = b /\ \A i \in 1..b : Upto(b)[i] = i
  BY UptoIsSeq
<1> HIDE DEF t
<1> DEFINE u == Upto(a)
<1>5. /\ u \o t \in Seq(Nat) /\ Len(u \o t) = Len(u) + Len(t)
      /\ \A i \in 1..(Len(u) + Len(t)) : (u \o t)[i] = IF i <= Len(u) THEN u[i] ELSE t[i - Len(u)]
  <2>1. u \in Seq(Nat)
    BY <1>3
  <2> HIDE DEF u
  <2> QED BY <1>2, <2>1, ConcatProperties
<1>6. a + (b - a) = b
  OBVIOUS
<1>7. ASSUME NEW i \in 1..b PROVE (u \o t)[i] = i
  <2>1. CASE i <= a
    BY <2>1, <1>2, <1>3, <1>5, <1>6, UptoIsSeq
  <2>2. CASE ~(i <= a)
    <3>1. t[i - a] = i
      BY <2>2 DEF t
    <3> QED BY <2>2, <3>1, <1>2, <1>3, <1>5, <1>6
  <2> QED BY <2>1, <2>2
<1>8. u \o t = Upto(b)
  <2>1. Len(u \o t) = b
    BY <1>2, <1>3, <1>5, <1>6
  <2> HIDE DEF u
  <2> QED BY <1>4, <1>5, <1>7, <2>1, SeqEqual
<1> QED BY <1>1, <1>8

-----------------------------------------------------------------------------
(* Sequences of groups *)

LEMMA SplitNone ==
  ASSUME NEW a \in Nat, NEW b \in Nat
  PROVE  Split(a, <<>>, b) <=> a = b
<1>1. ASSUME Split(a, <<>>, b) PROVE a = b
  BY <1>1 DEF Split
<1>2. ASSUME a = b PROVE Split(a, <<>>, b)
  <2> DEFINE c == [i \in 0..0 |-> a]
  <2>1. c \in [0..Len(<<>>) -> a..b] /\ c[0] = a /\ c[Len(<<>>)] = b
    BY <1>2
  <2> HIDE DEF c
  <2> QED BY <2>1 DEF Split
<1> QED BY <1>1, <1>2

LEMMA SplitAppend ==
  ASSUME NEW a \in Nat, NEW b \in Nat, NEW c \in Nat, b <= c, a <= b, NEW gs \in Seq(SUBSET Nat), Split(a, gs, b)
  PROVE  Split(a, Append(gs, (b + 1)..c), c)
<1> DEFINE n == Len(gs)
           hs == Append(gs, (b + 1)..c)
<1>1. PICK cut \in [0..n -> a..b] :
        /\ cut[0] = a /\ cut[n] = b
        /\ \A i \in 1..n : cut[i - 1] <= cut[i] /\ gs[i] = (cut[i - 1] + 1)..cut[i]
  BY DEF Split
<1>2. n \in Nat /\ Len(hs) = n + 1 /\ hs[n + 1] = (b + 1)..c /\ \A i \in 1..n : hs[i] = gs[i]
  OBVIOUS
<1> DEFINE k == [i \in 0..(n + 1) |-> IF i <= n THEN cut[i] ELSE c]
<1> HIDE DEF n, hs
<1>3. k \in [0..(n + 1) -> a..c]
  BY <1>1, <1>2
<1>4. k[0] = a /\ k[n + 1] = c /\ \A i \in 0..n : k[i] = cut[i]
  BY <1>1, <1>2
<1> HIDE DEF k
<1>5. ASSUME NEW i \in 1..(n + 1) PROVE k[i - 1] <= k[i] /\ hs[i] = (k[i - 1] + 1)..k[i]
  <2>1. CASE i \in 1..n
    <3>1. i \in 0..n /\ i - 1 \in 0..n
      BY <2>1, <1>2
    <3> QED BY <2>1, <3>1, <1>1, <1>2, <1>4
  <2>2. CASE i = n + 1
    <3>1. k[i - 1] = b /\ k[i] = c
      BY <2>2, <1>1, <1>2, <1>4
    <3> QED BY <3>1, <2>2, <1>2
  <2> QED BY <2>1, <2>2, <1>2
<1>6. Split(a, hs, c)
  BY <1>2, <1>3, <1>4, <1>5 DEF Split
<1> QED BY <1>6 DEF hs

LEMMA SplitHead ==
  ASSUME NEW a \in Nat, NEW b \in Nat, NEW gs \in Seq(SUBSET Nat), gs # <<>>, Split(a, gs, b)
  PROVE  \E c \in a..b : Head(gs) = (a + 1)..c /\ Split(c, Tail(gs), b)
<1> DEFINE n == Len(gs)
           hs == Tail(gs)
<1>1. PICK cut \in [0..n -> a..b] :
        /\ cut[0] = a /\ cut[n] = b
        /\ \A i \in 1..n : cut[i - 1] <= cut[i] /\ gs[i] = (cut[i - 1] + 1)..cut[i]
  BY DEF Split
<1>2. n \in Nat \ {0} /\ Len(hs) = n - 1 /\ (\A i \in 1..(n - 1) : hs[i] = gs[i + 1]) /\ Head(gs) = gs[1]
  OBVIOUS
<1> HIDE DEF n, hs
<1>3. cut[1] \in a..b /\ Head(gs) = (a + 1)..cut[1]
  <2>1. 1 \in 1..n /\ 1 \in 0..n /\ 1 - 1 = 0
    BY <1>2
  <2> QED BY <2>1, <1>1, <1>2
<1> DEFINE T == {j \in Nat : j + 1 <= n => cut[1] <= cut[j + 1]}
<1>4. Nat \subseteq T
  <2>1. 0 \in T
    BY <1>1, <1>2
  <2>2. ASSUME NEW j \in Nat, j \in T PROVE j + 1 \in T
    <3>1. SUFFICES ASSUME j + 2 <= n PROVE cut[1] <= cut[j + 2]
      OBVIOUS
    <3>2. cut[1] <= cut[j + 1]
      BY <2>2, <3>1, <1>2
    <3>3. j + 2 \in 1..n /\ (j + 2) - 1 = j + 1 /\ j + 1 \in 0..n /\ j + 2 \in 0..n /\ 1 \in 0..n
      BY <3>1, <1>2
    <3>4. cut[j + 1] <= cut[j + 2]
      BY <3>3, <1>1
    <3>5. cut[1] \in Int /\ cut[j + 1] \in Int /\ cut[j + 2] \in Int
      BY <3>3, <1>1
    <3> QED BY <3>2, <3>4, <3>5
  <2> HIDE DEF T
  <2> QED BY <2>1, <2>2, NaturalInduction
<1> DEFINE k == [i \in 0..(n - 1) |-> cut[i + 1]]
<1>5. \A i \in 0..(n - 1) : cut[i + 1] \in cut[1]..b
  <2> TAKE i \in 0..(n - 1)
  <2>1. i \in T /\ i + 1 \in 0..n
    BY <1>4, <1>2
  <2>2. cut[1] <= cut[i + 1] /\ cut[i + 1] \in a..b
    BY <2>1, <1>1, <1>2
  <2> QED BY <2>2, <1>3
<1>6. k \in [0..(n - 1) -> cut[1]..b] /\ \A i \in 0..(n - 1) : k[i] = cut[i + 1]
  BY <1>5
<1> HIDE DEF k, T
<1>7. k[0] = cut[1] /\ k[n - 1] = b
  <2>1. 0 \in 0..(n - 1) /\ n - 1 \in 0..(n - 1) /\ (n - 1) + 1 = n
    BY <1>2
  <2> QED BY <2>1, <1>1, <1>6
<1>8. ASSUME NEW i \in 1..(n - 1) PROVE k[i - 1] <= k[i] /\ hs[i] = (k[i - 1] + 1)..k[i]
  <2>1. i + 1 \in 1..n /\ i \in 0..(n - 1) /\ i - 1 \in 0..(n - 1) /\ (i - 1) + 1 = i /\ (i + 1) - 1 = i
    BY <1>2
  <2>2. k[i] = cut[i + 1] /\ k[i - 1] = cut[i]
    BY <2>1, <1>6
  <2>3. cut[i] <= cut[i + 1] /\ gs[i + 1] = (cut[i] + 1)..cut[i + 1]
    BY <2>1, <1>1
  <2> QED BY <2>2, <2>3, <1>2
<1>9. Split(cut[1], hs, b)
  BY <1>2, <1>6, <1>7, <1>8 DEF Split
<1> QED BY <1>3, <1>9 DEF hs


StreamRecords ==
  [kind : {None, "inside", "outside", "single"}, rows : Nat, portal : Nat, alive : BOOLEAN,
   xact : {None} \cup StreamXacts, out : Seq(Nat), ended : BOOLEAN]

\* A stream that is read chunk by chunk.
Chunked(s, st, told) ==
  st.kind \in {"inside", "outside"} /\ st.xact # None =>
    /\ ~st.xact.pushed => st.xact = NeverPushed /\ s \in told
    /\ st.xact.pushed =>
         /\ ~st.xact.done => st.xact.groups = <<>> /\ st.xact.coming = (Len(st.out) + 1)..st.portal
         /\ st.xact.done => st.xact.coming = {} /\ ChunkOf(st.xact) = (Len(st.out) + 1)..st.portal
         /\ st.xact.error => st.portal - Len(st.out) < ChunkSize
         /\ ~st.xact.error => st.portal = st.rows \/ st.portal - Len(st.out) = ChunkSize
         /\ st.xact.done /\ st.xact.error => s \in told

\* One that takes the groups of a single protocol transaction.
Single(st) ==
  st.kind = "single" /\ st.xact # None =>
    /\ st.xact.pushed
    /\ \E m \in Len(st.out)..st.portal :
         /\ Split(Len(st.out), st.xact.groups, m)
         /\ st.xact.coming = (m + 1)..st.portal
         /\ st.xact.done => m = st.portal
    /\ ~st.xact.error => st.portal = st.rows

Sound(s, st, pending, told) ==
  /\ st \in StreamRecords
  /\ st.out = Upto(Len(st.out)) /\ Len(st.out) <= st.portal /\ st.portal <= st.rows
  /\ st.kind = None => st = Unmade
  /\ st.kind # None => (st.ended <=> st.xact = None)
  /\ st.ended => Len(st.out) = st.rows \/ s \in told
  /\ pending = s <=> st.xact # None /\ st.xact.pushed /\ ~st.xact.done
  /\ Chunked(s, st, told)
  /\ Single(st)

-----------------------------------------------------------------------------
(* What keeps one stream right *)

LEMMA XactFields ==
  ASSUME NEW x \in StreamXacts
  PROVE  /\ x.coming \subseteq Nat /\ x.error \in BOOLEAN /\ x.groups \in Seq(SUBSET Nat)
         /\ x.done \in BOOLEAN /\ x.pushed \in BOOLEAN /\ x # None
  BY StreamsAssumption DEF StreamXacts

LEMMA RecordFields ==
  ASSUME NEW st \in StreamRecords
  PROVE  /\ st.rows \in Nat /\ st.portal \in Nat /\ st.alive \in BOOLEAN /\ st.ended \in BOOLEAN
         /\ st.kind \in {None, "inside", "outside", "single"} /\ st.xact \in {None} \cup StreamXacts
         /\ st.out \in Seq(Nat) /\ Len(st.out) \in Nat
  BY DEF StreamRecords

LEMMA SoundTold ==
  ASSUME NEW s \in Streams, NEW st, NEW p, NEW t, NEW u, s \in t => s \in u, Sound(s, st, p, t)
  PROVE  Sound(s, st, p, u)
  BY DEF Sound, Chunked

LEMMA SoundIdle ==
  ASSUME NEW s \in Streams, NEW st, NEW p, NEW q, NEW t, p # s, q # s, Sound(s, st, p, t)
  PROVE  Sound(s, st, q, t)
  BY DEF Sound

LEMMA SoundAlive ==
  ASSUME NEW s \in Streams, NEW st, NEW p, NEW t, Sound(s, st, p, t), NEW b \in BOOLEAN, b => st.alive
  PROVE  Sound(s, [st EXCEPT !.alive = b], p, t)
<1> DEFINE r == [st EXCEPT !.alive = b]
<1>1. st \in StreamRecords
  BY DEF Sound
<1>2. r \in StreamRecords
  BY <1>1 DEF StreamRecords
<1>3. /\ r.kind = st.kind /\ r.rows = st.rows /\ r.portal = st.portal /\ r.xact = st.xact /\ r.out = st.out
      /\ r.ended = st.ended
  BY <1>1 DEF StreamRecords
<1>4. st.kind = None => r = Unmade
  <2>1. SUFFICES ASSUME st.kind = None PROVE r = Unmade
    OBVIOUS
  <2>2. st = Unmade
    BY <2>1 DEF Sound
  <2>3. st.alive = b
    BY <2>2 DEF Unmade
  <2>4. r = st
    BY <2>3, <1>1 DEF StreamRecords
  <2> QED BY <2>2, <2>4
<1> HIDE DEF r
<1>5. Chunked(s, r, t)
  BY <1>3 DEF Sound, Chunked
<1>6. Single(r)
  BY <1>3 DEF Sound, Single
<1>7. Sound(s, r, p, t)
  BY <1>2, <1>3, <1>4, <1>5, <1>6 DEF Sound
<1> QED BY <1>7 DEF r

LEMMA SoundReceived ==
  ASSUME NEW s \in Streams, NEW st, NEW t, Sound(s, st, s, t), NEW u, s \in t => s \in u,
         st.kind # "single" /\ st.xact.error => s \in u
  PROVE  /\ Sound(s, [st EXCEPT !.xact = Received(@)], None, u)
         /\ Received(st.xact) # None /\ Received(st.xact).done /\ Received(st.xact).pushed
         /\ Received(st.xact).error = st.xact.error
<1> DEFINE x == st.xact
           y == Received(x)
           r == [st EXCEPT !.xact = y]
           a == Len(st.out)
<1>1. /\ st \in StreamRecords /\ x \in StreamXacts /\ x.pushed /\ ~x.done /\ x # None
      /\ st.kind # None
  <2>1. st \in StreamRecords /\ st.xact # None /\ x.pushed /\ ~x.done
    BY DEF Sound
  <2>2. st.kind # None
    BY <2>1 DEF Sound, Unmade
  <2> QED BY <2>1, <2>2, RecordFields
<1>2. /\ y \in StreamXacts /\ y.error = x.error /\ y.pushed = x.pushed /\ y.done = TRUE /\ y.coming = {}
      /\ y.groups = IF x.coming = {} THEN x.groups ELSE Append(x.groups, x.coming)
  <2>1. CASE x.coming = {}
    <3>1. y = [x EXCEPT !.groups = x.groups, !.coming = {}, !.done = TRUE]
      BY <2>1 DEF Received
    <3> QED BY <3>1, <2>1, <1>1 DEF StreamXacts
  <2>2. CASE x.coming # {}
    <3>1. y = [x EXCEPT !.groups = Append(x.groups, x.coming), !.coming = {}, !.done = TRUE]
      BY <2>2 DEF Received
    <3>2. Append(x.groups, x.coming) \in Seq(SUBSET Nat)
      BY <1>1, XactFields
    <3> QED BY <3>1, <3>2, <2>2, <1>1 DEF StreamXacts
  <2> QED BY <2>1, <2>2
<1>3. y # None
  BY <1>2, XactFields
<1>4. r \in StreamRecords
  BY <1>1, <1>2 DEF StreamRecords
<1>5. /\ r.kind = st.kind /\ r.rows = st.rows /\ r.portal = st.portal /\ r.xact = y /\ r.out = st.out
      /\ r.ended = st.ended
  BY <1>1 DEF StreamRecords
<1>6. a \in Nat /\ st.portal \in Nat /\ a <= st.portal
  BY <1>1, RecordFields DEF Sound
<1> HIDE DEF y, r
<1>7. Chunked(s, r, u)
  <2>1. SUFFICES ASSUME st.kind \in {"inside", "outside"}
        PROVE  /\ ChunkOf(y) = (a + 1)..st.portal
               /\ x.error => st.portal - a < ChunkSize
               /\ ~x.error => st.portal = st.rows \/ st.portal - a = ChunkSize
               /\ x.error => s \in u
    BY <1>1, <1>2, <1>3, <1>5 DEF Chunked
  <2>2. /\ x.groups = <<>> /\ x.coming = (a + 1)..st.portal
        /\ x.error => st.portal - a < ChunkSize
        /\ ~x.error => st.portal = st.rows \/ st.portal - a = ChunkSize
    BY <2>1, <1>1 DEF Sound, Chunked
  <2>3. ChunkOf(y) = x.coming
    <3>1. CASE x.coming = {}
      <4>1. y.groups = <<>>
        BY <3>1, <2>2, <1>2
      <4> QED BY <4>1, <3>1 DEF ChunkOf
    <3>2. CASE x.coming # {}
      <4>1. y.groups = <<x.coming>>
        BY <3>2, <2>2, <1>2
      <4> QED BY <4>1 DEF ChunkOf
    <3> QED BY <3>1, <3>2
  <2>4. x.error => s \in u
    BY <2>1
  <2> QED BY <2>2, <2>3, <2>4
<1>8. Single(r)
  <2>1. SUFFICES ASSUME st.kind = "single"
        PROVE  /\ Split(a, y.groups, st.portal)
               /\ (st.portal + 1)..st.portal = {}
               /\ ~x.error => st.portal = st.rows
    <3>1. st.portal \in a..st.portal
      BY <1>6
    <3> QED BY <3>1, <1>1, <1>2, <1>3, <1>5 DEF Single
  <2>2. PICK m \in a..st.portal :
          /\ Split(a, x.groups, m)
          /\ x.coming = (m + 1)..st.portal
    BY <2>1, <1>1 DEF Sound, Single
  <2>3. CASE x.coming = {}
    <3>1. m = st.portal
      <4>1. st.portal \notin (m + 1)..st.portal
        BY <2>2, <2>3
      <4> QED BY <4>1, <1>6
    <3> QED BY <3>1, <2>1, <2>2, <2>3, <1>1, <1>2, <1>6 DEF Sound, Single
  <2>4. CASE x.coming # {}
    <3>1. m \in Nat /\ a <= m /\ m <= st.portal
      BY <1>6
    <3>2. Split(a, Append(x.groups, (m + 1)..st.portal), st.portal)
      BY <3>1, <2>2, <1>1, <1>6, XactFields, SplitAppend
    <3>3. y.groups = Append(x.groups, (m + 1)..st.portal)
      BY <2>2, <2>4, <1>2
    <3>4. ~x.error => st.portal = st.rows
      BY <2>1, <1>1 DEF Sound, Single
    <3> QED BY <3>2, <3>3, <3>4, <1>6
  <2> QED BY <2>3, <2>4
<1>9. Sound(s, r, None, u)
  BY <1>1, <1>2, <1>3, <1>4, <1>5, <1>7, <1>8, StreamsAssumption DEF Sound
<1> QED BY <1>2, <1>3, <1>9, <1>1 DEF y, r

\* The answer to a request of n rows, of which there may be less.
LEMMA Answers ==
  ASSUME NEW st \in StreamRecords, st.portal <= st.rows, NEW n \in Nat \ {0}, NEW x \in Fetch(st, n)
  PROVE  \E m \in st.portal..st.rows :
           /\ x \in StreamXacts /\ x.coming = (st.portal + 1)..m /\ x.groups = <<>> /\ ~x.done /\ x.pushed
           /\ x.error => m < st.portal + n
           /\ ~x.error => m = st.rows \/ m = st.portal + n
<1> DEFINE q == st.portal
           last == IF q + n > st.rows THEN st.rows ELSE q + n
<1>1. q \in Nat /\ st.rows \in Nat /\ q <= st.rows
  BY RecordFields
<1>2. last \in q..st.rows /\ (last = st.rows \/ last = q + n)
  BY <1>1
<1>3. \E m \in q..st.rows, e \in BOOLEAN :
        x = Pushed(q + 1, m, e) /\ (e => m < q + n) /\ (~e => m = st.rows \/ m = q + n)
  <2>1. CASE st.alive /\ block # "E"
    <3>1. \/ x = Pushed(q + 1, last, FALSE)
          \/ \E m \in q..last : m < q + n /\ x = Pushed(q + 1, m, TRUE)
      BY <2>1 DEF Fetch
    <3> HIDE DEF last
    <3>2. q..last \subseteq q..st.rows
      BY <1>1, <1>2
    <3> QED BY <3>1, <3>2, <1>2
  <2>2. CASE ~(st.alive /\ block # "E")
    <3>1. x = Pushed(q + 1, q, TRUE)
      BY <2>2 DEF Fetch
    <3>2. q \in q..st.rows /\ q < q + n
      BY <1>1
    <3> QED BY <3>1, <3>2
  <2> QED BY <2>1, <2>2
<1>4. PICK m \in q..st.rows, e \in BOOLEAN :
        x = Pushed(q + 1, m, e) /\ (e => m < q + n) /\ (~e => m = st.rows \/ m = q + n)
  BY <1>3
<1>5. /\ x.coming = (q + 1)..m /\ x.error = e /\ x.groups = <<>> /\ x.done = FALSE /\ x.pushed = TRUE
      /\ x \in StreamXacts
  <2>1. (q + 1)..m \in SUBSET Nat
    BY <1>1
  <2>2. <<>> \in Seq(SUBSET Nat)
    OBVIOUS
  <2> QED BY <1>4, <2>1, <2>2 DEF Pushed, StreamXacts
<1> QED BY <1>4, <1>5

LEMMA SoundAwaiting ==
  ASSUME NEW s \in Streams, NEW st \in StreamRecords, st.kind \in {"inside", "outside", "single"}, st.out = Upto(st.portal),
         st.portal <= st.rows, ~st.ended, NEW n \in Nat \ {0}, NEW x \in Fetch(st, n), NEW u,
         IF st.kind = "single" THEN n > st.rows ELSE n = ChunkSize
  PROVE  Sound(s, [st EXCEPT !.xact = x, !.portal = @ + Cardinality(x.coming)], s, u)
<1> DEFINE q == st.portal
<1>1. PICK m \in q..st.rows :
        /\ x \in StreamXacts /\ x.coming = (q + 1)..m /\ x.groups = <<>> /\ ~x.done /\ x.pushed
        /\ x.error => m < q + n
        /\ ~x.error => m = st.rows \/ m = q + n
  BY Answers
<1>2. q \in Nat /\ st.rows \in Nat /\ m \in Nat /\ q <= m /\ m <= st.rows
  BY RecordFields
<1>3. q + Cardinality(x.coming) = m
  <2>1. Cardinality((q + 1)..m) = m - q
    BY <1>2, IntervalSize
  <2> QED BY <2>1, <1>1, <1>2
<1> DEFINE r == [st EXCEPT !.xact = x, !.portal = m]
<1>4. r \in StreamRecords
  BY <1>1, <1>2 DEF StreamRecords
<1>5. r.kind = st.kind /\ r.rows = st.rows /\ r.portal = m /\ r.xact = x /\ r.out = st.out /\ r.ended = st.ended
  BY DEF StreamRecords
<1>6. Len(st.out) = q
  BY <1>2, UptoIsSeq
<1>7. x # None /\ st.kind # None
  BY <1>1, XactFields, StreamsAssumption
<1> HIDE DEF r
<1>8. Chunked(s, r, u)
  <2>1. SUFFICES ASSUME st.kind \in {"inside", "outside"}
        PROVE  /\ x.error => m - q < ChunkSize
               /\ ~x.error => m = st.rows \/ m - q = ChunkSize
    BY <1>1, <1>5, <1>6, <1>7 DEF Chunked
  <2>2. n = ChunkSize
    BY <2>1
  <2> QED BY <2>2, <1>1, <1>2
<1>9. Single(r)
  <2>1. SUFFICES ASSUME st.kind = "single" PROVE Split(q, <<>>, q) /\ (~x.error => m = st.rows)
    BY <1>1, <1>2, <1>5, <1>6, <1>7 DEF Single
  <2>2. n > st.rows
    BY <2>1
  <2> QED BY <2>2, <1>1, <1>2, SplitNone
<1>10. Sound(s, r, s, u)
  BY <1>1, <1>2, <1>4, <1>5, <1>6, <1>7, <1>8, <1>9 DEF Sound
<1>11. [st EXCEPT !.xact = x, !.portal = @ + Cardinality(x.coming)] = r
  BY <1>3 DEF r
<1> QED BY <1>10, <1>11

LEMMA SoundChunk ==
  ASSUME NEW s \in Streams, NEW st, NEW u, Sound(s, st, None, u), st.kind \in {"inside", "outside"}, st.xact # None
  PROVE  LET r == Returns(s, st, ChunkOf(st.xact)) IN
         /\ Cardinality(ChunkOf(st.xact)) = ChunkSize =>
              /\ r \in StreamRecords /\ r.out = Upto(r.portal) /\ r.portal <= r.rows /\ ~r.ended
              /\ r.kind = st.kind /\ r.portal = st.portal /\ r.rows = st.rows /\ r.alive = st.alive
         /\ Cardinality(ChunkOf(st.xact)) # ChunkSize => Sound(s, Exhausted(r), None, u)
         /\ \E new \in Seq(Nat) : r.out = st.out \o new
<1> DEFINE x == st.xact
           a == Len(st.out)
           b == IF x.pushed THEN st.portal ELSE a
           r == Returns(s, st, ChunkOf(x))
           e == Exhausted(r)
<1>1. /\ st \in StreamRecords /\ st.kind # None /\ ~st.ended
      /\ x \in StreamXacts /\ (x.pushed => x.done) /\ st.out = Upto(a)
  BY RecordFields, XactFields, StreamsAssumption DEF Sound
<1>2. a \in Nat /\ b \in Nat /\ a <= b /\ b <= st.rows /\ st.portal \in Nat /\ st.rows \in Nat /\ st.portal <= st.rows
  BY <1>1, RecordFields, XactFields DEF Sound
<1>3. ChunkOf(x) = (a + 1)..b
  <2>1. CASE x.pushed
    BY <2>1, <1>1 DEF Sound, Chunked
  <2>2. CASE ~x.pushed
    <3>1. x = NeverPushed
      BY <2>2, <1>1 DEF Sound, Chunked
    <3>2. ChunkOf(x) = {}
      BY <3>1 DEF NeverPushed, ChunkOf
    <3> QED BY <3>2, <2>2, <1>2
  <2> QED BY <2>1, <2>2
<1> HIDE DEF b
<1>4. Cardinality(ChunkOf(x)) = b - a
  BY <1>2, <1>3, IntervalSize
<1>5. st.out \o InOrder(ChunkOf(x)) = Upto(b)
  BY <1>1, <1>2, <1>3, ReturnsUpto
<1>6. Upto(b) \in Seq(Nat) /\ Len(Upto(b)) = b
  BY <1>2, UptoIsSeq
<1>7. /\ r \in StreamRecords /\ r.out = Upto(b) /\ r.kind = st.kind /\ r.portal = st.portal /\ r.rows = st.rows
      /\ r.alive = st.alive /\ r.ended = FALSE /\ r.xact = st.xact
  BY <1>1, <1>5, <1>6 DEF Returns, StreamRecords
<1> HIDE DEF r
<1>8. /\ e \in StreamRecords /\ e.out = Upto(b) /\ e.kind = st.kind /\ e.portal = st.portal /\ e.rows = st.rows
      /\ e.ended = TRUE /\ e.xact = None
  BY <1>7 DEF Exhausted, StreamRecords
<1> HIDE DEF e
<1>9. ASSUME Cardinality(ChunkOf(x)) = ChunkSize
      PROVE  r.out = Upto(r.portal)
  <2>1. b # a
    BY <1>9, <1>4, <1>2, StreamsAssumption
  <2>2. b = st.portal
    BY <2>1 DEF b
  <2> QED BY <2>2, <1>7
<1>10. ASSUME Cardinality(ChunkOf(x)) # ChunkSize
       PROVE  Sound(s, e, None, u)
  <2>1. b = st.rows \/ s \in u
    <3>1. CASE x.pushed /\ ~x.error
      <4>1. b = st.portal
        BY <3>1 DEF b
      <4>2. st.portal = st.rows \/ st.portal - a = ChunkSize
        BY <3>1, <1>1 DEF Sound, Chunked
      <4> QED BY <4>1, <4>2, <1>10, <1>4
    <3>2. CASE x.pushed /\ x.error
      BY <3>2, <1>1 DEF Sound, Chunked
    <3>3. CASE ~x.pushed
      BY <3>3, <1>1 DEF Sound, Chunked
    <3> QED BY <3>1, <3>2, <3>3, <1>1, XactFields
  <2>2. b <= st.portal
    BY <1>2, <1>1 DEF b, Sound
  <2> QED BY <2>1, <2>2, <1>1, <1>2, <1>6, <1>8 DEF Sound, Chunked, Single
<1>11. InOrder(ChunkOf(x)) \in Seq(Nat)
  <2>1. InOrder(ChunkOf(x)) = [i \in 1..(b - a) |-> a + i]
    BY <1>2, <1>3, InOrderInterval
  <2>2. b - a \in Nat /\ \A i \in 1..(b - a) : a + i \in Nat
    BY <1>2
  <2> QED BY <2>1, <2>2
<1>12. \E new \in Seq(Nat) : r.out = st.out \o new
  BY <1>11, <1>5, <1>7
<1> QED BY <1>7, <1>9, <1>10, <1>12, <1>2 DEF r, e

LEMMA SoundGroup ==
  ASSUME NEW s \in Streams, NEW st, NEW p, NEW u, Sound(s, st, p, u), st.kind = "single", st.xact # None
  PROVE  /\ st.xact.groups # <<>> =>
              Sound(s, [Returns(s, st, Head(st.xact.groups)) EXCEPT !.xact.groups = Tail(@)], p, u)
         /\ st.xact.groups = <<>> /\ st.xact.done /\ ~st.xact.error => Sound(s, Exhausted(st), None, u)
<1> DEFINE x == st.xact
           a == Len(st.out)
<1>1. /\ st \in StreamRecords /\ st.kind # None /\ ~st.ended
      /\ x \in StreamXacts /\ x.pushed /\ st.out = Upto(a)
  BY RecordFields, XactFields, StreamsAssumption DEF Sound, Single
<1>2. a \in Nat /\ st.portal \in Nat /\ st.rows \in Nat /\ a <= st.portal /\ st.portal <= st.rows
  BY <1>1, RecordFields DEF Sound
<1>3. PICK m \in a..st.portal :
        /\ Split(a, x.groups, m)
        /\ x.coming = (m + 1)..st.portal
        /\ x.done => m = st.portal
  BY <1>1 DEF Sound, Single
<1>4. m \in Nat /\ x.groups \in Seq(SUBSET Nat)
  BY <1>1, <1>2, XactFields
<1>5. ASSUME x.groups # <<>>
      PROVE  Sound(s, [Returns(s, st, Head(x.groups)) EXCEPT !.xact.groups = Tail(@)], p, u)
  <2>1. PICK c \in a..m : Head(x.groups) = (a + 1)..c /\ Split(c, Tail(x.groups), m)
    BY <1>2, <1>3, <1>4, <1>5, SplitHead
  <2>2. c \in Nat /\ a <= c /\ c <= m /\ m <= st.portal
    BY <1>2, <1>3
  <2>3. st.out \o InOrder(Head(x.groups)) = Upto(c)
    BY <2>1, <2>2, <1>1, <1>2, ReturnsUpto
  <2>4. Upto(c) \in Seq(Nat) /\ Len(Upto(c)) = c
    BY <2>2, UptoIsSeq
  <2>5. Tail(x.groups) \in Seq(SUBSET Nat)
    BY <1>4, <1>5
  <2> DEFINE y == [x EXCEPT !.groups = Tail(@)]
             r == [Returns(s, st, Head(x.groups)) EXCEPT !.xact.groups = Tail(@)]
  <2>6. /\ y \in StreamXacts /\ y.groups = Tail(x.groups) /\ y.done = x.done /\ y.pushed = x.pushed
        /\ y.error = x.error /\ y.coming = x.coming
    BY <2>5, <1>1 DEF StreamXacts
  <2>7. r = [st EXCEPT !.out = Upto(c), !.xact = y]
    BY <2>3, <1>1 DEF Returns, StreamRecords
  <2> HIDE DEF y, r
  <2>8. /\ r \in StreamRecords /\ r.out = Upto(c) /\ r.kind = st.kind /\ r.portal = st.portal /\ r.rows = st.rows
        /\ r.ended = FALSE /\ r.xact = y
    BY <2>4, <2>6, <2>7, <1>1 DEF StreamRecords
  <2>9. Single(r)
    <3>1. m \in c..st.portal
      BY <2>2
    <3>2. ~x.error => st.portal = st.rows
      BY <1>1 DEF Sound, Single
    <3> QED BY <3>1, <3>2, <2>1, <2>4, <2>6, <2>8, <1>1, <1>3 DEF Single
  <2>10. Chunked(s, r, u)
    BY <2>8 DEF Chunked
  <2>11. p = s <=> y # None /\ y.pushed /\ ~y.done
    BY <2>6, <1>1, XactFields DEF Sound
  <2>12. y # None /\ c <= st.portal /\ st.portal <= st.rows
    BY <2>2, <2>6, <1>2, XactFields
  <2>13. Sound(s, r, p, u)
    BY <2>4, <2>8, <2>9, <2>10, <2>11, <2>12, <1>1 DEF Sound
  <2> QED BY <2>13 DEF r
<1>6. ASSUME x.groups = <<>>, x.done, ~x.error
      PROVE  Sound(s, Exhausted(st), None, u)
  <2>1. a = st.rows
    <3>1. a = m
      BY <1>2, <1>3, <1>4, <1>6, SplitNone
    <3> QED BY <3>1, <1>1, <1>3, <1>6 DEF Sound, Single
  <2> DEFINE e == Exhausted(st)
  <2>2. /\ e \in StreamRecords /\ e.out = st.out /\ e.kind = st.kind /\ e.portal = st.portal /\ e.rows = st.rows
        /\ e.ended = TRUE /\ e.xact = None
    BY <1>1 DEF Exhausted, StreamRecords
  <2> HIDE DEF e
  <2>3. Sound(s, e, None, u)
    BY <2>1, <2>2, <1>1, <1>2, StreamsAssumption DEF Sound, Chunked, Single
  <2> QED BY <2>3 DEF e
<1> QED BY <1>5, <1>6

LEMMA SoundStep ==
  ASSUME NEW s \in Streams, NEW st, NEW u, Sound(s, st, s, u), st.kind = "single", NEW n \in st.xact.coming
  PROVE  Sound(s, [st EXCEPT !.xact.coming = {r \in @ : r > n},
                         !.xact.groups = Append(@, {r \in st.xact.coming : r <= n})], s, u)
<1> DEFINE x == st.xact
           a == Len(st.out)
           low == {r \in x.coming : r <= n}
           high == {r \in x.coming : r > n}
<1>1. /\ st \in StreamRecords /\ st.kind # None /\ ~st.ended
      /\ x \in StreamXacts /\ x.pushed /\ ~x.done /\ st.out = Upto(a)
  BY RecordFields, XactFields, StreamsAssumption DEF Sound, Single
<1>2. a \in Nat /\ st.portal \in Nat /\ st.rows \in Nat /\ a <= st.portal /\ st.portal <= st.rows
  BY <1>1, RecordFields DEF Sound
<1>3. PICK m \in a..st.portal :
        /\ Split(a, x.groups, m)
        /\ x.coming = (m + 1)..st.portal
  BY <1>1 DEF Sound, Single
<1>4. m \in Nat /\ x.groups \in Seq(SUBSET Nat) /\ n \in Nat /\ m < n /\ n <= st.portal
  BY <1>1, <1>2, <1>3, XactFields
<1>5. low = (m + 1)..n /\ high = (n + 1)..st.portal
  BY <1>2, <1>3, <1>4
<1>6. low \in SUBSET Nat /\ high \in SUBSET Nat
  BY <1>1, XactFields
<1> HIDE DEF low, high
<1>7. Split(a, Append(x.groups, low), n)
  BY <1>2, <1>3, <1>4, <1>5, SplitAppend
<1> DEFINE y == [x EXCEPT !.coming = high, !.groups = Append(x.groups, low)]
           r == [st EXCEPT !.xact = y]
<1>8. /\ y \in StreamXacts /\ y.groups = Append(x.groups, low) /\ y.done = x.done /\ y.pushed = x.pushed
      /\ y.error = x.error /\ y.coming = high
  <2>1. Append(x.groups, low) \in Seq(SUBSET Nat)
    BY <1>4, <1>6
  <2> QED BY <2>1, <1>6, <1>1 DEF StreamXacts
<1>9. [st EXCEPT !.xact.coming = {q \in @ : q > n},
                 !.xact.groups = Append(@, {q \in st.xact.coming : q <= n})] = r
  BY <1>1 DEF StreamRecords, StreamXacts, low, high
<1> HIDE DEF y
<1>10. /\ r \in StreamRecords /\ r.out = st.out /\ r.kind = st.kind /\ r.portal = st.portal /\ r.rows = st.rows
       /\ r.ended = FALSE /\ r.xact = y
  BY <1>8, <1>1 DEF StreamRecords
<1> HIDE DEF r
<1>11. Single(r)
  <2>1. n \in a..st.portal
    BY <1>2, <1>3, <1>4
  <2>2. ~x.error => st.portal = st.rows
    BY <1>1, XactFields DEF Sound, Single
  <2> QED BY <2>1, <2>2, <1>1, <1>5, <1>7, <1>8, <1>10 DEF Single
<1>12. Chunked(s, r, u)
  BY <1>10 DEF Chunked
<1>13. y # None
  BY <1>8, XactFields
<1>14. Sound(s, r, s, u)
  BY <1>1, <1>2, <1>8, <1>10, <1>11, <1>12, <1>13 DEF Sound
<1> QED BY <1>9, <1>14


-----------------------------------------------------------------------------
(* The steps of a connection with its streams *)

SInv ==
  /\ DOMAIN stream = Streams
  /\ busy \in Streams \cup {None} /\ block \in {"I", "T", "E"} /\ blamed \subseteq Streams
  /\ \A s \in Streams : Sound(s, stream[s], busy, blamed)

\* What a step leaves alone of a stream that it is not about.
Alike(old, new) ==
  new.kind = old.kind /\ new.rows = old.rows /\ new.portal = old.portal /\ new.out = old.out /\ new.ended = old.ended
Kept(s) == Alike(stream[s], stream'[s])

LEMMA StreamsAreNotNone == \A s \in Streams : s # None
  BY StreamsAssumption

\* pq.complete() keeps every stream right, if the reader of a pending error is known to be told.
LEMMA Completed ==
  ASSUME SInv, NEW s \in Streams, NEW u, s \in blamed => s \in u,
         busy = s /\ PendingFails /\ stream[s].kind # "single" => s \in u
  PROVE  /\ Sound(s, CompletePending(stream)[s], None, u)
         /\ DOMAIN CompletePending(stream) = Streams
         /\ Alike(stream[s], CompletePending(stream)[s])
         /\ CompletePending(stream)[s].alive = stream[s].alive
         /\ busy # s => CompletePending(stream)[s] = stream[s]
         /\ busy = s => /\ CompletePending(stream)[s].xact # None /\ CompletePending(stream)[s].xact.done
                        /\ CompletePending(stream)[s].xact.error = stream[s].xact.error
<1> DEFINE C == CompletePending(stream)
           st == stream[s]
<1>1. Sound(s, st, busy, blamed) /\ DOMAIN stream = Streams /\ s # None
  BY StreamsAreNotNone DEF SInv
<1>2. CASE busy # s
  <2>1. C[s] = st /\ DOMAIN C = Streams
    BY <1>1, <1>2 DEF CompletePending
  <2>2. Sound(s, st, None, u)
    <3>1. Sound(s, st, None, blamed)
      BY <1>1, <1>2, SoundIdle
    <3> QED BY <3>1, SoundTold
  <2> QED BY <1>2, <2>1, <2>2 DEF Alike
<1>3. CASE busy = s
  <2>1. Sound(s, st, s, blamed)
    BY <1>1, <1>3
  <2>2. st.xact # None /\ st \in StreamRecords /\ busy # None
    BY <2>1, <1>1, <1>3 DEF Sound
  <2>3. C = [stream EXCEPT ![s].xact = Received(st.xact)]
    BY <1>1, <1>3, <2>2 DEF CompletePending
  <2>4. C[s] = [st EXCEPT !.xact = Received(@)] /\ DOMAIN C = Streams
    BY <2>3, <1>1
  <2>5. st.kind # "single" /\ st.xact.error => s \in u
    BY <1>3, <2>2 DEF PendingFails
  <2>6. /\ Sound(s, [st EXCEPT !.xact = Received(@)], None, u)
        /\ Received(st.xact) # None /\ Received(st.xact).done
        /\ Received(st.xact).error = st.xact.error
    BY <2>1, <2>5, SoundReceived
  <2>7. C[s].xact = Received(st.xact) /\ Alike(st, C[s]) /\ C[s].alive = st.alive
    BY <2>2, <2>4 DEF StreamRecords, Alike
  <2> QED BY <1>3, <2>4, <2>6, <2>7
<1> QED BY <1>2, <1>3

\* Whoever calls: the pending answer is received, and its error raised.
LEMMA RaisedKeeps ==
  ASSUME SInv, PendingFails,
         stream' = CompletePending(stream), busy' = None, blamed' = blamed \cup {busy}, block' = AfterFailure
  PROVE  SInv' /\ \A t \in Streams : Kept(t)
<1>1. busy \in Streams
  BY DEF SInv, PendingFails
<1>2. busy' \in Streams \cup {None} /\ block' \in {"I", "T", "E"} /\ blamed' \subseteq Streams
  BY <1>1 DEF SInv, AfterFailure
<1>3. ASSUME NEW t \in Streams
      PROVE  Sound(t, stream'[t], busy', blamed') /\ Kept(t) /\ DOMAIN stream' = Streams
  <2>1. (t \in blamed => t \in blamed') /\ (busy = t => t \in blamed')
    OBVIOUS
  <2>2. /\ Sound(t, CompletePending(stream)[t], None, blamed')
        /\ DOMAIN CompletePending(stream) = Streams
        /\ Alike(stream[t], CompletePending(stream)[t])
    BY <2>1, Completed
  <2> QED BY <2>2 DEF Kept
<1> QED BY <1>1, <1>2, <1>3 DEF SInv

\* A call that is answered: portals may die with their block.
LEMMA AnsweredKeeps ==
  ASSUME SInv, ~PendingFails, NEW dies \in SUBSET Streams,
         stream' = [s \in Streams |-> [CompletePending(stream)[s] EXCEPT !.alive = @ /\ s \notin dies]],
         busy' = None, block' \in {"I", "T", "E"}, UNCHANGED blamed
  PROVE  SInv' /\ \A t \in Streams : Kept(t)
<1>1. busy' \in Streams \cup {None} /\ block' \in {"I", "T", "E"} /\ blamed' \subseteq Streams /\ DOMAIN stream' = Streams
  BY DEF SInv
<1>2. ASSUME NEW t \in Streams
      PROVE  Sound(t, stream'[t], busy', blamed') /\ Kept(t)
  <2> DEFINE C == CompletePending(stream)[t]
             b == C.alive /\ t \notin dies
  <2>1. Sound(t, C, None, blamed) /\ Alike(stream[t], C)
    BY Completed
  <2>2. C \in StreamRecords /\ stream'[t] = [C EXCEPT !.alive = b]
    BY <2>1 DEF Sound
  <2>3. b \in BOOLEAN /\ (b => C.alive)
    BY <2>2, RecordFields
  <2>4. PICK v \in BOOLEAN : v = b
    BY <2>3
  <2> HIDE DEF C
  <2>5. Sound(t, [C EXCEPT !.alive = v], None, blamed)
    BY <2>1, <2>3, <2>4, SoundAlive
  <2>6. stream'[t] = [C EXCEPT !.alive = v]
    BY <2>2, <2>4
  <2>7. Alike(stream[t], [C EXCEPT !.alive = v])
    BY <2>1, <2>2 DEF Alike, StreamRecords
  <2> QED BY <2>5, <2>6, <2>7 DEF Kept
<1> QED BY <1>1, <1>2 DEF SInv

\* A request goes out for one stream, after what was pending has been received.
LEMMA PushedKeeps ==
  ASSUME SInv, ~PendingFails, NEW s \in Streams, NEW r, Sound(s, r, s, blamed),
         stream' = [CompletePending(stream) EXCEPT ![s] = r], busy' = s, UNCHANGED <<block, blamed>>
  PROVE  SInv' /\ stream'[s] = r /\ \A t \in Streams \ {s} : Kept(t)
<1>1. busy' \in Streams \cup {None} /\ block' \in {"I", "T", "E"} /\ blamed' \subseteq Streams
  BY DEF SInv
<1>2. DOMAIN CompletePending(stream) = Streams
  BY Completed
<1>3. DOMAIN stream' = Streams /\ stream'[s] = r
  BY <1>2
<1>4. ASSUME NEW t \in Streams \ {s}
      PROVE  Sound(t, stream'[t], busy', blamed') /\ Kept(t)
  <2>1. Sound(t, CompletePending(stream)[t], None, blamed) /\ Alike(stream[t], CompletePending(stream)[t])
    BY Completed
  <2>2. Sound(t, CompletePending(stream)[t], s, blamed)
    BY <2>1, StreamsAreNotNone, SoundIdle
  <2>3. stream'[t] = CompletePending(stream)[t]
    BY <1>2
  <2> QED BY <2>1, <2>2, <2>3 DEF Kept
<1> QED BY <1>1, <1>3, <1>4 DEF SInv

LEMMA OpenKeeps ==
  ASSUME SInv, NEW s \in Streams, Open(s)
  PROVE  /\ SInv' /\ \A t \in Streams \ {s} : Kept(t)
         /\ \/ Kept(s) /\ PendingFails
            \/ stream'[s].kind \in {"inside", "outside", "single"} /\ stream'[s].out = <<>> /\ ~stream'[s].ended
         /\ stream[s].kind = None /\ block' \in {block, AfterFailure}
<1>1. CASE PendingFails
  <2>1. /\ stream' = CompletePending(stream) /\ busy' = None /\ blamed' = blamed \cup {busy}
        /\ block' = AfterFailure
    BY <1>1 DEF Open
  <2>2. SInv' /\ \A t \in Streams : Kept(t)
    BY <1>1, <2>1, RaisedKeeps
  <2>3. stream[s].kind = None
    BY DEF Open
  <2> QED BY <1>1, <2>1, <2>2, <2>3
<1>2. CASE ~PendingFails
  <2>1. PICK kind \in Kinds, n \in 0..MaxRows :
          \E x \in Fetch([Unmade EXCEPT !.kind = kind, !.rows = n, !.alive = TRUE], Quantity(kind)) :
            /\ stream' = [CompletePending(stream) EXCEPT ![s] =
                 [[Unmade EXCEPT !.kind = kind, !.rows = n, !.alive = TRUE] EXCEPT
                    !.xact = x, !.portal = Cardinality(x.coming)]]
            /\ busy' = s
            /\ UNCHANGED <<block, blamed>>
    BY <1>2 DEF Open
  <2> DEFINE made == [Unmade EXCEPT !.kind = kind, !.rows = n, !.alive = TRUE]
  <2>2. PICK x \in Fetch(made, Quantity(kind)) :
          /\ stream' = [CompletePending(stream) EXCEPT ![s] =
               [made EXCEPT !.xact = x, !.portal = Cardinality(x.coming)]]
          /\ busy' = s
          /\ UNCHANGED <<block, blamed>>
    BY <2>1
  <2>3. kind \in {"inside", "outside", "single"} /\ n \in Nat /\ n <= MaxRows /\ MaxRows \in Nat
    BY StreamsAssumption DEF Kinds
  <2>4. /\ made \in StreamRecords /\ made.kind = kind /\ made.rows = n /\ made.portal = 0 /\ made.ended = FALSE
        /\ made.out = <<>>
    <3>1. Unmade \in StreamRecords
      BY DEF Unmade, StreamRecords
    <3>2. Unmade.portal = 0 /\ Unmade.ended = FALSE /\ Unmade.out = <<>>
      BY DEF Unmade
    <3> QED BY <3>1, <3>2, <2>3 DEF StreamRecords
  <2>5. made.out = Upto(made.portal) /\ made.portal <= made.rows
    <3>1. <<>> = Upto(0)
      BY DEF Upto
    <3> QED BY <3>1, <2>3, <2>4
  <2>6. /\ Quantity(kind) \in Nat \ {0}
        /\ IF made.kind = "single" THEN Quantity(kind) > made.rows ELSE Quantity(kind) = ChunkSize
    BY <2>3, <2>4, StreamsAssumption DEF Quantity
  <2> DEFINE r == [made EXCEPT !.xact = x, !.portal = @ + Cardinality(x.coming)]
  <2> HIDE DEF made
  <2>7. Sound(s, r, s, blamed)
    BY <2>3, <2>4, <2>5, <2>6, SoundAwaiting
  <2>8. [made EXCEPT !.xact = x, !.portal = Cardinality(x.coming)] = r
    <3>1. PICK m \in made.portal..made.rows : x.coming = (made.portal + 1)..m
      BY <2>3, <2>4, <2>6, Answers
    <3>2. m \in Nat /\ 0 \in Nat /\ 0 <= m
      BY <2>3, <2>4
    <3>3. Cardinality((0 + 1)..m) = m - 0
      BY <3>2, IntervalSize
    <3>4. x.coming = (0 + 1)..m
      BY <3>1, <2>4
    <3>5. Cardinality(x.coming) = made.portal + Cardinality(x.coming)
      BY <3>2, <3>3, <3>4, <2>4
    <3> QED BY <3>5
  <2>9. r.kind = kind /\ r.out = <<>> /\ r.ended = FALSE
    BY <2>4 DEF StreamRecords
  <2> HIDE DEF r
  <2>10. SInv' /\ stream'[s] = r /\ \A t \in Streams \ {s} : Kept(t)
    BY <1>2, <2>2, <2>7, <2>8, PushedKeeps
  <2>11. stream[s].kind = None
    BY DEF Open
  <2> QED BY <2>2, <2>3, <2>9, <2>10, <2>11
<1> QED BY <1>1, <1>2

LEMMA NextChunkKeeps ==
  ASSUME SInv, NEW s \in Streams, NextChunk(s)
  PROVE  /\ SInv' /\ \A t \in Streams \ {s} : Kept(t)
         /\ ~stream[s].ended /\ stream'[s].kind = stream[s].kind
         /\ \E new \in Seq(Nat) : stream'[s].out = stream[s].out \o new
         /\ block' \in {block, AfterFailure}
<1> DEFINE st == stream[s]
           C == CompletePending(stream)
           mine == IF busy = s THEN [C[s] EXCEPT !.xact.done = TRUE] ELSE st
           chunk == ChunkOf(mine.xact)
           r == Returns(s, mine, chunk)
<1>1. /\ Sound(s, st, busy, blamed) /\ st.kind \in {"inside", "outside"} /\ st.xact # None
      /\ DOMAIN stream = Streams
  BY DEF SInv, NextChunk
<1>2. st \in StreamRecords /\ ~st.ended /\ st.out \in Seq(Nat) /\ st.out \o <<>> = st.out
  <2>1. st \in StreamRecords /\ ~st.ended
    BY <1>1, StreamsAssumption DEF Sound
  <2>2. st.out \in Seq(Nat)
    BY <2>1, RecordFields
  <2> QED BY <2>1, <2>2, ConcatEmptySeq
<1>3. CASE busy = s /\ st.xact.error
  <2>1. stream' = C /\ busy' = None /\ blamed' = blamed \cup {s} /\ block' = AfterFailure
    BY <1>3 DEF NextChunk, RaisedTo
  <2>2. PendingFails
    BY <1>1, <1>3, StreamsAreNotNone DEF PendingFails
  <2>3. SInv' /\ \A t \in Streams : Kept(t)
    BY <1>3, <2>1, <2>2, RaisedKeeps
  <2>4. stream'[s].kind = st.kind /\ stream'[s].out = st.out
    BY <2>3 DEF Kept, Alike
  <2> QED BY <1>2, <2>1, <2>3, <2>4, EmptySeq
<1>4. CASE ~(busy = s /\ st.xact.error)
  <2>1. /\ Sound(s, mine, None, blamed) /\ Alike(st, mine) /\ mine.xact # None
        /\ busy = s => mine = C[s]
    <3>1. CASE busy = s
      <4>1. Sound(s, C[s], None, blamed) /\ Alike(st, C[s]) /\ C[s].xact # None /\ C[s].xact.done
        <5>1. ~PendingFails
          BY <1>4, <3>1 DEF PendingFails
        <5> QED BY <3>1, <5>1, Completed
      <4>2. C[s] \in StreamRecords /\ C[s].xact \in StreamXacts
        BY <4>1, RecordFields DEF Sound
      <4>3. C[s].xact.done = TRUE
        BY <4>1, <4>2, XactFields
      <4>4. mine = C[s]
        <5> DEFINE c == C[s]
        <5>1. [c EXCEPT !.xact.done = TRUE] = c
          <6> HIDE DEF C
          <6>1. [c.xact EXCEPT !.done = TRUE] = c.xact
            BY <4>2, <4>3 DEF StreamXacts
          <6> QED BY <6>1, <4>2 DEF StreamRecords
        <5> QED BY <3>1, <5>1
      <4> QED BY <4>1, <4>4
    <3>2. CASE busy # s
      BY <1>1, <3>2, StreamsAreNotNone, SoundIdle DEF Alike
    <3> QED BY <3>1, <3>2
  <2> HIDE DEF mine
  <2>2. mine.kind \in {"inside", "outside"} /\ mine.out = st.out /\ mine.kind = st.kind
    BY <2>1, <1>1 DEF Alike
  <2>3. /\ Cardinality(chunk) = ChunkSize =>
             /\ r \in StreamRecords /\ r.out = Upto(r.portal) /\ r.portal <= r.rows /\ ~r.ended
             /\ r.kind = mine.kind /\ r.portal = mine.portal /\ r.rows = mine.rows /\ r.alive = mine.alive
        /\ Cardinality(chunk) # ChunkSize => Sound(s, Exhausted(r), None, blamed)
        /\ \E new \in Seq(Nat) : r.out = mine.out \o new
    BY <2>1, <2>2, SoundChunk
  <2>4. /\ mine \in StreamRecords
        /\ r \in StreamRecords => Exhausted(r).out = r.out /\ Exhausted(r).kind = r.kind
    BY <2>1 DEF Sound, Exhausted, StreamRecords
  <2>5. r.kind = mine.kind
    BY <2>4 DEF Returns, StreamRecords
  <2>6. IF Cardinality(chunk) = ChunkSize
        THEN IF busy \notin {s, None} /\ PendingFails
             THEN /\ stream' = [C EXCEPT ![s].xact = NeverPushed]
                  /\ busy' = None /\ blamed' = blamed \cup {s, busy} /\ block' = AfterFailure
             ELSE \E x \in Fetch(mine, ChunkSize) :
                    /\ stream' = [C EXCEPT ![s] = [r EXCEPT !.xact = x, !.portal = @ + Cardinality(x.coming)]]
                    /\ busy' = s
                    /\ UNCHANGED <<block, blamed>>
        ELSE /\ stream' = [stream EXCEPT ![s] = Exhausted(r)]
             /\ busy' = IF busy = s THEN None ELSE busy
             /\ UNCHANGED <<block, blamed>>
    BY <1>4 DEF NextChunk, mine
  <2> HIDE DEF r, chunk
  <2>7. CASE Cardinality(chunk) = ChunkSize /\ busy \notin {s, None} /\ PendingFails
    <3>1. /\ stream' = [C EXCEPT ![s].xact = NeverPushed]
          /\ busy' = None /\ blamed' = blamed \cup {s, busy} /\ block' = AfterFailure
      BY <2>6, <2>7
    <3>2. \A t \in Streams : /\ Sound(t, C[t], None, blamed') /\ DOMAIN C = Streams /\ Alike(stream[t], C[t])
                             /\ busy # t => C[t] = stream[t]
      <4> TAKE t \in Streams
      <4>1. (t \in blamed => t \in blamed') /\ (busy = t => t \in blamed')
        BY <3>1
      <4> QED BY <4>1, Completed
    <3>3. C[s] = st /\ DOMAIN C = Streams
      BY <2>7, <3>2
    <3>4. busy' \in Streams \cup {None} /\ block' \in {"I", "T", "E"} /\ blamed' \subseteq Streams /\ DOMAIN stream' = Streams
      BY <3>1, <3>3, <2>7 DEF SInv, AfterFailure
    <3>5. ASSUME NEW t \in Streams \ {s} PROVE Sound(t, stream'[t], busy', blamed') /\ Kept(t)
      <4>1. stream'[t] = C[t]
        BY <3>1, <3>3
      <4> QED BY <3>1, <3>2, <4>1 DEF Kept
    <3>6. stream'[s] = [st EXCEPT !.xact = NeverPushed]
      BY <3>1, <3>3
    <3>7. NeverPushed \in StreamXacts /\ NeverPushed.pushed = FALSE
      BY DEF NeverPushed, StreamXacts
    <3> DEFINE e == stream'[s]
    <3>8. /\ e \in StreamRecords /\ e.kind = st.kind /\ e.rows = st.rows /\ e.portal = st.portal /\ e.out = st.out
          /\ e.ended = st.ended /\ e.xact = NeverPushed
      BY <3>6, <3>7, <1>2 DEF StreamRecords
    <3>9. s \in blamed' /\ busy' # s /\ NeverPushed # None
      BY <3>1, <3>7, StreamsAreNotNone, XactFields
    <3> HIDE DEF e
    <3>10. Sound(s, e, busy', blamed')
      BY <3>7, <3>8, <3>9, <1>1, <1>2, StreamsAssumption DEF Sound, Chunked, Single
    <3>11. Sound(s, stream'[s], busy', blamed')
      BY <3>9, <3>10 DEF e
    <3>12. SInv'
      BY <3>4, <3>5, <3>11 DEF SInv
    <3> QED BY <3>1, <3>5, <3>8, <3>12, <1>2, EmptySeq DEF e
  <2>8. CASE Cardinality(chunk) = ChunkSize /\ ~(busy \notin {s, None} /\ PendingFails)
    <3>1. PICK x \in Fetch(mine, ChunkSize) :
            /\ stream' = [C EXCEPT ![s] = [r EXCEPT !.xact = x, !.portal = @ + Cardinality(x.coming)]]
            /\ busy' = s
            /\ UNCHANGED <<block, blamed>>
      BY <2>6, <2>8
    <3>2. ~PendingFails
      BY <1>4, <2>8 DEF PendingFails
    <3>3. x \in Fetch(r, ChunkSize)
      BY <2>3, <2>8, <3>1 DEF Fetch
    <3> DEFINE e == [r EXCEPT !.xact = x, !.portal = @ + Cardinality(x.coming)]
    <3>4. Sound(s, e, s, blamed)
      <4>1. ChunkSize \in Nat \ {0} /\ r.kind \in {"inside", "outside"} /\ r.kind # "single"
        BY <2>2, <2>5, StreamsAssumption
      <4> QED BY <2>3, <2>8, <3>3, <4>1, SoundAwaiting
    <3>5. e.out = r.out /\ e.kind = r.kind
      BY <2>3, <2>8 DEF StreamRecords
    <3> HIDE DEF e
    <3>6. SInv' /\ stream'[s] = e /\ \A t \in Streams \ {s} : Kept(t)
      BY <3>1, <3>2, <3>4, PushedKeeps DEF e
    <3> QED BY <3>1, <3>5, <3>6, <2>2, <2>3, <2>5, <1>2
  <2>9. CASE Cardinality(chunk) # ChunkSize
    <3>1. /\ stream' = [stream EXCEPT ![s] = Exhausted(r)]
          /\ busy' = IF busy = s THEN None ELSE busy
          /\ UNCHANGED <<block, blamed>>
      BY <2>6, <2>9
    <3>2. DOMAIN stream' = Streams /\ stream'[s] = Exhausted(r) /\ \A t \in Streams \ {s} : stream'[t] = stream[t]
      BY <3>1, <1>1
    <3>3. \A t \in Streams \ {s} : Sound(t, stream'[t], busy', blamed') /\ Kept(t)
      <4> TAKE t \in Streams \ {s}
      <4>1. Sound(t, stream[t], busy, blamed)
        BY DEF SInv
      <4>2. Sound(t, stream[t], busy', blamed)
        <5>1. CASE busy = s
          BY <4>1, <5>1, <3>1, StreamsAreNotNone, SoundIdle
        <5>2. CASE busy # s
          BY <4>1, <5>2, <3>1
        <5> QED BY <5>1, <5>2
      <4> QED BY <4>2, <3>1, <3>2 DEF Kept, Alike
    <3>4. Sound(s, stream'[s], busy', blamed')
      <4>1. busy' # s /\ None # s
        BY <3>1, StreamsAreNotNone
      <4> QED BY <2>3, <2>9, <3>1, <3>2, <4>1, SoundIdle
    <3>5. SInv'
      BY <3>1, <3>2, <3>3, <3>4 DEF SInv
    <3>6. Exhausted(r).out = r.out /\ Exhausted(r).kind = r.kind
      <4>1. Exhausted(r) \in StreamRecords
        BY <2>3, <2>9 DEF Sound
      <4> QED BY <2>4 DEF r, Returns, Exhausted, StreamRecords
    <3> QED BY <3>1, <3>2, <3>3, <3>5, <3>6, <2>2, <2>3, <2>5, <1>2
  <2> QED BY <2>7, <2>8, <2>9
<1> QED BY <1>3, <1>4


LEMMA StepKeeps ==
  ASSUME SInv, NEW s \in Streams, Step(s)
  PROVE  SInv'
<1> DEFINE st == stream[s]
           x == st.xact
<1>1. /\ st.kind = "single" /\ busy = s /\ x.groups = <<>> /\ UNCHANGED <<block, blamed>>
      /\ DOMAIN stream = Streams /\ Sound(s, st, s, blamed) /\ s # None
  BY StreamsAreNotNone DEF SInv, Step
<1>2. CASE x.coming = {}
  <2>1. stream' = CompletePending(stream) /\ busy' = None
    BY <1>2 DEF Step
  <2>2. ASSUME NEW t \in Streams PROVE Sound(t, stream'[t], busy', blamed') /\ DOMAIN stream' = Streams
    <3>1. busy = t /\ PendingFails /\ stream[t].kind # "single" => t \in blamed
      BY <1>1
    <3>2. Sound(t, CompletePending(stream)[t], None, blamed) /\ DOMAIN CompletePending(stream) = Streams
      BY <3>1, Completed
    <3> QED BY <3>2, <2>1, <1>1
  <2>3. busy' \in Streams \cup {None} /\ block' \in {"I", "T", "E"} /\ blamed' \subseteq Streams
    BY <2>1, <1>1 DEF SInv
  <2> QED BY <1>1, <2>2, <2>3 DEF SInv
<1>3. CASE x.coming # {}
  <2>1. PICK n \in x.coming :
          /\ stream' = [stream EXCEPT ![s].xact.coming = {r \in @ : r > n},
                                      ![s].xact.groups = Append(@, {r \in x.coming : r <= n})]
          /\ UNCHANGED busy
    BY <1>3 DEF Step
  <2> DEFINE e == [st EXCEPT !.xact.coming = {r \in @ : r > n},
                             !.xact.groups = Append(@, {r \in st.xact.coming : r <= n})]
  <2>2. Sound(s, e, s, blamed)
    BY <1>1, SoundStep
  <2>3. DOMAIN stream' = Streams /\ stream'[s] = e /\ \A t \in Streams \ {s} : stream'[t] = stream[t]
    BY <2>1, <1>1
  <2> HIDE DEF e
  <2> QED BY <1>1, <2>1, <2>2, <2>3 DEF SInv
<1> QED BY <1>2, <1>3

LEMMA NextGroupKeeps ==
  ASSUME SInv, NEW s \in Streams, NextGroup(s)
  PROVE  SInv'
<1> DEFINE st == stream[s]
           x == st.xact
<1>1. /\ st.kind = "single" /\ x # None /\ (x.done \/ x.groups # <<>>)
      /\ DOMAIN stream = Streams /\ Sound(s, st, busy, blamed)
  BY DEF SInv, NextGroup
<1>2. CASE x.done /\ x.error
  <2>1. blamed' = blamed \cup {s} /\ block' = AfterFailure /\ UNCHANGED <<stream, busy>>
    BY <1>2 DEF NextGroup
  <2>2. \A t \in Streams : Sound(t, stream[t], busy, blamed')
    <3> TAKE t \in Streams
    <3>1. Sound(t, stream[t], busy, blamed) /\ (t \in blamed => t \in blamed')
      BY <2>1 DEF SInv
    <3> QED BY <3>1, SoundTold
  <2>3. block' \in {"I", "T", "E"} /\ blamed' \subseteq Streams
    BY <2>1 DEF SInv, AfterFailure
  <2> QED BY <2>1, <2>2, <2>3 DEF SInv
<1>3. CASE ~(x.done /\ x.error) /\ x.groups = <<>>
  <2>1. stream' = [stream EXCEPT ![s] = Exhausted(@)] /\ UNCHANGED <<busy, block, blamed>>
    BY <1>3 DEF NextGroup
  <2>2. x.done /\ ~x.error
    BY <1>1, <1>3
  <2>3. Sound(s, Exhausted(st), None, blamed)
    BY <1>1, <1>3, <2>2, SoundGroup
  <2>4. busy # s
    BY <1>1, <2>2 DEF Sound
  <2>5. Sound(s, Exhausted(st), busy, blamed)
    BY <2>3, <2>4, StreamsAreNotNone, SoundIdle
  <2>6. DOMAIN stream' = Streams /\ stream'[s] = Exhausted(st) /\ \A t \in Streams \ {s} : stream'[t] = stream[t]
    BY <2>1, <1>1
  <2> QED BY <2>1, <2>5, <2>6 DEF SInv
<1>4. CASE ~(x.done /\ x.error) /\ x.groups # <<>>
  <2> DEFINE e == GroupTaken(s, st)
  <2>1. stream' = [stream EXCEPT ![s] = e] /\ UNCHANGED <<busy, block, blamed>>
    BY <1>4 DEF NextGroup
  <2>2. Sound(s, e, busy, blamed)
    BY <1>1, <1>4, SoundGroup DEF GroupTaken
  <2> HIDE DEF e
  <2>3. DOMAIN stream' = Streams /\ stream'[s] = e /\ \A t \in Streams \ {s} : stream'[t] = stream[t]
    BY <2>1, <1>1
  <2> QED BY <2>1, <2>2, <2>3 DEF SInv
<1> QED BY <1>2, <1>3, <1>4

LEMMA OtherCallKeeps ==
  ASSUME SInv, OtherCall
  PROVE  SInv'
<1>1. CASE PendingFails
  BY <1>1, RaisedKeeps DEF OtherCall
<1>2. CASE ~PendingFails
  <2> DEFINE dies == {s \in Streams : stream[s].kind = "inside"}
  <2>1. /\ stream' = [s \in Streams |-> [CompletePending(stream)[s] EXCEPT !.alive = @ /\ stream[s].kind # "inside"]]
        /\ busy' = None /\ block' \in {"I", "T", "E"} /\ UNCHANGED blamed
    BY <1>2 DEF OtherCall
  <2>2. \A s \in Streams : (stream[s].kind # "inside") = (s \notin dies)
    OBVIOUS
  <2>3. stream' = [s \in Streams |-> [CompletePending(stream)[s] EXCEPT !.alive = @ /\ s \notin dies]]
    BY <2>1, <2>2
  <2>4. dies \in SUBSET Streams
    OBVIOUS
  <2> HIDE DEF dies
  <2> QED BY <1>2, <2>1, <2>3, <2>4, AnsweredKeeps
<1> QED BY <1>1, <1>2

LEMMA UnmadeIsSound ==
  ASSUME NEW s \in Streams
  PROVE  Sound(s, Unmade, None, {})
<1>1. Unmade \in StreamRecords
  BY DEF Unmade, StreamRecords
<1>2. <<>> = Upto(Len(<<>>)) /\ Len(<<>>) = 0
  BY DEF Upto
<1> QED BY <1>1, <1>2, StreamsAssumption, StreamsAreNotNone DEF Unmade, Sound, Chunked, Single

LEMMA StreamsBegin == StreamsInit => SInv
  BY UnmadeIsSound DEF StreamsInit, SInv

LEMMA StreamsStep == SInv /\ [StreamsNext]_streamVars => SInv'
<1> SUFFICES ASSUME SInv, [StreamsNext]_streamVars PROVE SInv'
  OBVIOUS
<1>1. ASSUME NEW s \in Streams, Open(s) PROVE SInv'
  BY <1>1, OpenKeeps
<1>2. ASSUME NEW s \in Streams, NextChunk(s) PROVE SInv'
  BY <1>2, NextChunkKeeps
<1>3. ASSUME NEW s \in Streams, Step(s) PROVE SInv'
  BY <1>3, StepKeeps
<1>4. ASSUME NEW s \in Streams, NextGroup(s) PROVE SInv'
  BY <1>4, NextGroupKeeps
<1>5. CASE OtherCall
  BY <1>5, OtherCallKeeps
<1>6. CASE UNCHANGED streamVars
  BY <1>6 DEF streamVars, SInv
<1> QED BY <1>1, <1>2, <1>3, <1>4, <1>5, <1>6 DEF StreamsNext

LEMMA StreamsFollows == SInv => StreamsTypeOK /\ StreamsComplete
<1> SUFFICES ASSUME SInv PROVE StreamsTypeOK /\ StreamsComplete
  OBVIOUS
<1>1. ASSUME NEW s \in Streams
      PROVE  /\ \A i \in DOMAIN stream[s].out : stream[s].out[i] = i
             /\ stream[s].ended => Len(stream[s].out) = stream[s].rows \/ s \in blamed
             /\ busy = s => stream[s].xact # None
  <2>1. Sound(s, stream[s], busy, blamed)
    BY DEF SInv
  <2>2. stream[s].out = Upto(Len(stream[s].out))
    BY <2>1 DEF Sound
  <2>3. \A i \in DOMAIN Upto(Len(stream[s].out)) : Upto(Len(stream[s].out))[i] = i
    BY DEF Upto
  <2> QED BY <2>1, <2>2, <2>3 DEF Sound
<1> QED BY <1>1 DEF SInv, StreamsTypeOK, StreamsComplete

\* A stream returns the rows of its result in order and each once, whatever its chunks, whoever completes its
\* requests, and it ends early only if somebody was told (pq3.MultiXactStream, FetchAll, Connection._pq_push).
THEOREM StreamsAreComplete == StreamsSpec => [](StreamsTypeOK /\ StreamsComplete)
<1>1. StreamsInit => SInv
  BY StreamsBegin
<1>2. SInv /\ [StreamsNext]_streamVars => SInv'
  BY StreamsStep
<1>3. SInv => StreamsTypeOK /\ StreamsComplete
  BY StreamsFollows
<1> QED BY <1>1, <1>2, <1>3, PTL DEF StreamsSpec


-----------------------------------------------------------------------------
(* Buffers *)

LEMMA UnfetchedIs ==
  ASSUME NEW p \in PortalRecords, p.pos <= Len(p.buf)
  PROVE  /\ Unfetched(p) \in Seq(Nat) /\ Len(Unfetched(p)) = Len(p.buf) - p.pos
         /\ \A i \in 1..(Len(p.buf) - p.pos) : Unfetched(p)[i] = p.buf[p.pos + i]
         /\ p.buf \in Seq(Nat) /\ p.pos \in Nat /\ Len(p.buf) \in Nat
<1>1. p.buf \in Seq(Nat) /\ p.pos \in Nat /\ Len(p.buf) \in Nat
  BY DEF PortalRecords
<1> DEFINE b == p.buf
           m == p.pos + 1
           n == Len(b)
<1>2. m \in Int /\ n \in Int /\ \A i \in m..n : b[i] \in Nat
  BY <1>1
<1>3. /\ SubSeq(b, m, n) \in Seq(Nat)
      /\ Len(SubSeq(b, m, n)) = IF m <= n THEN n - m + 1 ELSE 0
      /\ \A i \in 1..(n - m + 1) : SubSeq(b, m, n)[i] = b[m + i - 1]
  <2> HIDE DEF b, m, n
  <2> QED BY <1>2, SubSeqProperties
<1>4. (IF m <= n THEN n - m + 1 ELSE 0) = n - p.pos /\ n - m + 1 = n - p.pos
  BY <1>1
<1>5. \A i \in 1..(n - p.pos) : m + i - 1 = p.pos + i
  BY <1>1
<1> QED BY <1>1, <1>3, <1>4, <1>5 DEF Unfetched

LEMMA PrefixIs ==
  ASSUME NEW q \in Seq(Nat), NEW n \in 0..Len(q)
  PROVE  /\ SubSeq(q, 1, n) \in Seq(Nat) /\ Len(SubSeq(q, 1, n)) = n
         /\ \A i \in 1..n : SubSeq(q, 1, n)[i] = q[i]
<1>1. 1 \in Int /\ n \in Int /\ \A i \in 1..n : q[i] \in Nat
  OBVIOUS
<1>2. /\ SubSeq(q, 1, n) \in Seq(Nat)
      /\ Len(SubSeq(q, 1, n)) = IF 1 <= n THEN n - 1 + 1 ELSE 0
      /\ \A i \in 1..(n - 1 + 1) : SubSeq(q, 1, n)[i] = q[1 + i - 1]
  BY <1>1, SubSeqProperties
<1>3. (IF 1 <= n THEN n - 1 + 1 ELSE 0) = n /\ n - 1 + 1 = n /\ \A i \in 1..n : 1 + i - 1 = i
  OBVIOUS
<1> QED BY <1>2, <1>3

LEMMA PlacesBehind ==
  ASSUME NEW a \in Nat, NEW b \in Nat, NEW c \in Nat, NEW k \in Nat, k = b - a
  PROVE  /\ \A i \in 1..k : i \in 1..(k + c) /\ a + i \in 1..(b + c) /\ a + i <= b
         /\ \A i \in 1..c : /\ k + i \in 1..(k + c) /\ a + (k + i) \in 1..(b + c)
                            /\ ~(a + (k + i) <= b) /\ (a + (k + i)) - b = i
  OBVIOUS

LEMMA PlacesLeft ==
  ASSUME NEW a \in Nat, NEW k \in Nat, NEW n \in Nat, n <= k
  PROVE  \A i \in 1..(k - n) : n + i \in 1..k /\ a + (n + i) = a + n + i
  OBVIOUS

LEMMA JoinIs ==
  ASSUME NEW h \in Seq(Nat), NEW t \in Seq(Nat), NEW w \in Seq(Nat), Len(w) = Len(h) + Len(t),
         \A i \in 1..Len(h) : w[i] = h[i], \A i \in 1..Len(t) : w[Len(h) + i] = t[i]
  PROVE  h \o t = w
<1> DEFINE n == Len(h)
           k == Len(t)
<1>1. n \in Nat /\ k \in Nat
  OBVIOUS
<1>2. /\ h \o t \in Seq(Nat) /\ Len(h \o t) = n + k
      /\ \A i \in 1..(n + k) : (h \o t)[i] = IF i <= n THEN h[i] ELSE t[i - n]
  BY ConcatProperties
<1> HIDE DEF n, k
<1>3. ASSUME NEW i \in 1..(n + k) PROVE (h \o t)[i] = w[i]
  <2>1. CASE i <= n
    <3>1. i \in 1..n
      BY <2>1, <1>1
    <3> QED BY <2>1, <3>1, <1>2 DEF n
  <2>2. CASE ~(i <= n)
    <3>1. i - n \in 1..k /\ n + (i - n) = i
      BY <2>2, <1>1
    <3>2. w[n + (i - n)] = t[i - n]
      BY <3>1 DEF n, k
    <3> QED BY <2>2, <3>1, <3>2, <1>2
  <2> QED BY <2>1, <2>2
<1>4. Len(w) = n + k
  BY DEF n, k
<1> QED BY <1>2, <1>3, <1>4, SeqEqual

LEMMA PlacesKept ==
  ASSUME NEW a \in Nat, NEW l \in Nat, NEW n \in Nat, NEW k \in Nat, NEW m \in Nat, k = l - a, n <= k, m = a + n + 1
  PROVE  /\ \A i \in m..l : i \in 1..l
         /\ (IF m <= l THEN l - m + 1 ELSE 0) = k - n /\ l - m + 1 = k - n
         /\ \A i \in 1..(k - n) : m + i - 1 = a + n + i
  OBVIOUS

\* What a fetch takes and what the portal keeps are what there was.
LEMMA KeptIsRest ==
  ASSUME NEW p \in PortalRecords, p.pos <= Len(p.buf), NEW one \in BOOLEAN, NEW n \in 0..Len(Unfetched(p)),
         one => n = 1
  PROVE  LET r == KeptBy(p, n, one) IN
         /\ r \in PortalRecords /\ r.chunks = p.chunks /\ r.pos <= Len(r.buf)
         /\ SubSeq(Unfetched(p), 1, n) \o Unfetched(r) = Unfetched(p)
<1> DEFINE r == KeptBy(p, n, one)
           q == Unfetched(p)
           k == Len(p.buf) - p.pos
<1>1. /\ q \in Seq(Nat) /\ Len(q) = k /\ (\A i \in 1..k : q[i] = p.buf[p.pos + i])
      /\ p.buf \in Seq(Nat) /\ p.pos \in Nat /\ Len(p.buf) \in Nat
  BY UnfetchedIs
<1>0. p.buf \in Seq(Nat) /\ p.pos \in Nat /\ Len(p.buf) \in Nat
  BY <1>1
<1>2. n \in Nat /\ n <= k /\ k \in Nat /\ k = Len(p.buf) - p.pos
  BY <1>1
<1> HIDE DEF k
<1>3. /\ r \in PortalRecords /\ r.chunks = p.chunks /\ r.pos <= Len(r.buf) /\ Len(r.buf) - r.pos = k - n
      /\ \A i \in 1..(k - n) : r.buf[r.pos + i] = p.buf[p.pos + n + i]
  <2>1. CASE one
    <3>1. r = [p EXCEPT !.pos = @ + 1] /\ n = 1
      BY <2>1 DEF KeptBy
    <3>2. r \in PortalRecords /\ r.chunks = p.chunks /\ r.pos = p.pos + 1 /\ r.buf = p.buf
      <4> HIDE DEF r
      <4> QED BY <3>1, <1>0 DEF PortalRecords
    <3> HIDE DEF r
    <3>3. r.pos <= Len(r.buf) /\ Len(r.buf) - r.pos = k - n /\ \A i \in 1..(k - n) : r.pos + i = p.pos + n + i
      BY <3>1, <3>2, <1>0, <1>2
    <3> QED BY <3>2, <3>3
  <2>2. CASE ~one
    <3> DEFINE c == SubSeq(p.buf, p.pos + n + 1, Len(p.buf))
               m == p.pos + n + 1
               l == Len(p.buf)
    <3>1. r = [p EXCEPT !.buf = c, !.pos = 0]
      BY <2>2 DEF KeptBy
    <3>0. /\ p.pos \in Nat /\ l \in Nat /\ n \in Nat /\ k \in Nat /\ m \in Nat /\ k = l - p.pos /\ n <= k
          /\ m = p.pos + n + 1 /\ l = Len(p.buf)
      BY <1>0, <1>2
    <3>2. m \in Int /\ l \in Int /\ \A i \in m..l : p.buf[i] \in Nat
      <4>1. m \in Int /\ l \in Int /\ \A i \in m..l : i \in 1..Len(p.buf)
        BY <3>0, PlacesKept
      <4> HIDE DEF m, l
      <4> QED BY <4>1, <1>0, ElementOfSeq
    <3>3. /\ SubSeq(p.buf, m, l) \in Seq(Nat)
          /\ Len(SubSeq(p.buf, m, l)) = IF m <= l THEN l - m + 1 ELSE 0
          /\ \A i \in 1..(l - m + 1) : SubSeq(p.buf, m, l)[i] = p.buf[m + i - 1]
      <4> HIDE DEF m, l
      <4> QED BY <3>2, SubSeqProperties
    <3>4. /\ (IF m <= l THEN l - m + 1 ELSE 0) = k - n /\ l - m + 1 = k - n
          /\ \A i \in 1..(k - n) : m + i - 1 = p.pos + n + i
      <4> DEFINE a == p.pos
      <4>1. /\ a \in Nat /\ l \in Nat /\ n \in Nat /\ k \in Nat /\ m \in Nat /\ k = l - a /\ n <= k
            /\ m = a + n + 1
        BY <3>0
      <4> HIDE DEF r, q, c, m, l, a
      <4>2. /\ (IF m <= l THEN l - m + 1 ELSE 0) = k - n /\ l - m + 1 = k - n
            /\ \A i \in 1..(k - n) : m + i - 1 = a + n + i
        BY <4>1, PlacesKept
      <4> QED BY <4>2 DEF a
    <3>5. c \in Seq(Nat) /\ Len(c) = k - n /\ \A i \in 1..(k - n) : c[i] = p.buf[p.pos + n + i]
      BY <3>3, <3>4
    <3> HIDE DEF c
    <3>6. r \in PortalRecords /\ r.chunks = p.chunks /\ r.pos = 0 /\ r.buf = c
      <4> HIDE DEF r
      <4> QED BY <3>1, <3>5 DEF PortalRecords
    <3> HIDE DEF r
    <3>7. \A i \in 1..(k - n) : r.pos + i = i
      BY <3>6
    <3>8. r.pos <= Len(r.buf) /\ Len(r.buf) - r.pos = k - n
      BY <3>5, <3>6, <1>2
    <3> QED BY <3>5, <3>6, <3>7, <3>8
  <2> QED BY <2>1, <2>2
<1> HIDE DEF r
<1> DEFINE t == Unfetched(r)
           h == SubSeq(q, 1, n)
<1>4. t \in Seq(Nat) /\ Len(t) = k - n /\ \A i \in 1..(k - n) : t[i] = p.buf[p.pos + n + i]
  BY <1>3, UnfetchedIs
<1>5. h \in Seq(Nat) /\ Len(h) = n /\ \A i \in 1..n : h[i] = q[i]
  <2> HIDE DEF q
  <2>1. q \in Seq(Nat) /\ n \in 0..Len(q)
    BY <1>1, <1>2 DEF k
  <2> QED BY <2>1, PrefixIs
<1> HIDE DEF q, t, h
<1>6. h \o t = q
  <2>1. q \in Seq(Nat) /\ Len(q) = Len(h) + Len(t)
    <3>1. q \in Seq(Nat) /\ Len(q) = k
      BY <1>1 DEF q, k
    <3>2. n + (k - n) = k
      BY <1>2
    <3> QED BY <3>1, <3>2, <1>4, <1>5
  <2>2. ASSUME NEW i \in 1..Len(t) PROVE q[Len(h) + i] = t[i]
    <3>1. i \in 1..(k - n)
      BY <1>4
    <3>2. n + i \in 1..k /\ p.pos + (n + i) = p.pos + n + i
      <4> DEFINE a == p.pos
      <4>1. a \in Nat /\ k \in Nat /\ n \in Nat /\ n <= k
        BY <1>0, <1>2
      <4> HIDE DEF a
      <4>2. n + i \in 1..k /\ a + (n + i) = a + n + i
        BY <3>1, <4>1, PlacesLeft
      <4> QED BY <4>2 DEF a
    <3>3. q[n + i] = p.buf[p.pos + (n + i)]
      BY <3>2, <1>1 DEF q, k
    <3> QED BY <3>1, <3>2, <3>3, <1>4, <1>5
  <2>3. \A i \in 1..Len(h) : q[i] = h[i]
    BY <1>5
  <2> QED BY <2>1, <2>2, <2>3, <1>4, <1>5, JoinIs
<1> QED BY <1>3, <1>6 DEF r, q, t, h

\* A chunk goes behind what the portal has.
LEMMA ExtendedIsMore ==
  ASSUME NEW p \in PortalRecords, p.pos <= Len(p.buf), NEW new \in Seq(Nat), NEW one \in BOOLEAN, NEW amount,
         one => Unfetched(p) = <<>> /\ amount # None
  PROVE  LET r == Extended(p, new, one, amount) IN
         /\ r \in PortalRecords /\ r.chunks = p.chunks /\ r.pos <= Len(r.buf)
         /\ Unfetched(r) = Unfetched(p) \o new
<1> DEFINE r == Extended(p, new, one, amount)
           q == Unfetched(p)
           k == Len(p.buf) - p.pos
<1>1. /\ q \in Seq(Nat) /\ Len(q) = k /\ (\A i \in 1..k : q[i] = p.buf[p.pos + i])
      /\ p.buf \in Seq(Nat) /\ p.pos \in Nat /\ Len(p.buf) \in Nat /\ k \in Nat /\ Len(new) \in Nat
  BY UnfetchedIs
<1>0. p.buf \in Seq(Nat) /\ p.pos \in Nat /\ Len(p.buf) \in Nat /\ k \in Nat /\ Len(new) \in Nat /\ k = Len(p.buf) - p.pos
  BY <1>1
<1> HIDE DEF q, k
<1>2. ASSUME NEW all \in Seq(Nat)
      PROVE  LET e == [p EXCEPT !.buf = all, !.pos = 0] IN
             e \in PortalRecords /\ e.chunks = p.chunks /\ e.pos <= Len(e.buf) /\ Unfetched(e) = all
  <2> DEFINE e == [p EXCEPT !.buf = all, !.pos = 0]
  <2>1. e \in PortalRecords /\ e.chunks = p.chunks /\ e.pos = 0 /\ e.buf = all
    BY DEF PortalRecords
  <2>2. SubSeq(all, 1, Len(all)) = all
    BY SubSeqFull
  <2>3. 0 + 1 = 1 /\ 0 <= Len(all)
    OBVIOUS
  <2> HIDE DEF e
  <2>4. Unfetched(e) = all
    BY <2>1, <2>2, <2>3 DEF Unfetched
  <2> QED BY <2>1, <2>3, <2>4 DEF e
<1>3. CASE one
  <2>1. r = [p EXCEPT !.buf = new, !.pos = 0]
    BY <1>3 DEF Extended
  <2>2. q \o new = new
    BY <1>3, ConcatEmptySeq DEF q
  <2>3. new \in Seq(Nat) /\ q \o new \in Seq(Nat)
    BY <2>2, <1>1
  <2>4. r \in PortalRecords /\ r.chunks = p.chunks /\ r.pos <= Len(r.buf) /\ Unfetched(r) = q \o new
    <3> HIDE DEF r
    <3> QED BY <1>2, <2>1, <2>2, <2>3
  <2> QED BY <2>4 DEF q
<1>4. CASE ~one /\ amount = None
  <2>1. r = [p EXCEPT !.buf = q \o new, !.pos = 0]
    BY <1>4 DEF Extended, q
  <2>2. q \o new \in Seq(Nat)
    BY <1>1
  <2>3. new \in Seq(Nat) /\ q \o new \in Seq(Nat)
    BY <2>2, <1>1
  <2>4. r \in PortalRecords /\ r.chunks = p.chunks /\ r.pos <= Len(r.buf) /\ Unfetched(r) = q \o new
    <3> HIDE DEF r
    <3> QED BY <1>2, <2>1, <2>2, <2>3
  <2> QED BY <2>4 DEF q
<1>5. CASE ~one /\ amount # None
  <2>1. r = [p EXCEPT !.buf = @ \o new]
    BY <1>5 DEF Extended
  <2> DEFINE all == p.buf \o new
  <2>2. /\ all \in Seq(Nat) /\ Len(all) = Len(p.buf) + Len(new)
        /\ \A i \in 1..(Len(p.buf) + Len(new)) : all[i] = IF i <= Len(p.buf) THEN p.buf[i] ELSE new[i - Len(p.buf)]
    BY <1>1, ConcatProperties
  <2> HIDE DEF all
  <2>3. r \in PortalRecords /\ r.chunks = p.chunks /\ r.pos = p.pos /\ r.buf = all
    BY <2>1, <2>2 DEF PortalRecords, all
  <2> HIDE DEF r
  <2>4. r.pos <= Len(r.buf) /\ Len(r.buf) - r.pos = k + Len(new)
    <3>1. r.pos = p.pos /\ Len(r.buf) = Len(p.buf) + Len(new)
      BY <2>2, <2>3
    <3>2. p.pos <= Len(p.buf) /\ p.pos \in Nat /\ Len(p.buf) \in Nat /\ Len(new) \in Nat /\ k = Len(p.buf) - p.pos
      BY <1>0
    <3> QED BY <3>1, <3>2
  <2> DEFINE t == Unfetched(r)
  <2>5. t \in Seq(Nat) /\ Len(t) = k + Len(new) /\ \A i \in 1..(k + Len(new)) : t[i] = all[p.pos + i]
    BY <2>3, <2>4, UnfetchedIs
  <2> HIDE DEF t
  <2>6. q \in Seq(Nat) /\ Len(q) = k
    BY <1>1 DEF q, k
  <2>7. ASSUME NEW i \in 1..Len(q) PROVE t[i] = q[i]
    <3>1. i \in 1..k
      BY <2>6
    <3>2. /\ i \in 1..(k + Len(new)) /\ p.pos + i \in 1..(Len(p.buf) + Len(new))
          /\ p.pos + i <= Len(p.buf)
      <4> DEFINE a == p.pos
                 b == Len(p.buf)
                 c == Len(new)
      <4>1. a \in Nat /\ b \in Nat /\ c \in Nat /\ k \in Nat /\ k = b - a
        BY <1>0
      <4> HIDE DEF a, b, c
      <4>2. i \in 1..(k + c) /\ a + i \in 1..(b + c) /\ a + i <= b
        BY <3>1, <4>1, PlacesBehind
      <4> QED BY <4>2 DEF a, b, c
    <3>3. t[i] = p.buf[p.pos + i]
      BY <3>2, <2>2, <2>5
    <3>4. q[i] = p.buf[p.pos + i]
      BY <3>1, <1>1 DEF q, k
    <3> QED BY <3>3, <3>4
  <2>8. \A i \in 1..Len(new) :
            /\ k + i \in 1..(k + Len(new)) /\ p.pos + (k + i) \in 1..(Len(p.buf) + Len(new))
            /\ ~(p.pos + (k + i) <= Len(p.buf)) /\ (p.pos + (k + i)) - Len(p.buf) = i
    <3> DEFINE a == p.pos
               b == Len(p.buf)
               c == Len(new)
    <3>1. a \in Nat /\ b \in Nat /\ c \in Nat /\ k \in Nat /\ k = b - a
      BY <1>0
    <3> HIDE DEF a, b, c
    <3>2. \A i \in 1..c : /\ k + i \in 1..(k + c) /\ a + (k + i) \in 1..(b + c)
                          /\ ~(a + (k + i) <= b) /\ (a + (k + i)) - b = i
      BY <3>1, PlacesBehind
    <3> QED BY <3>2 DEF a, b, c
  <2>9. ASSUME NEW i \in 1..Len(new) PROVE t[Len(q) + i] = new[i]
    <3>1. /\ k + i \in 1..(k + Len(new)) /\ p.pos + (k + i) \in 1..(Len(p.buf) + Len(new))
          /\ ~(p.pos + (k + i) <= Len(p.buf)) /\ (p.pos + (k + i)) - Len(p.buf) = i
      BY <2>8
    <3> QED BY <3>1, <2>2, <2>5, <2>6
  <2>10. q \o new = t
    BY <2>5, <2>6, <2>7, <2>9, JoinIs
  <2> QED BY <2>3, <2>4, <2>10 DEF t, q, r
<1> QED BY <1>3, <1>4, <1>5

LEMMA NewOfExtension ==
  ASSUME NEW u \in Seq(Nat), NEW v \in Seq(Nat)
  PROVE  SubSeq(u \o v, Len(u) + 1, Len(u \o v)) = v
<1> DEFINE w == u \o v
           m == Len(u) + 1
           n == Len(u) + Len(v)
<1>1. /\ w \in Seq(Nat) /\ Len(w) = n /\ n \in Int /\ m \in Int
      /\ \A i \in 1..n : w[i] = IF i <= Len(u) THEN u[i] ELSE v[i - Len(u)]
  BY ConcatProperties
<1>2. \A i \in m..n : w[i] \in Nat
  BY <1>1
<1>3. /\ SubSeq(w, m, n) \in Seq(Nat)
      /\ Len(SubSeq(w, m, n)) = IF m <= n THEN n - m + 1 ELSE 0
      /\ \A i \in 1..(n - m + 1) : SubSeq(w, m, n)[i] = w[m + i - 1]
  <2> HIDE DEF w, m, n
  <2> QED BY <1>1, <1>2, SubSeqProperties
<1>4. (IF m <= n THEN n - m + 1 ELSE 0) = Len(v) /\ n - m + 1 = Len(v)
  OBVIOUS
<1>5. ASSUME NEW i \in 1..Len(v) PROVE SubSeq(w, m, n)[i] = v[i]
  <2>1. m + i - 1 \in 1..n /\ ~(m + i - 1 <= Len(u)) /\ (m + i - 1) - Len(u) = i
    OBVIOUS
  <2> HIDE DEF w, m
  <2> QED BY <2>1, <1>1, <1>3, <1>4
<1>6. SubSeq(w, m, n) = v
  <2> HIDE DEF w, m, n
  <2> QED BY <1>3, <1>4, <1>5, SeqEqual
<1> QED BY <1>1, <1>6

LEMMA PrefixOfUpto ==
  ASSUME NEW u \in Seq(Nat), NEW v \in Seq(Nat), NEW m \in Nat, u \o v = Upto(m)
  PROVE  u = Upto(Len(u)) /\ Len(u) + Len(v) = m
<1>1. Len(Upto(m)) = m /\ \A i \in 1..m : Upto(m)[i] = i
  BY UptoIsSeq
<1>2. Len(u) + Len(v) = m /\ Len(u) \in Nat /\ Len(v) \in Nat
  BY <1>1
<1>3. Upto(Len(u)) \in Seq(Nat) /\ Len(Upto(Len(u))) = Len(u) /\ \A i \in 1..Len(u) : Upto(Len(u))[i] = i
  BY <1>2, UptoIsSeq
<1>4. \A i \in 1..Len(u) : u[i] = i
  <2> TAKE i \in 1..Len(u)
  <2>1. i \in 1..m /\ (u \o v)[i] = u[i]
    BY <1>2
  <2> QED BY <2>1, <1>1
<1> QED BY <1>2, <1>3, <1>4, SeqEqual


-----------------------------------------------------------------------------
(* What each portal and each caller has of a stream *)

Holds(c, i) == portals[c] # None /\ i \in DOMAIN portals[c]

PortalTypes ==
  /\ portals \in [DbCursors -> {None} \cup Seq(PortalRecords)]
  /\ returned \in [Streams -> [rows : Seq(Nat), ended : BOOLEAN]]

\* No stream has two portals.
EachOnce ==
  \A c \in DbCursors, d \in DbCursors : \A i \in Nat, j \in Nat :
    Holds(c, i) /\ Holds(d, j) /\ portals[c][i].chunks = portals[d][j].chunks => c = d /\ i = j

LEMMA NoneTwice ==
  ASSUME EachOnce, NEW c \in DbCursors, NEW d \in DbCursors, NEW i \in Nat, NEW j \in Nat,
         Holds(c, i), Holds(d, j), portals[c][i].chunks = portals[d][j].chunks
  PROVE  c = d /\ i = j
  BY Zenon DEF EachOnce

\* What callers got and what the portal has not given them is what its stream has returned.
BufferedBy(p) ==
  /\ p.pos <= Len(p.buf)
  /\ stream[p.chunks].kind \in {"inside", "outside"}
  /\ returned[p.chunks].rows \o Unfetched(p) = stream[p.chunks].out
Buffered == \A c \in DbCursors : \A i \in Nat : Holds(c, i) => BufferedBy(portals[c][i])

GivenOf(s) ==
  /\ stream[s].kind = None => returned[s].rows = <<>> /\ ~returned[s].ended
  /\ returned[s].rows = Upto(Len(returned[s].rows))
  /\ returned[s].ended => stream[s].ended /\ Len(returned[s].rows) = Len(stream[s].out)

PInv == PortalTypes /\ EachOnce /\ Buffered /\ \A s \in Streams : GivenOf(s)

DInv == SInv /\ PInv /\ _xact \in {"open", "initialized", None} /\ TransactionKept

LEMMA PortalHeld ==
  ASSUME PortalTypes, NEW c \in DbCursors, NEW i, Holds(c, i)
  PROVE  /\ portals[c] \in Seq(PortalRecords) /\ i \in 1..Len(portals[c]) /\ i \in Nat /\ portals[c][i] \in PortalRecords
         /\ portals[c][i].chunks \in Streams
<1>1. portals[c] \in Seq(PortalRecords)
  BY DEF PortalTypes, Holds
<1>2. i \in 1..Len(portals[c]) /\ Len(portals[c]) \in Nat
  BY <1>1 DEF Holds
<1>3. portals[c][i] \in PortalRecords
  BY <1>1, <1>2, ElementOfSeq
<1> QED BY <1>1, <1>2, <1>3 DEF PortalRecords

LEMMA ReturnedFields ==
  ASSUME PortalTypes, NEW s \in Streams
  PROVE  returned[s].rows \in Seq(Nat) /\ returned[s].ended \in BOOLEAN /\ Len(returned[s].rows) \in Nat
  BY DEF PortalTypes

\* Steps of the connection that leave the cursors alone.
LEMMA ConnectionKeeps ==
  ASSUME PInv, \A s \in Streams : Kept(s), UNCHANGED <<portals, returned>>
  PROVE  PInv'
<1>1. PortalTypes' /\ EachOnce'
  BY DEF PInv, PortalTypes, EachOnce, Holds
<1>2. Buffered'
  <2>1. SUFFICES ASSUME NEW c \in DbCursors, NEW i \in Nat, Holds(c, i) PROVE BufferedBy(portals[c][i])'
    BY DEF Buffered, Holds
  <2>2. portals[c][i].chunks \in Streams /\ BufferedBy(portals[c][i])
    BY <2>1, PortalHeld DEF PInv, Buffered
  <2>3. Kept(portals[c][i].chunks)
    BY <2>2
  <2> QED BY <2>2, <2>3 DEF BufferedBy, Kept, Alike, Unfetched
<1>3. \A s \in Streams : GivenOf(s)'
  BY DEF PInv, GivenOf, Kept, Alike
<1> QED BY <1>1, <1>2, <1>3 DEF PInv

\* Cursors that give up portals.
LEMMA DroppedKeeps ==
  ASSUME PInv, \A s \in Streams : Kept(s), UNCHANGED returned,
         NEW c \in DbCursors, NEW q \in {None} \cup Seq(PortalRecords), portals' = [portals EXCEPT ![c] = q],
         NEW k \in {0, 1},
         \A i \in Nat : q # None /\ i \in DOMAIN q => Holds(c, i + k) /\ portals[c][i + k] = q[i]
  PROVE  PInv'
<1>1. /\ DOMAIN portals = DbCursors /\ PortalTypes' /\ portals'[c] = q
      /\ \A d \in DbCursors \ {c} : portals'[d] = portals[d]
  BY DEF PInv, PortalTypes
<1> DEFINE at(d, i) == IF d = c THEN i + k ELSE i
<1>2. ASSUME NEW d \in DbCursors, NEW i \in Nat, Holds(d, i)'
      PROVE  at(d, i) \in Nat /\ Holds(d, at(d, i)) /\ portals[d][at(d, i)] = portals'[d][i]
  <2>1. CASE d = c
    BY <1>1, <1>2, <2>1 DEF Holds
  <2>2. CASE d # c
    BY <1>1, <1>2, <2>2 DEF Holds
  <2> QED BY <2>1, <2>2
<1>3. EachOnce'
  <2>1. SUFFICES ASSUME NEW d \in DbCursors, NEW e \in DbCursors, NEW i \in Nat, NEW j \in Nat,
                        Holds(d, i)', Holds(e, j)', portals'[d][i].chunks = portals'[e][j].chunks
                 PROVE  d = e /\ i = j
    BY DEF EachOnce
  <2>2. d = e /\ at(d, i) = at(e, j)
    <3>1. /\ at(d, i) \in Nat /\ Holds(d, at(d, i)) /\ portals[d][at(d, i)] = portals'[d][i]
          /\ at(e, j) \in Nat /\ Holds(e, at(e, j)) /\ portals[e][at(e, j)] = portals'[e][j]
      BY <1>2, <2>1
    <3> HIDE DEF at
    <3>2. EachOnce /\ portals[d][at(d, i)].chunks = portals[e][at(e, j)].chunks
      BY <2>1, <3>1 DEF PInv
    <3> QED BY <3>1, <3>2, NoneTwice, Zenon
  <2> QED BY <2>2
<1>4. Buffered'
  <2>1. SUFFICES ASSUME NEW d \in DbCursors, NEW i \in Nat, Holds(d, i)' PROVE BufferedBy(portals[d][i])'
    BY DEF Buffered
  <2> DEFINE p == portals'[d][i]
  <2>2. p.chunks \in Streams /\ BufferedBy(p)
    <3>1. at(d, i) \in Nat /\ Holds(d, at(d, i)) /\ portals[d][at(d, i)] = p
      BY <1>2, <2>1
    <3> HIDE DEF at, p
    <3> QED BY <3>1, PortalHeld DEF PInv, Buffered
  <2>3. Kept(p.chunks)
    BY <2>2
  <2> HIDE DEF p
  <2>4. /\ p.pos <= Len(p.buf) /\ stream'[p.chunks].kind \in {"inside", "outside"}
        /\ returned'[p.chunks].rows \o Unfetched(p) = stream'[p.chunks].out
    BY <2>2, <2>3 DEF BufferedBy, Kept, Alike
  <2> QED BY <2>4 DEF BufferedBy, Unfetched, p
<1>5. \A s \in Streams : GivenOf(s)'
  BY DEF PInv, GivenOf, Kept, Alike
<1> QED BY <1>1, <1>3, <1>4, <1>5 DEF PInv

\* A portal of a new stream goes before the others.
LEMMA ExecutedKeeps ==
  ASSUME PInv, NEW s \in Streams, \A t \in Streams \ {s} : Kept(t), UNCHANGED returned,
         stream[s].kind = None, stream'[s].kind \in {"inside", "outside"}, stream'[s].out = <<>>,
         NEW c \in DbCursors, portals[c] # None,
         portals' = [portals EXCEPT ![c] = <<[chunks |-> s, buf |-> <<>>, pos |-> 0]>> \o @]
  PROVE  PInv'
<1> DEFINE new == [chunks |-> s, buf |-> <<>>, pos |-> 0]
           q == portals[c]
           r == <<new>> \o q
<1>1. new \in PortalRecords /\ new.chunks = s /\ new.buf = <<>> /\ new.pos = 0
  BY DEF PortalRecords
<1> HIDE DEF new
<1>2. q \in Seq(PortalRecords) /\ DOMAIN portals = DbCursors
  BY DEF PInv, PortalTypes
<1>3. /\ r \in Seq(PortalRecords) /\ Len(r) = Len(q) + 1 /\ r[1] = new
      /\ \A i \in 1..Len(r) : i # 1 => i - 1 \in 1..Len(q) /\ r[i] = q[i - 1]
  <2>1. <<new>> \in Seq(PortalRecords) /\ Len(<<new>>) = 1 /\ <<new>>[1] = new
    BY <1>1
  <2> QED BY <1>2, <2>1
<1>4. /\ portals'[c] = r /\ r # None /\ \A d \in DbCursors \ {c} : portals'[d] = portals[d]
  BY <1>2, <1>3, DbApiAssumption DEF new
<1>5. PortalTypes'
  BY <1>2, <1>3 DEF PInv, PortalTypes, new
<1> HIDE DEF r
<1> DEFINE at(d, i) == IF d = c THEN i - 1 ELSE i
<1>6. ASSUME NEW d \in DbCursors, NEW i \in Nat, Holds(d, i)'
      PROVE  \/ d = c /\ i = 1 /\ portals'[d][i] = new
             \/ /\ at(d, i) \in Nat /\ Holds(d, at(d, i)) /\ portals[d][at(d, i)] = portals'[d][i]
                /\ portals'[d][i].chunks \in Streams \ {s} /\ BufferedBy(portals'[d][i])
  <2>1. CASE d = c /\ i = 1
    BY <2>1, <1>3, <1>4
  <2>2. CASE ~(d = c /\ i = 1)
    <3>1. at(d, i) \in Nat /\ Holds(d, at(d, i)) /\ portals[d][at(d, i)] = portals'[d][i]
      <4>1. CASE d = c
        <5>1. i \in 1..Len(r)
          BY <4>1, <1>3, <1>4, <1>6 DEF Holds
        <5> QED BY <4>1, <5>1, <2>2, <1>2, <1>3, <1>4 DEF Holds
      <4>2. CASE d # c
        BY <4>2, <1>4, <1>6 DEF Holds
      <4> QED BY <4>1, <4>2
    <3> HIDE DEF at
    <3>2. portals'[d][i].chunks \in Streams /\ BufferedBy(portals'[d][i])
      BY <3>1, PortalHeld DEF PInv, Buffered
    <3>3. portals'[d][i].chunks # s
      BY <3>2, StreamsAssumption DEF BufferedBy
    <3> QED BY <3>1, <3>2, <3>3
  <2> QED BY <2>1, <2>2
<1>7. EachOnce'
  <2>1. SUFFICES ASSUME NEW d \in DbCursors, NEW e \in DbCursors, NEW i \in Nat, NEW j \in Nat,
                        Holds(d, i)', Holds(e, j)', portals'[d][i].chunks = portals'[e][j].chunks
                 PROVE  d = e /\ i = j
    BY DEF EachOnce
  <2>2. CASE portals'[d][i].chunks = s
    <3>1. d = c /\ i = 1
      BY <1>6, <2>1, <2>2
    <3>2. e = c /\ j = 1
      <4>1. portals'[e][j].chunks \notin Streams \ {s}
        BY <2>1, <2>2
      <4>2. \/ e = c /\ j = 1 /\ portals'[e][j] = new
            \/ portals'[e][j].chunks \in Streams \ {s}
        BY <1>6, <2>1
      <4> QED BY <4>1, <4>2
    <3> QED BY <3>1, <3>2
  <2>3. CASE portals'[d][i].chunks # s
    <3>1. /\ at(d, i) \in Nat /\ Holds(d, at(d, i)) /\ portals[d][at(d, i)] = portals'[d][i]
          /\ at(e, j) \in Nat /\ Holds(e, at(e, j)) /\ portals[e][at(e, j)] = portals'[e][j]
      BY <1>1, <1>6, <2>1, <2>3
    <3>2. d = e /\ at(d, i) = at(e, j)
      <4> HIDE DEF at
      <4>1. EachOnce /\ portals[d][at(d, i)].chunks = portals[e][at(e, j)].chunks
        BY <2>1, <3>1 DEF PInv
      <4> QED BY <3>1, <4>1, NoneTwice, Zenon
    <3> QED BY <3>2
  <2> QED BY <2>2, <2>3
<1>8. GivenOf(s) /\ returned[s].rows = <<>> /\ ~returned[s].ended
  BY DEF PInv, GivenOf
<1>9. Buffered'
  <2>1. SUFFICES ASSUME NEW d \in DbCursors, NEW i \in Nat, Holds(d, i)' PROVE BufferedBy(portals[d][i])'
    BY DEF Buffered
  <2> DEFINE p == portals'[d][i]
  <2>2. CASE p = new
    <3>1. Unfetched(new) = <<>>
      <4>1. new.pos <= Len(new.buf) /\ Len(new.buf) - new.pos = 0
        BY <1>1
      <4>2. Unfetched(new) \in Seq(Nat) /\ Len(Unfetched(new)) = 0
        BY <4>1, <1>1, UnfetchedIs
      <4> QED BY <4>2
    <3>2. /\ new.pos <= Len(new.buf) /\ stream'[new.chunks].kind \in {"inside", "outside"}
          /\ returned'[new.chunks].rows \o Unfetched(new) = stream'[new.chunks].out
      BY <3>1, <1>1, <1>8
    <3> HIDE DEF p
    <3>3. /\ p.pos <= Len(p.buf) /\ stream'[p.chunks].kind \in {"inside", "outside"}
          /\ returned'[p.chunks].rows \o Unfetched(p) = stream'[p.chunks].out
      BY <3>2, <2>2
    <3> QED BY <3>3 DEF BufferedBy, Unfetched, p
  <2>3. CASE p # new
    <3>1. p.chunks \in Streams \ {s} /\ BufferedBy(p)
      BY <1>6, <2>1, <2>3
    <3>2. Kept(p.chunks)
      BY <3>1
    <3> HIDE DEF p
    <3>3. /\ p.pos <= Len(p.buf) /\ stream'[p.chunks].kind \in {"inside", "outside"}
          /\ returned'[p.chunks].rows \o Unfetched(p) = stream'[p.chunks].out
      BY <3>1, <3>2 DEF BufferedBy, Kept, Alike
    <3> QED BY <3>3 DEF BufferedBy, Unfetched, p
  <2> QED BY <2>2, <2>3
<1>10. ASSUME NEW t \in Streams PROVE GivenOf(t)'
  <2>1. CASE t = s
    <3>1. stream'[s].kind # None
      BY StreamsAssumption
    <3> QED BY <2>1, <3>1, <1>8 DEF GivenOf
  <2>2. CASE t # s
    BY <2>2 DEF PInv, GivenOf, Kept, Alike
  <2> QED BY <2>1, <2>2
<1> QED BY <1>5, <1>7, <1>9, <1>10 DEF PInv

LEMMA HasFirst ==
  ASSUME NEW S, NEW q \in Seq(S), q # <<>>
  PROVE  Len(q) \in Nat /\ 1 \in 1..Len(q) /\ DOMAIN q = 1..Len(q)
<1> DEFINE n == Len(q)
<1>1. n \in Nat /\ n # 0 /\ DOMAIN q = 1..n
  BY EmptySeq, LenProperties
<1> HIDE DEF n
<1>2. 1 \in 1..n
  BY <1>1
<1> QED BY <1>1, <1>2 DEF n

\* The current portal of a cursor becomes r.
HeadBecomes(c, r) == portals' = [portals EXCEPT ![c][1] = r]

LEMMA HeadBecomesIs ==
  ASSUME NEW c, NEW r, HeadBecomes(c, r)
  PROVE  portals' = [portals EXCEPT ![c] = [portals[c] EXCEPT ![1] = r]]
BY DEF HeadBecomes

\* What r, of the stream s, then holds is what the stream has given and was not returned.
HeadHolds(r, s) ==
  /\ r.pos <= Len(r.buf) /\ stream'[s].kind \in {"inside", "outside"}
  /\ returned'[s].rows \o Unfetched(r) = stream'[s].out

\* The current portal of a cursor is replaced by one of the same stream, about which the step is.
LEMMA HeadKeeps ==
  ASSUME PInv, NEW c \in DbCursors, portals[c] # None, portals[c] # <<>>,
         NEW r \in PortalRecords, NEW s \in Streams, s = portals[c][1].chunks, r.chunks = s,
         HeadBecomes(c, r),
         \A t \in Streams \ {s} : Kept(t) /\ returned'[t] = returned[t],
         returned' \in [Streams -> [rows : Seq(Nat), ended : BOOLEAN]],
         HeadHolds(r, s), GivenOf(s)'
  PROVE  PInv'
<1> DEFINE q == portals[c]
           w == [q EXCEPT ![1] = r]
<1>1. /\ q \in Seq(PortalRecords) /\ Len(q) \in Nat /\ 1 \in 1..Len(q) /\ DOMAIN q = 1..Len(q)
      /\ DOMAIN portals = DbCursors
  <2>1. q \in Seq(PortalRecords) /\ DOMAIN portals = DbCursors
    BY DEF PInv, PortalTypes
  <2>2. q # <<>>
    OBVIOUS
  <2> HIDE DEF q
  <2> QED BY <2>1, <2>2, HasFirst
<1>2. /\ w \in Seq(PortalRecords) /\ DOMAIN w = DOMAIN q /\ w[1] = r
      /\ \A i \in DOMAIN q \ {1} : w[i] = q[i]
  <2> HIDE DEF q
  <2>1. w \in Seq(PortalRecords) /\ DOMAIN w = DOMAIN q
    BY <1>1, ExceptSeq
  <2> QED BY <1>1, <2>1
<1> HIDE DEF w
<1>0. Holds(c, 1) /\ EachOnce
  BY <1>1 DEF Holds, PInv
<1>3. portals' = [portals EXCEPT ![c] = w]
  BY HeadBecomesIs DEF w
<1>4. portals'[c] = w /\ w # None /\ (\A d \in DbCursors \ {c} : portals'[d] = portals[d]) /\ PortalTypes'
  <2>1. w # None
    BY <1>2, DbApiAssumption
  <2> QED BY <1>1, <1>2, <1>3, <2>1 DEF PInv, PortalTypes
<1>5. ASSUME NEW d \in DbCursors, NEW i \in Nat, Holds(d, i)'
      PROVE  /\ Holds(d, i) /\ portals[d][i].chunks = portals'[d][i].chunks
             /\ d = c /\ i = 1 => portals'[d][i] = r
             /\ ~(d = c /\ i = 1) => portals'[d][i] = portals[d][i] /\ portals'[d][i].chunks \in Streams \ {s}
  <2>1. CASE d = c
    <3>1. i \in DOMAIN q /\ Holds(d, i)
      BY <2>1, <1>2, <1>4, <1>5 DEF Holds
    <3>2. CASE i = 1
      BY <2>1, <3>1, <3>2, <1>2, <1>4
    <3>3. CASE i # 1
      <4>1. portals'[d][i] = portals[d][i]
        BY <2>1, <3>1, <3>3, <1>2, <1>4
      <4>2. portals[d][i].chunks \in Streams
        BY <3>1, PortalHeld DEF PInv
      <4>3. portals[d][i].chunks # s
        <5>1. 1 \in Nat
          OBVIOUS
        <5> QED BY <3>1, <3>3, <5>1, <1>0, NoneTwice, Zenon
      <4> QED BY <3>1, <3>3, <4>1, <4>2, <4>3
    <3> QED BY <3>2, <3>3
  <2>2. CASE d # c
    <3>1. portals'[d] = portals[d] /\ Holds(d, i)
      BY <2>2, <1>4, <1>5 DEF Holds
    <3>2. portals[d][i].chunks \in Streams
      BY <3>1, PortalHeld DEF PInv
    <3>3. portals[d][i].chunks # s
      <4>1. 1 \in Nat
        OBVIOUS
      <4> QED BY <2>2, <3>1, <4>1, <1>0, NoneTwice, Zenon
    <3> QED BY <2>2, <3>1, <3>2, <3>3
  <2> QED BY <2>1, <2>2
<1>6. EachOnce'
  <2>1. SUFFICES ASSUME NEW d \in DbCursors, NEW e \in DbCursors, NEW i \in Nat, NEW j \in Nat,
                        Holds(d, i)', Holds(e, j)', portals'[d][i].chunks = portals'[e][j].chunks
                 PROVE  d = e /\ i = j
    BY DEF EachOnce
  <2>2. /\ Holds(d, i) /\ portals[d][i].chunks = portals'[d][i].chunks
        /\ Holds(e, j) /\ portals[e][j].chunks = portals'[e][j].chunks
    BY <2>1, <1>5
  <2>3. portals[d][i].chunks = portals[e][j].chunks
    BY <2>1, <2>2
  <2>4. Holds(d, i) /\ Holds(e, j) /\ EachOnce
    BY <1>0, <2>2
  <2> QED BY <2>3, <2>4, Zenon DEF EachOnce
<1>7. Buffered'
  <2>1. SUFFICES ASSUME NEW d \in DbCursors, NEW i \in Nat, Holds(d, i)' PROVE BufferedBy(portals[d][i])'
    BY DEF Buffered
  <2> DEFINE p == portals'[d][i]
  <2>2. CASE d = c /\ i = 1
    <3>1. p = r
      BY <2>1, <2>2, <1>5
    <3> HIDE DEF p
    <3>2. HeadHolds(p, p.chunks)
      BY <3>1
    <3>3. /\ p.pos <= Len(p.buf) /\ stream'[p.chunks].kind \in {"inside", "outside"}
          /\ returned'[p.chunks].rows \o Unfetched(p) = stream'[p.chunks].out
      BY ONLY <3>2 DEF HeadHolds
    <3> QED BY ONLY <3>3, Zenon DEF BufferedBy, Unfetched, p
  <2>3. CASE ~(d = c /\ i = 1)
    <3>1. Holds(d, i) /\ p = portals[d][i] /\ p.chunks \in Streams \ {s}
      BY <2>1, <2>3, <1>5
    <3>2. BufferedBy(p)
      <4>1. BufferedBy(portals[d][i])
        BY <3>1 DEF PInv, Buffered
      <4> QED BY <3>1, <4>1
    <3> HIDE DEF p
    <3>3. Kept(p.chunks) /\ returned'[p.chunks] = returned[p.chunks]
      BY <3>1
    <3>4. /\ p.pos <= Len(p.buf) /\ stream'[p.chunks].kind \in {"inside", "outside"}
          /\ returned'[p.chunks].rows \o Unfetched(p) = stream'[p.chunks].out
      BY <3>2, <3>3 DEF BufferedBy, Kept, Alike
    <3> QED BY ONLY <3>4, Zenon DEF BufferedBy, Unfetched, p
  <2> QED BY <2>2, <2>3
<1>8. ASSUME NEW t \in Streams PROVE GivenOf(t)'
  <2>1. CASE t = s
    BY <2>1
  <2>2. CASE t # s
    <3>1. GivenOf(t) /\ Kept(t) /\ returned'[t] = returned[t]
      BY <2>2 DEF PInv
    <3> QED BY <3>1 DEF GivenOf, Kept, Alike
  <2> QED BY <2>1, <2>2
<1> QED BY <1>4, <1>6, <1>7, <1>8 DEF PInv

\* What the invariants say of the current portal of a cursor.
PortalStands(p, s) ==
  LET out == stream[s].out IN
  /\ p \in PortalRecords /\ p.pos <= Len(p.buf) /\ s \in Streams
  /\ Unfetched(p) \in Seq(Nat) /\ Len(Unfetched(p)) \in Nat
  /\ stream[s].kind \in {"inside", "outside"} /\ stream[s].kind # None
  /\ returned[s].rows \o Unfetched(p) = out
  /\ out \in Seq(Nat) /\ Len(out) \in Nat /\ out = Upto(Len(out))
  /\ stream[s].ended <=> stream[s].xact = None
  /\ returned[s].rows \in Seq(Nat) /\ returned[s].ended \in BOOLEAN /\ Len(returned[s].rows) \in Nat

LEMMA CurrentPortal ==
  ASSUME SInv, PInv, NEW c \in DbCursors, portals[c] # None, portals[c] # <<>>
  PROVE  portals[c][1].chunks \in Streams /\ PortalStands(portals[c][1], portals[c][1].chunks)
<1> DEFINE p == portals[c][1]
           s == p.chunks
<1>1. Holds(c, 1)
  <2>1. portals[c] \in Seq(PortalRecords)
    BY DEF PInv, PortalTypes
  <2>2. 1 \in DOMAIN portals[c]
    BY <2>1
  <2> QED BY <2>2 DEF Holds
<1>2. p \in PortalRecords /\ s \in Streams /\ BufferedBy(p)
  BY <1>1, PortalHeld DEF PInv, Buffered
<1> HIDE DEF p
<1>3. p.pos <= Len(p.buf) /\ stream[s].kind \in {"inside", "outside"} /\ returned[s].rows \o Unfetched(p) = stream[s].out
  BY <1>2 DEF BufferedBy
<1>4. Unfetched(p) \in Seq(Nat) /\ Len(Unfetched(p)) \in Nat
  BY <1>2, <1>3, UnfetchedIs
<1>5. returned[s].rows \in Seq(Nat) /\ returned[s].ended \in BOOLEAN /\ Len(returned[s].rows) \in Nat
  BY <1>2, ReturnedFields DEF PInv
<1>6. Sound(s, stream[s], busy, blamed)
  BY <1>2 DEF SInv
<1>7. stream[s].kind # None
  BY <1>3, StreamsAssumption
<1>8. stream[s].out \in Seq(Nat) /\ Len(stream[s].out) \in Nat
  BY <1>6, RecordFields DEF Sound
<1>9. stream[s].out = Upto(Len(stream[s].out)) /\ (stream[s].ended <=> stream[s].xact = None)
  BY <1>6, <1>7 DEF Sound
<1> HIDE DEF s
<1>10. PortalStands(p, s)
  BY ONLY <1>2, <1>3, <1>4, <1>5, <1>7, <1>8, <1>9 DEF PortalStands
<1> QED BY ONLY <1>2, <1>10 DEF p, s

LEMMA JoinedTwice ==
  ASSUME NEW a \in Seq(Nat), NEW b \in Seq(Nat), NEW d \in Seq(Nat)
  PROVE  (a \o b) \o d = a \o (b \o d)
<1> DEFINE S == Nat
<1>1. a \in Seq(S) /\ b \in Seq(S) /\ d \in Seq(S)
  OBVIOUS
<1> HIDE DEF S
<1> QED BY ONLY <1>1, ConcatAssociative, SMTT(30)

LEMMA Joined ==
  ASSUME NEW a \in Seq(Nat), NEW b \in Seq(Nat), NEW d \in Seq(Nat)
  PROVE  /\ a \o b \in Seq(Nat) /\ Len(a \o b) = Len(a) + Len(b)
         /\ (a \o b) \o d = a \o (b \o d)
         /\ Len(a) \in Nat /\ Len(b) \in Nat
<1>1. a \o b \in Seq(Nat) /\ Len(a \o b) = Len(a) + Len(b)
  BY ConcatProperties
<1>2. Len(a) \in Nat /\ Len(b) \in Nat
  BY LenProperties
<1>3. (a \o b) \o d = a \o (b \o d)
  BY JoinedTwice
<1> QED BY ONLY <1>1, <1>2, <1>3

\* Concatenations, as the provers find them among others.
Regroups(a, b, d) == (a \o b) \o d = a \o (b \o d)

LEMMA Regrouped ==
  ASSUME NEW a \in Seq(Nat), NEW b \in Seq(Nat), NEW d \in Seq(Nat)
  PROVE  Regroups(a, b, d) /\ a \o b \in Seq(Nat)
<1>1. (a \o b) \o d = a \o (b \o d)
  BY JoinedTwice
<1>2. a \o b \in Seq(Nat)
  BY ConcatProperties
<1> QED BY ONLY <1>1, <1>2 DEF Regroups

\* A call gives what it has: n rows, the last ones if it says that there are no more.
LEMMA AnswerKeeps ==
  ASSUME SInv, PInv, NEW c \in DbCursors, portals[c] # None, portals[c] # <<>>,
         NEW one \in BOOLEAN, NEW n \in 0..Len(Unfetched(portals[c][1])), one => n \in {0, 1},
         NEW over \in BOOLEAN,
         over => n = Len(Unfetched(portals[c][1])) /\ stream[portals[c][1].chunks].xact = None,
         Answered(c, one, n, over)
  PROVE  PInv'
<1> DEFINE p == portals[c][1]
<1>0. PICK s \in Streams : s = p.chunks
  BY CurrentPortal
<1> DEFINE out == stream[s].out
           u == Unfetched(p)
           h == SubSeq(u, 1, n)
           r == IF n = 0 THEN p ELSE KeptBy(p, n, one)
           old == returned[s]
           new == [rows |-> old.rows \o h, ended |-> old.ended \/ over]
<1>1. /\ p \in PortalRecords /\ p.pos <= Len(p.buf) /\ s \in Streams
      /\ u \in Seq(Nat) /\ Len(u) \in Nat
      /\ stream[s].kind \in {"inside", "outside"} /\ stream[s].kind # None
      /\ old.rows \o u = out
      /\ out \in Seq(Nat) /\ Len(out) \in Nat /\ out = Upto(Len(out))
      /\ stream[s].ended <=> stream[s].xact = None
      /\ old.rows \in Seq(Nat) /\ old.ended \in BOOLEAN /\ Len(old.rows) \in Nat
  <2>1. PortalStands(p, s)
    BY <1>0, CurrentPortal
  <2> HIDE DEF p
  <2> QED BY ONLY <2>1 DEF PortalStands
<1>2. /\ HeadBecomes(c, r) /\ returned' = [returned EXCEPT ![s] = new]
      /\ UNCHANGED stream /\ n \in 0..Len(u) /\ (over => n = Len(u) /\ stream[s].xact = None)
  <2>1. /\ HeadBecomes(c, r) /\ UNCHANGED stream
        /\ returned' = [returned EXCEPT ![p.chunks] =
             [rows |-> @.rows \o SubSeq(u, 1, n), ended |-> @.ended \/ over]]
    BY DEF Answered, streamVars, HeadBecomes
  <2> QED BY <1>0, <2>1
<1> HIDE DEF p
<1>3. /\ r \in PortalRecords /\ r.chunks = s /\ r.pos <= Len(r.buf) /\ h \o Unfetched(r) = u
      /\ h \in Seq(Nat) /\ Len(h) = n
  <2>1. h \in Seq(Nat) /\ Len(h) = n
    <3> HIDE DEF u
    <3> QED BY <1>1, <1>2, PrefixIs
  <2>2. CASE n = 0
    <3>1. h = <<>> /\ r = p
      <4> HIDE DEF h
      <4> QED BY <2>1, <2>2
    <3>2. h \o u = u
      <4> HIDE DEF h, u
      <4> QED BY <3>1, <1>1, ConcatEmptySeq
    <3> HIDE DEF h, r
    <3> QED BY <3>1, <3>2, <1>0, <1>1, <2>1
  <2>3. CASE n # 0
    <3>1. one => n = 1
      BY <2>3
    <3> DEFINE k == KeptBy(p, n, one)
    <3>2. k \in PortalRecords /\ k.chunks = p.chunks /\ k.pos <= Len(k.buf) /\ h \o Unfetched(k) = u
      BY <3>1, <1>1, <1>2, KeptIsRest
    <3>3. r = k /\ s = p.chunks
      BY <1>0, <2>3
    <3> HIDE DEF k, r, h
    <3> QED BY <2>1, <3>2, <3>3
  <2> QED BY <2>2, <2>3
<1> HIDE DEF r, h, u, old, out
<1> DEFINE v == Unfetched(r)
<1>4. v \in Seq(Nat) /\ Len(v) \in Nat
  BY <1>3, UnfetchedIs
<1>5. /\ new.rows \in Seq(Nat) /\ new.ended \in BOOLEAN /\ new \in [rows : Seq(Nat), ended : BOOLEAN]
      /\ new.rows = old.rows \o h /\ Len(new.rows) = Len(old.rows) + n
  <2> DEFINE a == old.rows
  <2>1. a \in Seq(Nat) /\ h \in Seq(Nat) /\ Len(h) = n /\ (old.ended \/ over) \in BOOLEAN
    BY <1>1, <1>3
  <2>2. new.rows = a \o h /\ new.ended = (old.ended \/ over)
    OBVIOUS
  <2> HIDE DEF a
  <2>3. a \o h \in Seq(Nat) /\ Len(a \o h) = Len(a) + n
    BY <2>1, Joined
  <2> QED BY <2>1, <2>2, <2>3 DEF a
<1> HIDE DEF v
<1>6. new.rows \o v = out
  <2> DEFINE a == old.rows
  <2>1. a \in Seq(Nat) /\ h \in Seq(Nat) /\ v \in Seq(Nat) /\ new.rows = a \o h
    BY <1>1, <1>3, <1>4, <1>5
  <2> HIDE DEF a, new
  <2>2. Regroups(a, h, v)
    BY <2>1, Regrouped
  <2>3. new.rows \o v = a \o (h \o v)
    BY <2>1, <2>2 DEF Regroups
  <2> QED BY <2>3, <1>1, <1>3 DEF a, v
<1>7. new.rows = Upto(Len(new.rows)) /\ Len(new.rows) + Len(v) = Len(out)
  <2> DEFINE b == new.rows
  <2>1. b \o v = Upto(Len(out)) /\ Len(out) \in Nat /\ b \in Seq(Nat) /\ v \in Seq(Nat)
    BY <1>6, <1>1, <1>4, <1>5
  <2> HIDE DEF b
  <2> DEFINE m == Len(out)
  <2>2. m \in Nat /\ b \o v = Upto(m) /\ b \in Seq(Nat) /\ v \in Seq(Nat)
    BY <2>1
  <2> HIDE DEF m, new
  <2>3. b = Upto(Len(b)) /\ Len(b) + Len(v) = m
    <3>1. \A x \in Seq(Nat), y \in Seq(Nat), k \in Nat : x \o y = Upto(k) => x = Upto(Len(x)) /\ Len(x) + Len(y) = k
      BY PrefixOfUpto
    <3> QED BY <2>2, <3>1
  <2> QED BY <2>3 DEF b, m
<1>8. new.ended => stream[s].ended /\ Len(new.rows) = Len(out)
  <2>1. CASE over
    <3>1. Len(new.rows) = Len(old.rows) + Len(u)
      BY <2>1, <1>2, <1>5
    <3>2. Len(out) = Len(old.rows) + Len(u)
      BY <1>1
    <3> QED BY <2>1, <3>1, <3>2, <1>1, <1>2
  <2>2. CASE ~over /\ old.ended
    <3>1. stream[s].ended /\ Len(old.rows) = Len(out)
      BY <1>1, <2>2 DEF PInv, GivenOf, old, out
    <3>2. n \in Nat
      BY <1>1, <1>2
    <3> DEFINE b == Len(new.rows)
               a == Len(old.rows)
    <3>3. b = a + n /\ b + Len(v) = a /\ a \in Nat /\ Len(v) \in Nat
      BY <3>1, <1>1, <1>4, <1>5, <1>7
    <3>4. b = a
      <4> HIDE DEF a, b
      <4> QED BY <3>2, <3>3
    <3> QED BY <3>1, <3>4
  <2> QED BY <2>1, <2>2
<1> HIDE DEF new
<1>9. /\ returned'[s] = new /\ (\A t \in Streams \ {s} : returned'[t] = returned[t])
      /\ returned' \in [Streams -> [rows : Seq(Nat), ended : BOOLEAN]]
  BY <1>1, <1>2, <1>5 DEF PInv, PortalTypes
<1>10. GivenOf(s)'
  <2>1. stream'[s].kind # None /\ stream'[s].out = out
    BY <1>1, <1>2 DEF out
  <2> QED BY <2>1, <1>2, <1>7, <1>8, <1>9 DEF GivenOf
<1>11. \A t \in Streams \ {s} : Kept(t)
  BY <1>2 DEF Kept, Alike
<1>12. returned'[s].rows \o Unfetched(r) = stream'[s].out /\ stream'[s].kind \in {"inside", "outside"}
  BY <1>1, <1>2, <1>6, <1>9 DEF v, out
<1>13. s = portals[c][1].chunks
  BY <1>0 DEF p
<1>14. HeadHolds(r, s)
  BY ONLY <1>3, <1>12 DEF HeadHolds
<1> HIDE DEF r
<1> QED BY <1>1, <1>2, <1>3, <1>9, <1>10, <1>11, <1>13, <1>14, HeadKeeps

\* A call takes the next chunk of its stream.
HeadTakes(c, one, amount) ==
  LET p == portals[c][1]
      s == p.chunks
      new == SubSeq(stream'[s].out, Len(stream[s].out) + 1, Len(stream'[s].out)) IN
  HeadBecomes(c, IF new = <<>> /\ amount # None THEN p ELSE Extended(p, new, one, amount))

LEMMA ChunkKeeps ==
  ASSUME SInv, PInv, NEW c \in DbCursors, portals[c] # None, portals[c] # <<>>,
         NextChunk(portals[c][1].chunks), UNCHANGED returned,
         NEW one \in BOOLEAN, NEW amount, one => amount = 1,
         ~Enough(portals[c][1], amount),
         HeadTakes(c, one, amount)
  PROVE  PInv'
<1> DEFINE p == portals[c][1]
<1>0. PICK s \in Streams : s = p.chunks
  BY CurrentPortal
<1> DEFINE out == stream[s].out
           u == Unfetched(p)
           old == returned[s]
<1>1. /\ p \in PortalRecords /\ p.pos <= Len(p.buf) /\ s \in Streams
      /\ u \in Seq(Nat) /\ Len(u) \in Nat
      /\ stream[s].kind \in {"inside", "outside"} /\ stream[s].kind # None
      /\ old.rows \o u = out
      /\ out \in Seq(Nat) /\ Len(out) \in Nat /\ out = Upto(Len(out))
      /\ stream[s].ended <=> stream[s].xact = None
      /\ old.rows \in Seq(Nat) /\ old.ended \in BOOLEAN /\ Len(old.rows) \in Nat
  <2>1. PortalStands(p, s)
    BY <1>0, CurrentPortal
  <2> HIDE DEF p
  <2> QED BY ONLY <2>1 DEF PortalStands
<1>2. NextChunk(s) /\ ~Enough(p, amount)
  BY <1>0
<1>3. /\ \A t \in Streams \ {s} : Kept(t)
      /\ ~stream[s].ended /\ stream'[s].kind = stream[s].kind
      /\ \E new \in Seq(Nat) : stream'[s].out = out \o new
  BY <1>2, NextChunkKeeps
<1>4. PICK new \in Seq(Nat) : stream'[s].out = out \o new
  BY <1>3
<1> DEFINE r == IF new = <<>> /\ amount # None THEN p ELSE Extended(p, new, one, amount)
<1>5. SubSeq(stream'[s].out, Len(out) + 1, Len(stream'[s].out)) = new
  <2> DEFINE o == stream'[s].out
  <2>1. out \in Seq(Nat) /\ o = out \o new
    BY <1>1, <1>4
  <2> HIDE DEF out, o
  <2>2. SubSeq(o, Len(out) + 1, Len(o)) = new
    BY <2>1, NewOfExtension
  <2> QED BY <2>2 DEF o
<1>6. HeadBecomes(c, r)
  BY <1>0, <1>5, Zenon DEF HeadTakes
<1>7. s = portals[c][1].chunks
  BY <1>0
<1> HIDE DEF p
<1>8. one => u = <<>> /\ amount # None
  <2>1. SUFFICES ASSUME one PROVE u = <<>> /\ amount # None
    OBVIOUS
  <2>2. amount = 1 /\ amount # None
    BY <2>1, DbApiAssumption
  <2>3. ~(Len(u) >= 1)
    BY <1>2, <2>2 DEF Enough
  <2> HIDE DEF u
  <2>4. Len(u) = 0
    BY <2>3, <1>1
  <2> QED BY <2>2, <2>4, <1>1
<1>9. r \in PortalRecords /\ r.chunks = s /\ r.pos <= Len(r.buf) /\ Unfetched(r) = u \o new
  <2>1. CASE new = <<>> /\ amount # None
    <3>1. u \o new = u
      <4> HIDE DEF u
      <4> QED BY <2>1, <1>1, ConcatEmptySeq
    <3>2. r = p /\ s = p.chunks
      BY <1>0, <2>1
    <3> HIDE DEF r
    <3> QED BY <3>1, <3>2, <1>1
  <2>2. CASE ~(new = <<>> /\ amount # None)
    <3> DEFINE e == Extended(p, new, one, amount)
    <3>1. e \in PortalRecords /\ e.chunks = p.chunks /\ e.pos <= Len(e.buf) /\ Unfetched(e) = u \o new
      <4>1. p \in PortalRecords /\ p.pos <= Len(p.buf) /\ (one => Unfetched(p) = <<>> /\ amount # None)
        BY <1>1, <1>8
      <4> QED BY <4>1, ExtendedIsMore
    <3>2. r = e /\ s = p.chunks
      BY <1>0, <2>2
    <3> HIDE DEF e, r
    <3> QED BY <3>1, <3>2
  <2> QED BY <2>1, <2>2
<1> HIDE DEF r, u, old, out
<1>10. returned'[s].rows \o Unfetched(r) = stream'[s].out
  <2> DEFINE a == old.rows
  <2>1. a \in Seq(Nat) /\ u \in Seq(Nat) /\ a \o u = out
    BY <1>1
  <2> HIDE DEF a
  <2>2. a \o (u \o new) = (a \o u) \o new
    <3>1. \A x, y, z \in Seq(Nat) : (x \o y) \o z = x \o (y \o z)
      BY ONLY JoinedTwice
    <3>2. \A d \in Seq(Nat) : (a \o u) \o d = a \o (u \o d)
      BY ONLY <2>1, <3>1
    <3>3. new \in Seq(Nat)
      OBVIOUS
    <3> QED BY ONLY <3>2, <3>3
  <2>3. Unfetched(r) = u \o new /\ stream'[s].out = out \o new
    BY <1>4, <1>9
  <2>4. a \o Unfetched(r) = stream'[s].out
    BY <2>1, <2>2, <2>3, Zenon
  <2>5. returned'[s].rows = a
    BY <1>0 DEF a, old
  <2> QED BY <2>4, <2>5
<1>11. GivenOf(s)'
  <2>1. GivenOf(s) /\ stream'[s].kind # None /\ ~returned[s].ended
    BY <1>1, <1>3 DEF PInv, GivenOf
  <2> QED BY <2>1 DEF GivenOf
<1>12. returned' \in [Streams -> [rows : Seq(Nat), ended : BOOLEAN]] /\ \A t \in Streams \ {s} : returned'[t] = returned[t]
  BY DEF PInv, PortalTypes
<1>13. stream'[s].kind \in {"inside", "outside"}
  BY <1>1, <1>3
<1>14. HeadHolds(r, s)
  BY ONLY <1>9, <1>10, <1>13 DEF HeadHolds
<1> QED BY <1>1, <1>3, <1>6, <1>7, <1>9, <1>11, <1>12, <1>14, HeadKeeps


-----------------------------------------------------------------------------
(* The calls of a connection *)

LEMMA RaisesKeeps ==
  ASSUME SInv, RaisesPending
  PROVE  SInv' /\ (\A s \in Streams : Kept(s)) /\ block' = AfterFailure
<1>1. /\ PendingFails /\ stream' = CompletePending(stream) /\ busy' = None /\ blamed' = blamed \cup {busy}
      /\ block' = AfterFailure
  BY DEF RaisesPending
<1> QED BY <1>1, RaisedKeeps

LEMMA CompletedKeeps ==
  ASSUME SInv, NEW next \in {"I", "T", "E"}, NEW ends \in BOOLEAN, Executed(next, ends)
  PROVE  SInv' /\ (\A s \in Streams : Kept(s)) /\ block' = next
<1> DEFINE dies == {s \in Streams : ends /\ stream[s].kind = "inside"}
<1>1. /\ ~PendingFails /\ block' = next /\ busy' = None /\ UNCHANGED blamed
      /\ stream' = [s \in Streams |->
           [CompletePending(stream)[s] EXCEPT !.alive = @ /\ ~(ends /\ stream[s].kind = "inside")]]
  BY DEF Executed
<1>2. \A s \in Streams : (~(ends /\ stream[s].kind = "inside")) = (s \notin dies)
  OBVIOUS
<1>3. stream' = [s \in Streams |-> [CompletePending(stream)[s] EXCEPT !.alive = @ /\ s \notin dies]]
  BY <1>1, <1>2
<1>4. dies \in SUBSET Streams
  OBVIOUS
<1> HIDE DEF dies
<1>5. block' \in {"I", "T", "E"}
  BY <1>1
<1> QED BY <1>1, <1>3, <1>4, <1>5, AnsweredKeeps

LEMMA BlockTypes == SInv => block \in {"I", "T", "E"} /\ AfterFailure \in {"I", "T", "E"}
  BY DEF SInv, AfterFailure

\* A block stays open when a statement in it fails, and none is opened.
LEMMA BlockStays ==
  ASSUME TransactionKept, UNCHANGED <<_xact, refused>>, block' \in {block, AfterFailure}
  PROVE  TransactionKept'
  BY DEF TransactionKept, AfterFailure

LEMMA PrepareFailsKeeps ==
  ASSUME DInv, NEW c \in DbCursors, PrepareFails(c)
  PROVE  DInv'
<1>1. UNCHANGED <<_xact, refused, portals, returned>>
  BY DEF PrepareFails, connVars, fetchVars
<1>2. SInv' /\ (\A s \in Streams : Kept(s)) /\ block' = AfterFailure
  <2>1. CASE RaisesPending
    BY <2>1, RaisesKeeps DEF DInv
  <2>2. CASE Executed(AfterFailure, FALSE)
    <3>1. AfterFailure \in {"I", "T", "E"}
      BY BlockTypes DEF DInv
    <3>2. PICK next \in {"I", "T", "E"} : next = AfterFailure
      BY <3>1
    <3>3. Executed(next, FALSE)
      BY <2>2, <3>2 DEF Executed
    <3> QED BY <3>2, <3>3, CompletedKeeps DEF DInv
  <2> QED BY <2>1, <2>2 DEF PrepareFails
<1>3. PInv'
  BY <1>1, <1>2, ConnectionKeeps DEF DInv
<1>4. TransactionKept'
  BY <1>1, <1>2, BlockStays DEF DInv
<1> QED BY <1>1, <1>2, <1>3, <1>4 DEF DInv

LEMMA ExecuteRowsKeeps ==
  ASSUME DInv, NEW c \in DbCursors, NEW s \in Streams, ExecuteRows(c, s)
  PROVE  DInv'
<1>1. /\ portals[c] # None /\ ~PendingFails /\ Open(s) /\ stream'[s].kind # "single"
      /\ portals' = [portals EXCEPT ![c] = <<[chunks |-> s, buf |-> <<>>, pos |-> 0]>> \o @]
      /\ UNCHANGED <<_xact, refused, returned>>
  BY DEF ExecuteRows, IsOpen, connVars
<1>2. /\ SInv' /\ \A t \in Streams \ {s} : Kept(t)
      /\ \/ Kept(s) /\ PendingFails
         \/ stream'[s].kind \in {"inside", "outside", "single"} /\ stream'[s].out = <<>> /\ ~stream'[s].ended
      /\ stream[s].kind = None /\ block' \in {block, AfterFailure}
  BY <1>1, OpenKeeps DEF DInv
<1>3. stream'[s].kind \in {"inside", "outside"} /\ stream'[s].out = <<>>
  BY <1>1, <1>2
<1>4. PInv'
  BY <1>1, <1>2, <1>3, ExecutedKeeps DEF DInv
<1>5. TransactionKept'
  BY <1>1, <1>2, BlockStays DEF DInv
<1> QED BY <1>1, <1>2, <1>4, <1>5 DEF DInv

LEMMA TailIs ==
  ASSUME NEW q \in Seq(PortalRecords), q # <<>>
  PROVE  /\ Tail(q) \in Seq(PortalRecords)
         /\ \A i \in DOMAIN Tail(q) : i + 1 \in DOMAIN q /\ Tail(q)[i] = q[i + 1]
  OBVIOUS

\* The current portal of a cursor is given up.
LEMMA BumpedKeeps ==
  ASSUME PInv, \A s \in Streams : Kept(s), UNCHANGED returned,
         NEW c \in DbCursors, portals[c] # None, portals[c] # <<>>, portals' = [portals EXCEPT ![c] = Tail(@)]
  PROVE  PInv'
<1>1. portals[c] \in Seq(PortalRecords)
  BY DEF PInv, PortalTypes
<1>2. PICK q : q = Tail(portals[c])
  OBVIOUS
<1>3. q \in {None} \cup Seq(PortalRecords) /\ portals' = [portals EXCEPT ![c] = q]
  BY <1>1, <1>2, TailIs
<1>4. \A i \in Nat : q # None /\ i \in DOMAIN q => Holds(c, i + 1) /\ portals[c][i + 1] = q[i]
  BY <1>1, <1>2, TailIs DEF Holds
<1>5. 1 \in {0, 1}
  OBVIOUS
<1>6. PInv /\ (\A s \in Streams : Kept(s)) /\ UNCHANGED returned
  OBVIOUS
<1> QED BY ONLY <1>3, <1>4, <1>5, <1>6, DroppedKeeps

LEMMA ExecuteWorkKeeps ==
  ASSUME DInv, NEW c \in DbCursors, ExecuteWork(c)
  PROVE  DInv'
<1>1. /\ portals[c] # None /\ Executed(block, FALSE)
      /\ portals' = [portals EXCEPT ![c] = IF @ = <<>> THEN @ ELSE Tail(@)]
      /\ UNCHANGED <<_xact, refused, returned>>
  BY DEF ExecuteWork, IsOpen, connVars
<1>2. SInv' /\ (\A s \in Streams : Kept(s)) /\ block' = block
  <2>1. PICK next \in {"I", "T", "E"} : next = block
    BY BlockTypes DEF DInv
  <2>2. Executed(next, FALSE)
    BY <1>1, <2>1 DEF Executed
  <2> QED BY <2>1, <2>2, CompletedKeeps DEF DInv
<1>3. PInv'
  <2>1. CASE portals[c] = <<>>
    <3>1. portals' = portals
      BY <1>1, <2>1 DEF DInv, PInv, PortalTypes
    <3> QED BY <1>1, <1>2, <3>1, ConnectionKeeps DEF DInv
  <2>2. CASE portals[c] # <<>>
    <3>1. portals' = [portals EXCEPT ![c] = Tail(@)]
      BY <1>1, <2>2
    <3> QED BY <1>1, <1>2, <2>2, <3>1, BumpedKeeps DEF DInv
  <2> QED BY <2>1, <2>2
<1>4. TransactionKept'
  BY <1>1, <1>2, BlockStays DEF DInv
<1> QED BY <1>1, <1>2, <1>3, <1>4 DEF DInv

LEMMA NothingPending ==
  ASSUME SInv, UNCHANGED streamVars
  PROVE  SInv' /\ (\A s \in Streams : Kept(s)) /\ block' = block
  BY DEF streamVars, SInv, Kept, Alike

LEMMA NextsetKeeps ==
  ASSUME DInv, NEW c \in DbCursors, Nextset(c)
  PROVE  DInv'
<1>1. /\ portals[c] # None /\ portals[c] # <<>> /\ portals' = [portals EXCEPT ![c] = Tail(@)]
      /\ UNCHANGED <<_xact, refused, returned, streamVars>>
  BY DEF Nextset, IsOpen, connVars
<1>2. SInv' /\ (\A s \in Streams : Kept(s)) /\ block' = block
  BY <1>1, NothingPending DEF DInv
<1>3. PInv'
  BY <1>1, <1>2, BumpedKeeps DEF DInv
<1>4. TransactionKept'
  BY <1>1, <1>2, BlockStays DEF DInv
<1> QED BY <1>1, <1>2, <1>3, <1>4 DEF DInv

LEMMA CloseCursorKeeps ==
  ASSUME DInv, NEW c \in DbCursors, CloseCursor(c)
  PROVE  DInv'
<1>1. portals' = [portals EXCEPT ![c] = None] /\ UNCHANGED <<_xact, refused, returned, streamVars>>
  BY DEF CloseCursor, connVars
<1>2. SInv' /\ (\A s \in Streams : Kept(s)) /\ block' = block
  BY <1>1, NothingPending DEF DInv
<1>3. PInv'
  <2>1. PICK q : q = None
    OBVIOUS
  <2>2. /\ q \in {None} \cup Seq(PortalRecords) /\ portals' = [portals EXCEPT ![c] = q]
        /\ \A i \in Nat : q # None /\ i \in DOMAIN q => Holds(c, i + 0) /\ portals[c][i + 0] = q[i]
    BY <1>1, <2>1
  <2>3. 0 \in {0, 1}
    OBVIOUS
  <2> QED BY <1>1, <1>2, <2>2, <2>3, DroppedKeeps DEF DInv
<1>4. TransactionKept'
  BY <1>1, <1>2, BlockStays DEF DInv
<1> QED BY <1>1, <1>2, <1>3, <1>4 DEF DInv

\* A fetch takes what it has, learns that there is no more, or asks for a chunk.
LEMMA FetchKeeps ==
  ASSUME DInv, NEW c \in DbCursors, NEW one \in BOOLEAN, NEW amount \in {None, 1, 2}, one => amount = 1,
         FetchBy(c, one, amount)
  PROVE  DInv'
<1> DEFINE p == portals[c][1]
           s == p.chunks
<1>1. SInv /\ PInv /\ portals[c] # None /\ portals[c] # <<>>
  BY DEF DInv, FetchBy, IsOpen
<1>2. Unfetched(p) \in Seq(Nat) /\ Len(Unfetched(p)) \in Nat /\ s \in Streams
  <2>1. PortalStands(p, s)
    BY <1>1, CurrentPortal
  <2> HIDE DEF p, s
  <2> QED BY ONLY <2>1 DEF PortalStands
<1>3. CASE Enough(p, amount) \/ stream[s].xact = None
  <2> DEFINE n == IF Enough(p, amount) THEN amount ELSE Len(Unfetched(p))
             over == ~Enough(p, amount)
  <2>1. Answered(c, one, n, over)
    BY <1>3 DEF FetchBy
  <2>2. n \in 0..Len(Unfetched(p)) /\ (one => n \in {0, 1}) /\ over \in BOOLEAN
    <3>1. CASE Enough(p, amount)
      <4>1. amount \in {1, 2} /\ Len(Unfetched(p)) >= amount
        BY <3>1 DEF Enough
      <4> QED BY <3>1, <4>1, <1>2
    <3>2. CASE ~Enough(p, amount)
      <4>1. n = Len(Unfetched(p)) /\ n \in 0..Len(Unfetched(p))
        BY <3>2, <1>2
      <4>2. one => n = 0
        <5>1. one => ~(Len(Unfetched(p)) >= 1)
          BY <3>2, DbApiAssumption DEF Enough
        <5> QED BY <4>1, <5>1, <1>2
      <4> QED BY <4>1, <4>2
    <3> QED BY <3>1, <3>2
  <2>3. over => n = Len(Unfetched(p)) /\ stream[s].xact = None
    BY <1>3
  <2>4. UNCHANGED <<_xact, refused, streamVars>>
    BY <2>1 DEF Answered, connVars
  <2>5. PInv'
    <3>1. PICK m \in 0..Len(Unfetched(p)), v \in BOOLEAN : m = n /\ v = over
      BY <2>2
    <3>2. one => m \in {0, 1}
      BY <2>2, <3>1
    <3>3. v => m = Len(Unfetched(portals[c][1])) /\ stream[portals[c][1].chunks].xact = None
      BY <2>3, <3>1
    <3>4. Answered(c, one, m, v)
      BY <2>1, <3>1
    <3> HIDE DEF n, over
    <3> QED BY <1>1, <3>2, <3>3, <3>4, AnswerKeeps
  <2>6. SInv' /\ block' = block
    BY <2>4, <1>1, NothingPending
  <2>7. TransactionKept'
    BY <2>4, <2>6, BlockStays DEF DInv
  <2> QED BY <2>4, <2>5, <2>6, <2>7 DEF DInv
<1>4. CASE ~Enough(p, amount) /\ stream[s].xact # None
  <2>1. NextChunk(s) /\ UNCHANGED <<_xact, refused, returned>> /\ HeadTakes(c, one, amount)
    BY <1>4 DEF FetchBy, HeadTakes, HeadBecomes, connVars
  <2>2. PInv'
    BY <1>1, <1>4, <2>1, ChunkKeeps
  <2>3. SInv' /\ block' \in {block, AfterFailure}
    <3>1. PICK t \in Streams : t = s
      BY <1>2
    <3> HIDE DEF s
    <3>2. NextChunk(t)
      BY <2>1, <3>1
    <3> QED BY <1>1, <3>2, NextChunkKeeps
  <2>4. TransactionKept'
    BY <2>1, <2>3, BlockStays DEF DInv
  <2> QED BY <2>1, <2>2, <2>3, <2>4 DEF DInv
<1> QED BY <1>3, <1>4

\* The transaction of the connection: its end, its replacement and "autocommit".
LEMMA TransactionKeeps ==
  ASSUME DInv, CommitDb \/ RollbackDb \/ AutocommitOn \/ AutocommitOff
  PROVE  DInv'
<1>1. UNCHANGED <<portals, returned>>
  BY DEF CommitDb, RollbackDb, AutocommitOn, AutocommitOff, fetchVars
<1>2. CASE RaisesPending /\ (UNCHANGED connVars \/ (_xact = None /\ _xact' = "initialized" /\ UNCHANGED refused))
  <2>1. SInv' /\ (\A s \in Streams : Kept(s)) /\ block' = AfterFailure
    BY <1>2, RaisesKeeps DEF DInv
  <2>2. PInv'
    BY <1>1, <2>1, ConnectionKeeps DEF DInv
  <2>3. _xact' \in {"open", "initialized", None} /\ TransactionKept'
    <3>1. CASE UNCHANGED connVars
      BY <2>1, <3>1, BlockStays DEF DInv, connVars
    <3>2. CASE _xact' = "initialized"
      BY <3>2, DbApiAssumption DEF TransactionKept
    <3> QED BY <1>2, <3>1, <3>2
  <2> QED BY <2>1, <2>2, <2>3 DEF DInv
<1>3. CASE \E next \in {"I", "T", "E"}, ends \in BOOLEAN :
             /\ Executed(next, ends)
             /\ \/ next = "I" /\ refused' = TRUE /\ UNCHANGED _xact /\ _xact = "open"
                \/ next = "T" /\ _xact' = "open"
                \/ next = "I" /\ _xact' = None
  <2>1. PICK next \in {"I", "T", "E"}, ends \in BOOLEAN :
          /\ Executed(next, ends)
          /\ \/ next = "I" /\ refused' = TRUE /\ UNCHANGED _xact /\ _xact = "open"
             \/ next = "T" /\ _xact' = "open"
             \/ next = "I" /\ _xact' = None
    BY <1>3
  <2>2. SInv' /\ (\A s \in Streams : Kept(s)) /\ block' = next
    BY <2>1, CompletedKeeps DEF DInv
  <2>3. PInv'
    BY <1>1, <2>2, ConnectionKeeps DEF DInv
  <2>4. _xact' \in {"open", "initialized", None} /\ TransactionKept'
    BY <2>1, <2>2, DbApiAssumption DEF TransactionKept
  <2> QED BY <2>2, <2>3, <2>4 DEF DInv
<1>4. CASE CommitDb
  <2>1. \/ RaisesPending /\ UNCHANGED connVars
        \/ _xact = "open" /\ Executed("I", TRUE) /\ refused' = TRUE /\ UNCHANGED _xact
        \/ Replaced("open")
    BY <1>4 DEF CommitDb
  <2>2. Replaced("open") => Executed("T", TRUE) /\ _xact' = "open"
    BY DbApiAssumption DEF Replaced
  <2> QED BY <1>2, <1>3, <2>1, <2>2
<1>5. CASE RollbackDb
  <2>1. (RaisesPending /\ UNCHANGED connVars) \/ Replaced("open")
    BY <1>5 DEF RollbackDb
  <2>2. Replaced("open") => Executed("T", TRUE) /\ _xact' = "open"
    BY DbApiAssumption DEF Replaced
  <2> QED BY <1>2, <1>3, <2>1, <2>2
<1>6. CASE AutocommitOn
  <2>1. (RaisesPending /\ UNCHANGED connVars) \/ Replaced(None)
    BY <1>6 DEF AutocommitOn
  <2>2. Replaced(None) => Executed("I", TRUE) /\ _xact' = None
    BY DEF Replaced
  <2> QED BY <1>2, <1>3, <2>1, <2>2
<1>7. CASE AutocommitOff
  <2>1. \/ RaisesPending /\ _xact = None /\ _xact' = "initialized" /\ UNCHANGED refused
        \/ Executed("T", FALSE) /\ _xact' = "open"
    BY <1>7 DEF AutocommitOff
  <2> QED BY <1>2, <1>3, <2>1
<1> QED BY <1>4, <1>5, <1>6, <1>7

-----------------------------------------------------------------------------
(* The promises of the DB-API *)

LEMMA DbApiBegins == DbApiInit => DInv
<1> SUFFICES ASSUME DbApiInit PROVE DInv
  OBVIOUS
<1>1. /\ stream = [s \in Streams |-> Unmade] /\ busy = None /\ blamed = {} /\ block = "T" /\ _xact = "open"
      /\ portals = [c \in DbCursors |-> <<>>] /\ returned = [s \in Streams |-> [rows |-> <<>>, ended |-> FALSE]]
  BY DEF DbApiInit, DbApiRest
<1>2. SInv
  BY <1>1, UnmadeIsSound DEF SInv
<1>3. \A c \in DbCursors : \A i \in Nat : ~Holds(c, i)
  BY <1>1 DEF Holds
<1>4. PortalTypes
  <2>1. <<>> \in Seq(PortalRecords) /\ [rows |-> <<>>, ended |-> FALSE] \in [rows : Seq(Nat), ended : BOOLEAN]
    OBVIOUS
  <2> QED BY <1>1, <2>1 DEF PortalTypes
<1>5. \A s \in Streams : GivenOf(s)
  BY <1>1 DEF GivenOf, Upto
<1>6. PInv
  BY <1>3, <1>4, <1>5 DEF PInv, EachOnce, Buffered
<1> QED BY <1>1, <1>2, <1>6, DbApiAssumption DEF DInv, TransactionKept

LEMMA DbApiStep == DInv /\ [DbApiNext]_dbapiVars => DInv'
<1> SUFFICES ASSUME DInv, [DbApiNext]_dbapiVars PROVE DInv'
  OBVIOUS
<1>1. ASSUME NEW c \in DbCursors, PrepareFails(c) PROVE DInv'
  BY <1>1, PrepareFailsKeeps
<1>2. ASSUME NEW c \in DbCursors, ExecuteWork(c) PROVE DInv'
  BY <1>2, ExecuteWorkKeeps
<1>3. ASSUME NEW c \in DbCursors, Nextset(c) PROVE DInv'
  BY <1>3, NextsetKeeps
<1>4. ASSUME NEW c \in DbCursors, CloseCursor(c) PROVE DInv'
  BY <1>4, CloseCursorKeeps
<1>5. ASSUME NEW c \in DbCursors, NEW s \in Streams, ExecuteRows(c, s) PROVE DInv'
  BY <1>5, ExecuteRowsKeeps
<1>6. ASSUME NEW c \in DbCursors, Fetchone(c) \/ Fetchmany(c, 2) \/ Fetchall(c) PROVE DInv'
  <2>1. FetchBy(c, TRUE, 1) \/ FetchBy(c, FALSE, 2) \/ FetchBy(c, FALSE, None)
    BY <1>6 DEF Fetchone, Fetchmany, Fetchall
  <2> QED BY <2>1, FetchKeeps
<1>7. CASE CommitDb \/ RollbackDb \/ AutocommitOn \/ AutocommitOff
  BY <1>7, TransactionKeeps
<1>8. CASE UNCHANGED dbapiVars
  <2>1. UNCHANGED <<_xact, portals, returned, refused, streamVars>>
    BY <1>8 DEF dbapiVars
  <2>2. SInv' /\ (\A s \in Streams : Kept(s)) /\ block' = block
    BY <2>1, NothingPending DEF DInv
  <2>3. PInv' /\ TransactionKept'
    BY <2>1, <2>2, ConnectionKeeps, BlockStays DEF DInv
  <2> QED BY <2>1, <2>2, <2>3 DEF DInv
<1> QED BY <1>1, <1>2, <1>3, <1>4, <1>5, <1>6, <1>7, <1>8 DEF DbApiNext

LEMMA DbApiFollows == DInv => DbApiTypeOK /\ DbApiPromises
<1> SUFFICES ASSUME DInv PROVE DbApiTypeOK /\ DbApiPromises
  OBVIOUS
<1>1. DbApiTypeOK
  <2>1. SUFFICES ASSUME NEW c \in DbCursors, portals[c] # None, NEW i \in DOMAIN portals[c]
                 PROVE  portals[c][i].pos \in 0..Len(portals[c][i].buf)
    BY DEF DbApiTypeOK, IsOpen, DInv
  <2>2. Holds(c, i)
    BY <2>1 DEF Holds
  <2>3. i \in Nat /\ portals[c][i] \in PortalRecords
    BY <2>2, PortalHeld DEF DInv, PInv
  <2>4. portals[c][i].pos <= Len(portals[c][i].buf)
    BY <2>2, <2>3 DEF DInv, PInv, Buffered, BufferedBy
  <2> QED BY <2>3, <2>4 DEF PortalRecords
<1>2. ASSUME NEW s \in Streams
      PROVE  /\ \A i \in DOMAIN returned[s].rows : returned[s].rows[i] = i
             /\ returned[s].ended => Len(returned[s].rows) = stream[s].rows \/ s \in blamed
  <2>1. GivenOf(s) /\ Sound(s, stream[s], busy, blamed)
    BY DEF DInv, PInv, SInv
  <2>2. returned[s].rows = Upto(Len(returned[s].rows))
    BY <2>1 DEF GivenOf
  <2>3. \A i \in DOMAIN Upto(Len(returned[s].rows)) : Upto(Len(returned[s].rows))[i] = i
    BY DEF Upto
  <2>4. returned[s].ended => Len(returned[s].rows) = stream[s].rows \/ s \in blamed
    BY <2>1 DEF GivenOf, Sound
  <2> QED BY <2>2, <2>3, <2>4
<1> QED BY <1>1, <1>2 DEF DbApiPromises, FetchedInOrder, DInv

\* Whatever mix of fetches, statements and transactions a connection sees, a result comes in order, each row
\* once, it ends early only if some caller was told so, and the connection's transaction is open as it says
\* (dbapi20.Portal, Cursor, Connection).
THEOREM DbApiKeepsPromises == DbApiSpec => [](DbApiTypeOK /\ DbApiPromises)
<1>1. DbApiInit => DInv
  BY DbApiBegins
<1>2. DInv /\ [DbApiNext]_dbapiVars => DInv'
  BY DbApiStep
<1>3. DInv => DbApiTypeOK /\ DbApiPromises
  BY DbApiFollows
<1> QED BY <1>1, <1>2, <1>3, PTL DEF DbApiSpec

-----------------------------------------------------------------------------
(* Notifications on their way *)

\* One notification behind all the others.
LEMMA UptoNext ==
  ASSUME NEW a \in Seq(Nat), NEW b \in Seq(Nat), NEW n \in Nat, a \o b = Upto(n)
  PROVE  a \o Append(b, n + 1) = Upto(n + 1)
<1>1. Append(Upto(n), n + 1) = Upto(n + 1)
  <2> DEFINE u == Upto(n)
             v == Upto(n + 1)
             w == Append(u, n + 1)
  <2>1. /\ u \in Seq(Nat) /\ Len(u) = n /\ (\A i \in 1..n : u[i] = i)
        /\ v \in Seq(Nat) /\ Len(v) = n + 1 /\ (\A i \in 1..(n + 1) : v[i] = i)
    BY UptoIsSeq
  <2> HIDE DEF u, v
  <2>2. w \in Seq(Nat) /\ Len(w) = n + 1 /\ (\A i \in 1..n : w[i] = u[i]) /\ w[n + 1] = n + 1
    BY <2>1
  <2> HIDE DEF w
  <2>3. \A i \in 1..(n + 1) : w[i] = v[i]
    <3> TAKE i \in 1..(n + 1)
    <3>1. CASE i = n + 1
      BY <3>1, <2>1, <2>2
    <3>2. CASE i # n + 1
      <4>1. i \in 1..n
        BY <3>2
      <4> QED BY <4>1, <2>1, <2>2
    <3> QED BY <3>1, <3>2
  <2>4. w = v
    BY <2>1, <2>2, <2>3, SeqEqual
  <2> QED BY <2>4 DEF w, u, v
<1>2. a \o Append(b, n + 1) = Append(a \o b, n + 1)
  <2> DEFINE x == n + 1
             t == <<x>>
  <2>1. x \in Nat /\ t \in Seq(Nat)
    OBVIOUS
  <2> HIDE DEF x
  <2>2. a \o b \in Seq(Nat)
    BY Regrouped
  <2>3. Append(b, x) = b \o t /\ Append(a \o b, x) = (a \o b) \o t
    BY <2>1, <2>2, AppendIsConcat
  <2> HIDE DEF t
  <2>4. Regroups(a, b, t)
    BY <2>1, Regrouped
  <2> QED BY <2>3, <2>4 DEF Regroups, x
<1> QED BY <1>1, <1>2

\* An order of a finite set has each of its elements once.
LEMMA OrderHasAll ==
  ASSUME NEW S, IsFiniteSet(S), NEW order \in SetToSeqs(S)
  PROVE  /\ order \in Seq(S)
         /\ \A i \in DOMAIN order, j \in DOMAIN order : order[i] = order[j] => i = j
         /\ \A x \in S : \E i \in DOMAIN order : order[i] = x
<1> DEFINE n == Cardinality(S)
           D == 1..n
<1>1. n \in Nat
  BY FS_CardinalityType
<1> HIDE DEF n
<1>2. order \in [D -> S] /\ \A i \in D, j \in D : i # j => order[i] # order[j]
  BY DEF SetToSeqs, n
<1>3. IsFiniteSet(D) /\ Cardinality(D) = n
  BY <1>1, FS_Interval
<1>4. order \in Injection(D, S)
  BY <1>2 DEF Injection, IsInjective
<1>5. order \in Surjection(D, S)
  BY <1>3, <1>4, FS_Injection DEF n
<1> QED BY <1>1, <1>2, <1>5 DEF Surjection

NotifyTypes ==
  /\ notified \in [Conns -> Nat]
  /\ onWire \in [Conns -> Seq(Nat)] /\ notifies \in [Conns -> Seq(Nat)] /\ emitted \in [Conns -> Seq(Nat)]
  /\ incoming \in {None} \cup Seq(NotifyEvents)

\* A connection has one event in .incoming at most.
OneEach ==
  incoming # None => \A i \in DOMAIN incoming, j \in DOMAIN incoming : incoming[i][1] = incoming[j][1] => i = j

\* From the caller back to the server.
OnTheWay(c) == emitted[c] \o Outstanding(c) \o notifies[c] \o onWire[c]

NotifyInv ==
  /\ NotifyTypeOK /\ NotifyTypes /\ OneEach
  /\ \A c \in Conns : OnTheWay(c) = Upto(notified[c])
  \* What is set aside, and in the second turn all that is waited on, has been pulled from.
  /\ \A c \in garbage : notifies[c] = <<>>
  /\ loop = "unchecked" => \A c \in conns : notifies[c] = <<>>

LEMMA OutstandingNone ==
  ASSUME NEW c, incoming = None \/ incoming = <<>>
  PROVE  Outstanding(c) = <<>>
<1>1. EventsOf(c) = {}
  BY DEF EventsOf
<1> QED BY <1>1 DEF Outstanding

LEMMA OutstandingIs ==
  ASSUME NotifyTypes, OneEach, incoming # None, NEW c
  PROVE  /\ \A i \in DOMAIN incoming : incoming[i][1] = c => Outstanding(c) = incoming[i][2]
         /\ (\A i \in DOMAIN incoming : incoming[i][1] # c) => Outstanding(c) = <<>>
<1>1. EventsOf(c) = {i \in DOMAIN incoming : incoming[i][1] = c}
  BY DEF EventsOf
<1>2. ASSUME NEW i \in DOMAIN incoming, incoming[i][1] = c
      PROVE  Outstanding(c) = incoming[i][2]
  <2> DEFINE k == CHOOSE x \in EventsOf(c) : TRUE
  <2>1. i \in EventsOf(c)
    BY <1>1, <1>2
  <2>2. k \in EventsOf(c)
    BY <2>1
  <2>3. Outstanding(c) = incoming[k][2]
    BY <2>1 DEF Outstanding
  <2> HIDE DEF k
  <2>4. k = i
    BY <1>1, <1>2, <2>2 DEF OneEach
  <2> QED BY <2>3, <2>4
<1>3. ASSUME \A i \in DOMAIN incoming : incoming[i][1] # c
      PROVE  Outstanding(c) = <<>>
  <2>1. EventsOf(c) = {}
    BY <1>1, <1>3
  <2> QED BY <2>1 DEF Outstanding
<1> QED BY <1>2, <1>3

LEMMA EventIs ==
  ASSUME NEW q \in Seq(NotifyEvents), NEW i \in DOMAIN q
  PROVE  q[i] = <<q[i][1], q[i][2]>> /\ q[i][1] \in Conns /\ q[i][2] \in Seq(Nat) /\ i \in Nat
<1>1. q[i] \in NotifyEvents /\ i \in Nat
  OBVIOUS
<1> QED BY <1>1 DEF NotifyEvents

LEMMA OutstandingType ==
  ASSUME NotifyTypes, OneEach, NEW c
  PROVE  Outstanding(c) \in Seq(Nat)
<1>1. CASE incoming = None
  BY <1>1, OutstandingNone, EmptySeq
<1>2. CASE incoming # None
  <2>1. incoming \in Seq(NotifyEvents)
    BY <1>2 DEF NotifyTypes
  <2>2. CASE \A i \in DOMAIN incoming : incoming[i][1] # c
    BY <1>2, <2>2, OutstandingIs, EmptySeq
  <2>3. CASE \E i \in DOMAIN incoming : incoming[i][1] = c
    <3>1. PICK i \in DOMAIN incoming : incoming[i][1] = c
      BY <2>3
    <3>2. Outstanding(c) = incoming[i][2] /\ incoming[i][2] \in Seq(Nat)
      BY <1>2, <2>1, <3>1, OutstandingIs, EventIs
    <3> QED BY <3>2
  <2> QED BY <2>2, <2>3
<1> QED BY <1>1, <1>2

\* The way of a notification from the server, as the provers find it.
OpensUp(e, o, n, w) == ((e \o o) \o n) \o w = e \o ((o \o n) \o w)

LEMMA WayOpens ==
  ASSUME NEW e \in Seq(Nat), NEW o \in Seq(Nat), NEW n \in Seq(Nat), NEW w \in Seq(Nat)
  PROVE  OpensUp(e, o, n, w)
<1>1. o \o n \in Seq(Nat) /\ Regroups(e, o, n)
  BY Regrouped
<1> DEFINE m == o \o n
<1>2. m \in Seq(Nat)
  BY <1>1
<1> HIDE DEF m
<1>3. Regroups(e, m, w)
  BY <1>2, Regrouped
<1> QED BY <1>1, <1>3 DEF Regroups, OpensUp, m

LEMMA NoneJoined ==
  ASSUME NEW a \in Seq(Nat)
  PROVE  a \o <<>> = a /\ <<>> \o a = a
  BY ConcatEmptySeq

LEMMA WayTypes ==
  ASSUME NotifyTypes, OneEach, NEW c \in Conns
  PROVE  /\ emitted[c] \in Seq(Nat) /\ Outstanding(c) \in Seq(Nat) /\ notifies[c] \in Seq(Nat) /\ onWire[c] \in Seq(Nat)
         /\ OnTheWay(c) = emitted[c] \o ((Outstanding(c) \o notifies[c]) \o onWire[c])
<1>1. emitted[c] \in Seq(Nat) /\ Outstanding(c) \in Seq(Nat) /\ notifies[c] \in Seq(Nat) /\ onWire[c] \in Seq(Nat)
  BY OutstandingType DEF NotifyTypes
<1> DEFINE e == emitted[c]
           o == Outstanding(c)
           n == notifies[c]
           w == onWire[c]
<1>2. OpensUp(e, o, n, w)
  <2>1. e \in Seq(Nat) /\ o \in Seq(Nat) /\ n \in Seq(Nat) /\ w \in Seq(Nat)
    BY <1>1
  <2> HIDE DEF e, o, n, w
  <2> QED BY <2>1, WayOpens
<1> QED BY <1>1, <1>2 DEF OnTheWay, OpensUp

LEMMA WayIs ==
  NotifyTypes /\ OneEach => \A c \in Conns : OnTheWay(c) = emitted[c] \o ((Outstanding(c) \o notifies[c]) \o onWire[c])
  BY WayTypes

LEMMA WayIsThen ==
  (NotifyTypes /\ OneEach => \A c \in Conns : OnTheWay(c) = emitted[c] \o ((Outstanding(c) \o notifies[c]) \o onWire[c]))'
  BY WayIs, PTL

\* Steps that leave the rest of the way alone for each connection.
LEMMA WayKept ==
  ASSUME NotifyInv, NotifyTypes', OneEach', NEW c \in Conns,
         emitted'[c] = emitted[c], notified'[c] = notified[c],
         (Outstanding(c) \o notifies[c]) \o onWire[c] = (Outstanding(c)' \o notifies'[c]) \o onWire'[c]
  PROVE  OnTheWay(c)' = Upto(notified'[c])
<1>1. OnTheWay(c) = emitted[c] \o ((Outstanding(c) \o notifies[c]) \o onWire[c])
  BY WayTypes DEF NotifyInv
<1>2. OnTheWay(c)' = emitted'[c] \o ((Outstanding(c)' \o notifies'[c]) \o onWire'[c])
  BY WayIsThen
<1> QED BY <1>1, <1>2 DEF NotifyInv

LEMMA NothingLeft == (incoming = None \/ incoming = <<>>) => \A c \in Conns : Outstanding(c) = <<>>
  BY OutstandingNone

LEMMA NothingLeftThen == ((incoming = None \/ incoming = <<>>) => \A c \in Conns : Outstanding(c) = <<>>)'
  BY NothingLeft, PTL

LEMMA LeftIs ==
  NotifyTypes /\ OneEach /\ incoming # None =>
    \A c \in Conns :
      /\ \A i \in DOMAIN incoming : incoming[i][1] = c => Outstanding(c) = incoming[i][2]
      /\ (\A i \in DOMAIN incoming : incoming[i][1] # c) => Outstanding(c) = <<>>
  BY OutstandingIs

LEMMA LeftIsThen ==
  (NotifyTypes /\ OneEach /\ incoming # None =>
    \A c \in Conns :
      /\ \A i \in DOMAIN incoming : incoming[i][1] = c => Outstanding(c) = incoming[i][2]
      /\ (\A i \in DOMAIN incoming : incoming[i][1] # c) => Outstanding(c) = <<>>)'
  BY LeftIs, PTL

\* Steps of which no notification notices anything.
LEMMA CalmKeeps ==
  ASSUME NotifyInv, UNCHANGED <<notified, onWire, notifies, emitted, garbage>>,
         UNCHANGED incoming \/ ((incoming = None \/ incoming = <<>>) /\ incoming' = None),
         NotifyTypeOK', loop' = "unchecked" => \A c \in conns' : notifies[c] = <<>>
  PROVE  NotifyInv'
<1>1. NotifyTypes' /\ OneEach'
  BY DEF NotifyInv, NotifyTypes, OneEach
<1>2. ASSUME NEW c \in Conns PROVE OnTheWay(c)' = Upto(notified'[c])
  <2>1. CASE UNCHANGED incoming
    <3>1. OnTheWay(c)' = OnTheWay(c)
      BY <2>1 DEF OnTheWay, Outstanding, EventsOf
    <3> QED BY <3>1 DEF NotifyInv
  <2>2. CASE (incoming = None \/ incoming = <<>>) /\ incoming' = None
    <3>1. Outstanding(c) = <<>> /\ Outstanding(c)' = <<>>
      BY <2>2, NothingLeft, NothingLeftThen
    <3>2. OnTheWay(c)' = OnTheWay(c)
      BY <3>1 DEF OnTheWay
    <3> QED BY <3>2 DEF NotifyInv
  <2> QED BY <2>1, <2>2
<1>3. (\A c \in garbage' : notifies'[c] = <<>>) /\ (loop' = "unchecked" => \A c \in conns' : notifies'[c] = <<>>)
  BY DEF NotifyInv
<1> QED BY <1>1, <1>2, <1>3 DEF NotifyInv

LEMMA ServerNotifyKeeps ==
  ASSUME NotifyInv, NEW d \in Conns, ServerNotify(d)
  PROVE  NotifyInv'
<1>1. /\ notified' = [notified EXCEPT ![d] = @ + 1] /\ onWire' = [onWire EXCEPT ![d] = Append(@, notified'[d])]
      /\ notified[d] < MaxSent
      /\ UNCHANGED <<timeout, notifies, incoming, conns, garbage, shut, lastTime, loop, emitted>>
  BY DEF ServerNotify
<1>2. NotifyTypeOK /\ NotifyTypes /\ OneEach
  BY DEF NotifyInv
<1>3. /\ notified[d] \in Nat /\ notified'[d] = notified[d] + 1 /\ onWire'[d] = Append(onWire[d], notified[d] + 1)
      /\ onWire[d] \in Seq(Nat)
      /\ \A c \in Conns \ {d} : notified'[c] = notified[c] /\ onWire'[c] = onWire[c]
  BY <1>1, <1>2 DEF NotifyTypes
<1>4. NotifyTypeOK' /\ NotifyTypes' /\ OneEach'
  <2>1. NotifyTypeOK'
    BY <1>1, <1>2, <1>3, NotifyAssumption DEF NotifyTypeOK
  <2>2. NotifyTypes' /\ OneEach'
    BY <1>1, <1>2, <1>3 DEF NotifyTypes, OneEach
  <2> QED BY <2>1, <2>2
<1>5. ASSUME NEW c \in Conns PROVE OnTheWay(c)' = Upto(notified'[c])
  <2>1. OnTheWay(c) = Upto(notified[c]) /\ Outstanding(c)' = Outstanding(c)
    BY <1>1 DEF NotifyInv, Outstanding, EventsOf
  <2>2. CASE c # d
    BY <2>1, <2>2, <1>1, <1>3 DEF OnTheWay
  <2>3. CASE c = d
    <3> DEFINE a == emitted[c] \o Outstanding(c) \o notifies[c]
               b == onWire[c]
    <3>1. a \in Seq(Nat) /\ b \in Seq(Nat) /\ notified[c] \in Nat
      <4> DEFINE e == emitted[c]
                 o == Outstanding(c)
                 n == notifies[c]
      <4>1. e \in Seq(Nat) /\ o \in Seq(Nat) /\ n \in Seq(Nat)
        BY <1>2, WayTypes
      <4> HIDE DEF e, o, n
      <4>2. e \o o \in Seq(Nat)
        BY <4>1, Regrouped
      <4>3. (e \o o) \o n \in Seq(Nat)
        BY <4>1, <4>2, Regrouped
      <4> QED BY <4>3, <1>3, <2>3 DEF e, o, n
    <3>2. a \o b = Upto(notified[c])
      BY <2>1 DEF OnTheWay
    <3>3. OnTheWay(c)' = a \o onWire'[c]
      BY <2>1, <1>1 DEF OnTheWay
    <3> HIDE DEF a, b
    <3>4. PICK n \in Nat : n = notified[c]
      BY <3>1
    <3>5. a \o Append(b, n + 1) = Upto(n + 1)
      BY <3>1, <3>2, <3>4, UptoNext
    <3> QED BY <3>3, <3>4, <3>5, <2>3, <1>3 DEF b
  <2> QED BY <2>2, <2>3
<1>6. (\A c \in garbage' : notifies'[c] = <<>>) /\ (loop' = "unchecked" => \A c \in conns' : notifies'[c] = <<>>)
  BY <1>1 DEF NotifyInv
<1> QED BY <1>4, <1>5, <1>6 DEF NotifyInv

LEMMA CallerQueriesKeeps ==
  ASSUME NotifyInv, NEW d \in Conns, CallerQueries(d)
  PROVE  NotifyInv'
<1>1. /\ onWire' = [onWire EXCEPT ![d] = <<>>] /\ notifies' = [notifies EXCEPT ![d] = @ \o onWire[d]]
      /\ loop = None /\ d \notin garbage
      /\ UNCHANGED <<timeout, notified, incoming, conns, garbage, shut, lastTime, loop, emitted>>
  BY DEF CallerQueries
<1>2. NotifyTypeOK /\ NotifyTypes /\ OneEach
  BY DEF NotifyInv
<1>3. /\ notifies'[d] = notifies[d] \o onWire[d] /\ onWire'[d] = <<>>
      /\ \A c \in Conns \ {d} : notifies'[c] = notifies[c] /\ onWire'[c] = onWire[c]
  BY <1>1, <1>2 DEF NotifyTypes
<1>4. NotifyTypeOK' /\ NotifyTypes' /\ OneEach'
  <2>1. NotifyTypeOK' /\ OneEach'
    BY <1>1, <1>2 DEF NotifyTypeOK, OneEach
  <2>2. notifies[d] \o onWire[d] \in Seq(Nat)
    BY <1>2 DEF NotifyTypes
  <2>3. NotifyTypes'
    BY <1>1, <1>2, <2>2 DEF NotifyTypes
  <2> QED BY <2>1, <2>3
<1>5. ASSUME NEW c \in Conns PROVE OnTheWay(c)' = Upto(notified'[c])
  <2>1. emitted'[c] = emitted[c] /\ notified'[c] = notified[c] /\ Outstanding(c)' = Outstanding(c)
    BY <1>1 DEF Outstanding, EventsOf
  <2>2. (Outstanding(c) \o notifies[c]) \o onWire[c] = (Outstanding(c)' \o notifies'[c]) \o onWire'[c]
    <3>1. CASE c # d
      BY <3>1, <2>1, <1>3
    <3>2. CASE c = d
      <4> DEFINE o == Outstanding(c)
                 n == notifies[c]
                 w == onWire[c]
      <4>1. o \in Seq(Nat) /\ n \in Seq(Nat) /\ w \in Seq(Nat)
        BY <1>2, WayTypes
      <4> HIDE DEF o, n, w
      <4>2. Regroups(o, n, w) /\ n \o w \in Seq(Nat)
        BY <4>1, Regrouped
      <4> DEFINE m == n \o w
      <4>3. m \in Seq(Nat)
        BY <4>2
      <4> HIDE DEF m
      <4>4. o \o m \in Seq(Nat)
        BY <4>1, <4>3, Regrouped
      <4>5. (o \o m) \o <<>> = o \o m
        BY <4>4, NoneJoined
      <4>6. notifies'[c] = m /\ onWire'[c] = <<>> /\ Outstanding(c)' = o
        BY <3>2, <1>3, <2>1 DEF o, n, w, m
      <4>7. (o \o n) \o w = o \o m
        BY <4>2 DEF Regroups, m
      <4>8. (o \o n) \o w = (Outstanding(c)' \o notifies'[c]) \o onWire'[c]
        BY <4>5, <4>6, <4>7
      <4> QED BY <4>8 DEF o, n, w
    <3> QED BY <3>1, <3>2
  <2> QED BY <1>4, <2>1, <2>2, WayKept
<1>6. (\A c \in garbage' : notifies'[c] = <<>>) /\ loop' # "unchecked"
  <2>1. \A c \in garbage' : notifies'[c] = <<>>
    BY <1>1, <1>2, <1>3 DEF NotifyInv, NotifyTypeOK
  <2>2. loop' # "unchecked"
    BY <1>1, NotifyAssumption
  <2> QED BY <2>1, <2>2
<1> QED BY <1>4, <1>5, <1>6 DEF NotifyInv

LEMMA EmitKeeps ==
  ASSUME NotifyInv, Emit
  PROVE  NotifyInv'
<1>1. /\ incoming # None /\ incoming # <<>>
      /\ emitted' = [emitted EXCEPT ![Head(incoming)[1]] = @ \o Head(incoming)[2]]
      /\ incoming' = Tail(incoming) /\ loop' = None
      /\ UNCHANGED <<timeout, notified, onWire, notifies, conns, garbage, shut, lastTime>>
  BY DEF Emit
<1>2. NotifyTypeOK /\ NotifyTypes /\ OneEach
  BY DEF NotifyInv
<1>3. incoming \in Seq(NotifyEvents)
  BY <1>1, <1>2 DEF NotifyTypes
<1>4. 1 \in DOMAIN incoming /\ Head(incoming) = incoming[1]
  BY <1>1, <1>3
<1>5. PICK d \in Conns, x \in Seq(Nat) : d = incoming[1][1] /\ x = incoming[1][2]
  BY <1>3, <1>4, EventIs
<1>6. /\ Tail(incoming) \in Seq(NotifyEvents)
      /\ \A i \in DOMAIN Tail(incoming) : i \in Nat \ {0} /\ i + 1 \in DOMAIN incoming /\ Tail(incoming)[i] = incoming[i + 1]
      /\ \A i \in DOMAIN incoming \ {1} : i \in Nat /\ i - 1 \in DOMAIN Tail(incoming)
  BY <1>1, <1>3
<1>7. /\ emitted'[d] = emitted[d] \o x /\ \A c \in Conns \ {d} : emitted'[c] = emitted[c]
  BY <1>1, <1>2, <1>4, <1>5 DEF NotifyTypes
<1>8. NotifyTypes' /\ OneEach' /\ NotifyTypeOK' /\ incoming' # None
  <2>1. emitted[d] \o x \in Seq(Nat)
    BY <1>2, <1>5 DEF NotifyTypes
  <2>2. NotifyTypes'
    BY <1>1, <1>2, <1>4, <1>5, <1>6, <2>1 DEF NotifyTypes
  <2>3. OneEach'
    <3>1. SUFFICES ASSUME NEW i \in DOMAIN incoming', NEW j \in DOMAIN incoming', incoming'[i][1] = incoming'[j][1]
                   PROVE  i = j
      BY DEF OneEach
    <3>2. /\ i \in Nat /\ i + 1 \in DOMAIN incoming /\ incoming'[i] = incoming[i + 1]
          /\ j \in Nat /\ j + 1 \in DOMAIN incoming /\ incoming'[j] = incoming[j + 1]
      BY <1>1, <1>6
    <3>3. i + 1 = j + 1
      BY <1>1, <1>2, <3>1, <3>2 DEF OneEach
    <3> QED BY <3>2, <3>3
  <2>4. NotifyTypeOK'
    BY <1>1, <1>2 DEF NotifyTypeOK
  <2>5. incoming' # None
    BY <1>1, <1>6, NotifyAssumption
  <2> QED BY <2>2, <2>3, <2>4, <2>5
<1>9. Outstanding(d) = x /\ Outstanding(d)' = <<>>
  <2>1. Outstanding(d) = x
    BY <1>1, <1>2, <1>4, <1>5, LeftIs
  <2>2. ASSUME NEW i \in DOMAIN incoming', incoming'[i][1] = d PROVE FALSE
    <3>1. i \in Nat \ {0} /\ i + 1 \in DOMAIN incoming /\ incoming[i + 1][1] = d
      BY <1>1, <1>6, <2>2
    <3>2. i + 1 = 1
      BY <1>1, <1>2, <1>4, <1>5, <3>1 DEF OneEach
    <3> QED BY <3>1, <3>2
  <2>3. \A i \in DOMAIN incoming' : incoming'[i][1] # d
    BY <2>2
  <2>4. Outstanding(d)' = <<>>
    BY <1>8, <2>3, LeftIsThen
  <2> QED BY <2>1, <2>4
<1>10. ASSUME NEW c \in Conns, c # d PROVE Outstanding(c)' = Outstanding(c)
  <2>1. CASE \E i \in DOMAIN incoming : incoming[i][1] = c
    <3>1. PICK i \in DOMAIN incoming : incoming[i][1] = c
      BY <2>1
    <3>2. i # 1
      BY <1>5, <1>10, <3>1
    <3>3. i \in Nat /\ i - 1 \in DOMAIN Tail(incoming)
      BY <1>6, <3>1, <3>2
    <3>4. i - 1 \in DOMAIN incoming' /\ incoming'[i - 1] = incoming[(i - 1) + 1] /\ (i - 1) + 1 = i
      BY <1>1, <1>6, <3>3
    <3>5. Outstanding(c) = incoming[i][2]
      BY <1>1, <1>2, <3>1, LeftIs
    <3>6. Outstanding(c)' = incoming'[i - 1][2]
      BY <1>8, <3>1, <3>4, LeftIsThen
    <3> QED BY <3>4, <3>5, <3>6
  <2>2. CASE \A i \in DOMAIN incoming : incoming[i][1] # c
    <3>1. \A i \in DOMAIN incoming' : incoming'[i][1] # c
      BY <1>1, <1>6, <2>2
    <3>2. Outstanding(c)' = <<>>
      BY <1>8, <3>1, LeftIsThen
    <3> QED BY <1>1, <1>2, <2>2, <3>2, LeftIs
  <2> QED BY <2>1, <2>2
<1>11. ASSUME NEW c \in Conns PROVE OnTheWay(c)' = Upto(notified'[c])
  <2>1. OnTheWay(c) = Upto(notified[c])
    BY DEF NotifyInv
  <2>2. CASE c # d
    BY <2>1, <2>2, <1>1, <1>7, <1>10 DEF OnTheWay
  <2>3. CASE c = d
    <3> DEFINE e == emitted[c]
               o == Outstanding(c)
               n == notifies[c]
               w == onWire[c]
    <3>1. e \in Seq(Nat) /\ o \in Seq(Nat) /\ emitted'[c] = e \o o /\ Outstanding(c)' = <<>>
      BY <1>2, <1>7, <1>9, <2>3, WayTypes
    <3>2. OnTheWay(c) = ((e \o o) \o n) \o w
      BY DEF OnTheWay
    <3>3. OnTheWay(c)' = ((emitted'[c] \o Outstanding(c)') \o n) \o w
      BY <1>1 DEF OnTheWay
    <3> HIDE DEF e, o, n, w
    <3>4. e \o o \in Seq(Nat)
      BY <3>1, Regrouped
    <3>5. (e \o o) \o <<>> = e \o o
      BY <3>4, NoneJoined
    <3> QED BY <3>1, <3>2, <3>3, <3>5, <2>1, <1>1
  <2> QED BY <2>2, <2>3
<1>12. (\A c \in garbage' : notifies'[c] = <<>>) /\ loop' # "unchecked"
  BY <1>1, NotifyAssumption DEF NotifyInv
<1> QED BY <1>8, <1>11, <1>12 DEF NotifyInv

\* What a turn finds: notifications only go from the wire to the connection, and those set aside have none.
Found(w) ==
  /\ w.conns \subseteq conns /\ w.garbage \subseteq Conns /\ w.conns \cap w.garbage = {}
  /\ w.notifies \in [Conns -> Seq(Nat)] /\ w.wire \in [Conns -> Seq(Nat)]
  /\ \A c \in Conns : w.notifies[c] \o w.wire[c] = notifies[c] \o onWire[c]
  /\ \A c \in w.garbage : w.notifies[c] = <<>>

LEMMA UnwaitedFound ==
  ASSUME NotifyInv
  PROVE  Found(Unwaited) /\ Unwaited.conns = conns
<1>1. Unwaited.wire = onWire /\ Unwaited.notifies = notifies /\ Unwaited.conns = conns /\ Unwaited.garbage = garbage
  BY DEF Unwaited
<1> QED BY <1>1 DEF Found, NotifyInv, NotifyTypes, NotifyTypeOK

LEMMA WaitedFound ==
  ASSUME NotifyInv, loop = "unchecked", NEW failing \in SUBSET Good
  PROVE  Found(Waited(failing))
<1> DEFINE W == Waited(failing)
           left == Good \ failing
<1>1. /\ W.wire = [c \in Conns |-> IF c \in left THEN <<>> ELSE onWire[c]]
      /\ W.notifies = [c \in Conns |-> notifies[c] \o IF c \in left THEN onWire[c] ELSE <<>>]
      /\ W.conns = left /\ W.garbage = garbage \cup (conns \cap shut) \cup failing
  BY DEF Waited
<1>2. /\ left \subseteq conns /\ W.garbage \subseteq Conns /\ left \cap W.garbage = {}
      /\ W.garbage \subseteq garbage \cup conns /\ conns \subseteq Conns
  BY <1>1 DEF NotifyInv, NotifyTypeOK, Good
<1> HIDE DEF W, left
<1>3. ASSUME NEW c \in Conns
      PROVE  /\ W.notifies[c] \in Seq(Nat) /\ W.wire[c] \in Seq(Nat)
             /\ W.notifies[c] \o W.wire[c] = notifies[c] \o onWire[c]
             /\ c \notin left => W.notifies[c] = notifies[c]
  <2> DEFINE n == notifies[c]
             w == onWire[c]
  <2>1. n \in Seq(Nat) /\ w \in Seq(Nat)
    BY DEF NotifyInv, NotifyTypes
  <2>2. n \o w \in Seq(Nat) /\ (n \o w) \o <<>> = n \o w /\ n \o <<>> = n /\ <<>> \in Seq(Nat)
    <3> HIDE DEF n, w
    <3>1. n \o w \in Seq(Nat)
      BY <2>1, Regrouped
    <3>2. (n \o w) \o <<>> = n \o w /\ n \o <<>> = n
      BY <2>1, <3>1, NoneJoined
    <3> QED BY <3>1, <3>2
  <2>3. CASE c \in left
    BY <2>1, <2>2, <2>3, <1>1
  <2>4. CASE c \notin left
    BY <2>1, <2>2, <2>4, <1>1
  <2> QED BY <2>3, <2>4
<1>4. ASSUME NEW c \in W.garbage PROVE W.notifies[c] = <<>>
  <2>1. c \in Conns /\ c \notin left
    BY <1>2
  <2>2. notifies[c] = <<>>
    BY <1>2 DEF NotifyInv
  <2> QED BY <2>1, <2>2, <1>3
<1>5. W.notifies \in [Conns -> Seq(Nat)] /\ W.wire \in [Conns -> Seq(Nat)]
  <2>1. /\ W.notifies = [c \in Conns |-> W.notifies[c]]
        /\ W.wire = [c \in Conns |-> W.wire[c]]
    BY <1>1
  <2> QED BY <1>3, <2>1
<1> QED BY <1>1, <1>2, <1>3, <1>4, <1>5 DEF Found, W

LEMMA TurnKeeps ==
  ASSUME NotifyInv, Turn
  PROVE  NotifyInv'
<1> DEFINE waits == loop = "unchecked" /\ conns # {}
<1>1. PICK w \in IF waits THEN {Waited(f) : f \in SUBSET Good} ELSE {Unwaited} :
        /\ onWire' = w.wire /\ conns' = w.conns /\ garbage' = w.garbage
        /\ notifies' = [c \in Conns |-> IF c \in w.conns THEN <<>> ELSE w.notifies[c]]
        /\ \E order \in SetToSeqs(HasNotifies(w)) : incoming' = Queued(w, order)
  BY DEF Turn
<1>2. /\ NothingIncoming /\ loop' = (IF waits THEN "checked" ELSE "unchecked")
      /\ UNCHANGED <<timeout, notified, shut, emitted>>
  BY DEF Turn
<1>3. Found(w) /\ (~waits => w.conns = conns)
  <2>1. CASE waits
    <3>1. PICK f \in SUBSET Good : w = Waited(f)
      BY <1>1, <2>1
    <3> QED BY <2>1, <3>1, WaitedFound
  <2>2. CASE ~waits
    <3>1. w = Unwaited
      BY <1>1, <2>2
    <3> QED BY <2>2, <3>1, UnwaitedFound
  <2> QED BY <2>1, <2>2
<1>4. PICK order \in SetToSeqs(HasNotifies(w)) : incoming' = Queued(w, order)
  BY <1>1
<1>5. NotifyTypeOK /\ NotifyTypes /\ OneEach
  BY DEF NotifyInv
<1>6. HasNotifies(w) \subseteq Conns /\ IsFiniteSet(HasNotifies(w))
  <2>1. HasNotifies(w) \subseteq Conns
    BY <1>3, <1>5 DEF HasNotifies, Found, NotifyTypeOK
  <2> QED BY <2>1, NotifyAssumption, FS_Subset
<1>7. /\ order \in Seq(HasNotifies(w))
      /\ \A i \in DOMAIN order, j \in DOMAIN order : order[i] = order[j] => i = j
      /\ \A x \in HasNotifies(w) : \E i \in DOMAIN order : order[i] = x
  BY <1>6, OrderHasAll
<1>8. /\ DOMAIN incoming' = DOMAIN order /\ incoming' \in Seq(NotifyEvents)
      /\ \A i \in DOMAIN order : /\ order[i] \in HasNotifies(w) /\ order[i] \in Conns
                                 /\ incoming'[i][1] = order[i] /\ incoming'[i][2] = w.notifies[order[i]]
  <2>1. incoming' = [i \in DOMAIN order |-> <<order[i], w.notifies[order[i]]>>]
    BY <1>4 DEF Queued
  <2>2. \A i \in DOMAIN order : order[i] \in HasNotifies(w) /\ order[i] \in Conns /\ w.notifies[order[i]] \in Seq(Nat)
    <3>1. \A i \in DOMAIN order : order[i] \in HasNotifies(w)
      BY <1>7
    <3> QED BY <3>1, <1>3, <1>6 DEF Found
  <2>3. \A i \in DOMAIN order : <<order[i], w.notifies[order[i]]>> \in NotifyEvents
    BY <2>2 DEF NotifyEvents
  <2>4. PICK n \in Nat : DOMAIN order = 1..n
    BY <1>7
  <2>5. incoming' \in Seq(NotifyEvents)
    <3>1. incoming' \in [1..n -> NotifyEvents]
      BY <2>1, <2>3, <2>4
    <3> QED BY <3>1, IsASeq
  <2> QED BY <2>1, <2>2, <2>5
<1>9. NotifyTypeOK' /\ NotifyTypes' /\ OneEach' /\ incoming' # None
  <2>1. NotifyTypeOK'
    <3>1. w.conns \subseteq Conns /\ w.garbage \subseteq Conns /\ w.conns \cap w.garbage = {}
      BY <1>3, <1>5 DEF Found, NotifyTypeOK
    <3>2. loop' \in {None, "checked", "unchecked", "stopped"}
      BY <1>2
    <3> QED BY <3>1, <3>2, <1>1, <1>2, <1>5 DEF NotifyTypeOK
  <2>2. NotifyTypes'
    <3>1. notifies' \in [Conns -> Seq(Nat)] /\ onWire' \in [Conns -> Seq(Nat)]
      BY <1>1, <1>3 DEF Found
    <3> QED BY <3>1, <1>2, <1>5, <1>8 DEF NotifyTypes
  <2>3. OneEach'
    BY <1>7, <1>8 DEF OneEach
  <2>4. incoming' # None
    BY <1>8, NotifyAssumption
  <2> QED BY <2>1, <2>2, <2>3, <2>4
<1>10. ASSUME NEW c \in Conns PROVE OnTheWay(c)' = Upto(notified'[c])
  <2> DEFINE n == notifies[c]
             v == w.notifies[c]
  <2>1. /\ Outstanding(c) = <<>> /\ n \in Seq(Nat) /\ v \in Seq(Nat)
        /\ v \o onWire'[c] = n \o onWire[c]
        /\ notifies'[c] = IF c \in w.conns THEN <<>> ELSE v
    BY <1>1, <1>2, <1>3, <1>5, NothingLeft DEF NothingIncoming, NotifyTypes, Found
  <2>2. Outstanding(c)' \o notifies'[c] = v
    <3> HIDE DEF v
    <3>1. v \o <<>> = v /\ <<>> \o v = v
      BY <2>1, NoneJoined
    <3>2. CASE c \in HasNotifies(w)
      <4>1. PICK i \in DOMAIN order : order[i] = c
        BY <1>7, <3>2
      <4>2. Outstanding(c)' = v
        BY <1>8, <1>9, <4>1, LeftIsThen DEF v
      <4>3. c \in w.conns
        BY <3>2 DEF HasNotifies
      <4> QED BY <2>1, <3>1, <4>2, <4>3
    <3>3. CASE c \notin HasNotifies(w)
      <4>1. \A i \in DOMAIN incoming' : incoming'[i][1] # c
        BY <1>8, <3>3
      <4>2. Outstanding(c)' = <<>>
        BY <1>9, <4>1, LeftIsThen
      <4>3. c \in w.conns => v = <<>>
        BY <3>3 DEF HasNotifies, v
      <4> QED BY <2>1, <3>1, <4>2, <4>3
    <3> QED BY <3>2, <3>3
  <2>3. (Outstanding(c) \o n) \o onWire[c] = (Outstanding(c)' \o notifies'[c]) \o onWire'[c]
    <3>1. <<>> \o n = n
      BY <2>1, NoneJoined
    <3> QED BY <2>1, <2>2, <3>1
  <2> QED BY <1>2, <1>9, <2>3, WayKept
<1>11. \A c \in garbage' : notifies'[c] = <<>>
  BY <1>1, <1>3 DEF Found
<1>12. loop' = "unchecked" => \A c \in conns' : notifies'[c] = <<>>
  BY <1>1, <1>3, <1>5 DEF Found, NotifyTypeOK
<1> QED BY <1>9, <1>10, <1>11, <1>12 DEF NotifyInv

LEMMA NotifyBegins == NotifyInit => NotifyInv
<1> SUFFICES ASSUME NotifyInit PROVE NotifyInv
  OBVIOUS
<1>1. NotifyTypeOK
  BY NotifyAssumption DEF NotifyInit, NotifyTypeOK
<1>2. NotifyTypes /\ OneEach
  BY DEF NotifyInit, NotifyTypes, OneEach
<1>3. ASSUME NEW c \in Conns PROVE OnTheWay(c) = Upto(notified[c])
  <2>1. Outstanding(c) = <<>> /\ emitted[c] = <<>> /\ notifies[c] = <<>> /\ onWire[c] = <<>> /\ notified[c] = 0
    BY OutstandingNone DEF NotifyInit
  <2>2. <<>> \o <<>> \o <<>> \o <<>> = <<>>
    BY EmptySeq, NoneJoined
  <2> QED BY <2>1, <2>2 DEF OnTheWay, Upto
<1>4. loop # "unchecked" /\ garbage = {}
  BY NotifyAssumption DEF NotifyInit
<1> QED BY <1>1, <1>2, <1>3, <1>4 DEF NotifyInv

LEMMA NotifyStep == NotifyInv /\ [NotifyNext]_notifyVars => NotifyInv'
<1> SUFFICES ASSUME NotifyInv, [NotifyNext]_notifyVars PROVE NotifyInv'
  OBVIOUS
<1>1. NotifyTypeOK /\ None # "unchecked"
  BY NotifyAssumption DEF NotifyInv
<1>2. ASSUME NEW c \in Conns, ServerNotify(c) PROVE NotifyInv'
  BY <1>2, ServerNotifyKeeps
<1>3. ASSUME NEW c \in Conns, CallerQueries(c) PROVE NotifyInv'
  BY <1>3, CallerQueriesKeeps
<1>4. ASSUME NEW c \in Conns, CallerCloses(c) PROVE NotifyInv'
  <2>1. NotifyTypeOK' /\ loop' # "unchecked"
    BY <1>1, <1>4 DEF CallerCloses, NotifyTypeOK
  <2> QED BY <1>4, <2>1, CalmKeeps DEF CallerCloses
<1>5. ASSUME NEW c \in Conns, CallerChanges(c) PROVE NotifyInv'
  <2>1. NotifyTypeOK' /\ loop' # "unchecked"
    BY <1>1, <1>5 DEF CallerChanges, NotifyTypeOK
  <2> QED BY <1>5, <2>1, CalmKeeps DEF CallerChanges
<1>6. CASE SetTimeout
  <2>1. NotifyTypeOK' /\ loop' # "unchecked"
    BY <1>1, <1>6 DEF SetTimeout, NotifyTypeOK
  <2> QED BY <1>6, <2>1, CalmKeeps DEF SetTimeout
<1>7. CASE Call
  <2>1. NotifyTypeOK' /\ loop' # "unchecked"
    BY <1>1, <1>7 DEF Call, NotifyTypeOK
  <2> QED BY <1>7, <2>1, CalmKeeps DEF Call
<1>8. CASE Emit
  BY <1>8, EmitKeeps
<1>9. CASE Stop
  <2>1. NotifyTypeOK' /\ loop' # "unchecked"
    BY <1>1, <1>9 DEF Stop, NotifyTypeOK
  <2> QED BY <1>9, <2>1, CalmKeeps DEF Stop
<1>10. CASE TimedOut
  <2>1. NotifyTypeOK' /\ loop' # "unchecked" /\ (incoming = None \/ incoming = <<>>)
    BY <1>1, <1>10 DEF TimedOut, NothingIncoming, NotifyTypeOK
  <2> QED BY <1>10, <2>1, CalmKeeps DEF TimedOut
<1>11. CASE Turn
  BY <1>11, TurnKeeps
<1>12. CASE UNCHANGED notifyVars
  <2>1. NotifyTypeOK'
    BY <1>1, <1>12 DEF notifyVars, NotifyTypeOK
  <2>2. loop' = "unchecked" => \A c \in conns' : notifies[c] = <<>>
    BY <1>12 DEF notifyVars, NotifyInv
  <2> QED BY <1>12, <2>1, <2>2, CalmKeeps DEF notifyVars
<1> QED BY <1>2, <1>3, <1>4, <1>5, <1>6, <1>7, <1>8, <1>9, <1>10, <1>11, <1>12 DEF NotifyNext

LEMMA NotifyFollows == NotifyInv => NotifyTypeOK /\ NotifiesInOrder
<1> SUFFICES ASSUME NotifyInv PROVE NotifiesInOrder
  BY DEF NotifyInv
<1>1. SUFFICES ASSUME NEW c \in Conns
               PROVE  /\ \A i, j \in EventsOf(c) : i = j
                      /\ emitted[c] \o Outstanding(c) \o notifies[c] \o onWire[c] = [i \in 1..notified[c] |-> i]
                      /\ loop = "stopped" /\ c \in shut \cap garbage => notifies[c] = <<>>
  BY DEF NotifiesInOrder
<1>2. \A i, j \in EventsOf(c) : i = j
  BY DEF NotifyInv, OneEach, EventsOf
<1>3. OnTheWay(c) = Upto(notified[c]) /\ (c \in garbage => notifies[c] = <<>>)
  BY DEF NotifyInv
<1> QED BY <1>2, <1>3 DEF OnTheWay, Upto

\* Every notification is on its way once and in its place, through closed, failed, added and removed
\* connections, and none of a connection that was set aside is left behind (notifyman.NotificationManager).
THEOREM NotifiesAlwaysInOrder == NotifySpec => [](NotifyTypeOK /\ NotifiesInOrder)
<1>1. NotifyInit => NotifyInv
  BY NotifyBegins
<1>2. NotifyInv /\ [NotifyNext]_notifyVars => NotifyInv'
  BY NotifyStep
<1>3. NotifyInv => NotifyTypeOK /\ NotifiesInOrder
  BY NotifyFollows
<1> QED BY <1>1, <1>2, <1>3, PTL DEF NotifySpec
==================================================================================
