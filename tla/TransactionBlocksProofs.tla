------------------------- MODULE TransactionBlocksProofs -------------------------
(***************************************************************************)
(* What a block says of itself is what became of its statements, for any   *)
(* number of nested blocks and any statements.  The invariant follows the  *)
(* work of a statement from level to level: as long as it is pending, each *)
(* block around the statement still has a level below it, or has already   *)
(* said "committed"; once it is gone, one of these blocks tells.           *)
(***************************************************************************)
EXTENDS TransactionBlocks, SequenceTheorems, TLAPS

Level == [xact : Blocks, work : SUBSET Nat]
ServerType == [levels : Seq(Level), failed : BOOLEAN, durable : SUBSET Nat]
PqType == [state : {"I", "T", "E"}, ahead : {None, "rows", "error"}, closed : BOOLEAN]
XactType == [state : {"initialized", "open", "committed", "aborted"}, type : {None, "block", "savepoint"}]
DidType == [work : Nat, within : SUBSET Blocks]

TypesInv ==
  /\ server \in ServerType
  /\ pq \in PqType
  /\ xact \in [Blocks -> XactType]
  /\ withs \in Seq(Blocks)
  /\ did \subseteq DidType
  /\ excused \subseteq Blocks

\* What the client knows of the server's transaction.
StatusOf(s, p) ==
  /\ s.failed => s.levels # <<>>
  /\ p.closed => s.levels = <<>>
  /\ p.ahead = "error" => s.failed /\ p.state = "T" /\ ~p.closed
  /\ p.ahead # "error" /\ ~p.closed => p.state = Ready(s)

-----------------------------------------------------------------------------
(* What becomes of the levels *)

LEMMA LevelsAreLevels ==
  ASSUME NEW s \in ServerType
  PROVE  /\ Len(s.levels) \in Nat /\ DOMAIN s.levels = 1..Len(s.levels)
         /\ \A i \in DOMAIN s.levels : s.levels[i] \in Level /\ s.levels[i].xact \in Blocks /\ s.levels[i].work \subseteq Nat
         /\ s.levels = <<>> <=> Len(s.levels) = 0
<1>1. s.levels \in Seq(Level)
  BY DEF ServerType
<1>2. \A i \in 1..Len(s.levels) : s.levels[i] \in Level
  BY <1>1, ElementOfSeq
<1>3. s.levels = <<>> <=> Len(s.levels) = 0
  BY <1>1, EmptySeq
<1> QED BY <1>1, <1>2, <1>3, LenProperties DEF Level

LEMMA WorkFromIs ==
  ASSUME NEW s \in ServerType, NEW i \in Nat \ {0}
  PROVE  /\ WorkFrom(s, i) \subseteq Nat
         /\ \A w : w \in WorkFrom(s, i) <=> \E j \in DOMAIN s.levels : j >= i /\ w \in s.levels[j].work
<1>1. \A j : j \in i..Len(s.levels) <=> j \in DOMAIN s.levels /\ j >= i
  BY LevelsAreLevels
<1> QED BY <1>1, LevelsAreLevels DEF WorkFrom

LEMMA OpenedIs ==
  ASSUME NEW s \in ServerType, NEW b \in Blocks
  PROVE  /\ Opened(s, b) \in ServerType
         /\ Len(Opened(s, b).levels) = Len(s.levels) + 1
         /\ Opened(s, b).durable = s.durable /\ Opened(s, b).failed = s.failed
         /\ \A i \in 1..Len(s.levels) : Opened(s, b).levels[i] = s.levels[i]
         /\ Opened(s, b).levels[Len(s.levels) + 1] = [xact |-> b, work |-> {}]
<1> DEFINE l == [xact |-> b, work |-> {}]
<1>1. l \in Level
  BY DEF Level
<1>2. s.levels \in Seq(Level)
  BY DEF ServerType
<1>3. /\ Append(s.levels, l) \in Seq(Level)
      /\ Len(Append(s.levels, l)) = Len(s.levels) + 1
      /\ \A i \in 1..Len(s.levels) : Append(s.levels, l)[i] = s.levels[i]
      /\ Append(s.levels, l)[Len(s.levels) + 1] = l
  BY <1>1, <1>2, AppendProperties
<1>4. Opened(s, b) = [s EXCEPT !.levels = Append(s.levels, l)]
  BY DEF Opened
<1> HIDE DEF l
<1> QED BY <1>3, <1>4 DEF ServerType, l

LEMMA AbortedIs ==
  ASSUME NEW s \in ServerType
  PROVE  /\ Aborted(s) \in ServerType
         /\ Aborted(s).levels = <<>> /\ Aborted(s).failed = FALSE /\ Aborted(s).durable = s.durable
<1> DEFINE empty == <<>>
<1>1. empty \in Seq(Level)
  BY EmptySeq
<1>2. Aborted(s) = [s EXCEPT !.levels = empty, !.failed = FALSE]
  BY DEF Aborted
<1>3. empty = <<>>
  OBVIOUS
<1> HIDE DEF empty
<1> QED BY <1>1, <1>2, <1>3 DEF ServerType

LEMMA WorkedIs ==
  ASSUME NEW s \in ServerType, NEW w \in Nat
  PROVE  /\ Worked(s, w) \in ServerType
         /\ Len(Worked(s, w).levels) = Len(s.levels) /\ Worked(s, w).failed = s.failed
         /\ Worked(s, w).durable = IF s.levels = <<>> THEN s.durable \cup {w} ELSE s.durable
         /\ \A i \in DOMAIN s.levels :
              /\ Worked(s, w).levels[i].xact = s.levels[i].xact
              /\ Worked(s, w).levels[i].work =
                   IF i = Len(s.levels) THEN s.levels[i].work \cup {w} ELSE s.levels[i].work
<1>1. CASE s.levels = <<>>
  BY <1>1, LevelsAreLevels DEF Worked, ServerType
<1>2. CASE s.levels # <<>>
  <2> DEFINE n == Len(s.levels)
             l == [s.levels[n] EXCEPT !.work = @ \cup {w}]
             ls == [s.levels EXCEPT ![n] = l]
  <2>1. n \in 1..Len(s.levels) /\ DOMAIN s.levels = 1..n /\ s.levels[n] \in Level
    BY <1>2, LevelsAreLevels
  <2>2. l \in Level /\ l.xact = s.levels[n].xact /\ l.work = s.levels[n].work \cup {w}
    BY <2>1 DEF Level
  <2>3. Worked(s, w) = [s EXCEPT !.levels = ls]
    BY <1>2 DEF Worked
  <2>4. ls \in Seq(Level) /\ Len(ls) = n
    <3> HIDE DEF l
    <3> QED BY <2>1, <2>2, ExceptSeq DEF ServerType
  <2>5. \A i \in DOMAIN s.levels : ls[i] = IF i = n THEN l ELSE s.levels[i]
    OBVIOUS
  <2> HIDE DEF ls, l
  <2> QED BY <1>2, <2>1, <2>2, <2>3, <2>4, <2>5 DEF ServerType
<1> QED BY <1>1, <1>2

LEMMA CutIs ==
  ASSUME NEW s \in ServerType, NEW i \in DOMAIN s.levels, i >= 2
  PROVE  /\ SubSeq(s.levels, 1, i - 1) \in Seq(Level) /\ Len(SubSeq(s.levels, 1, i - 1)) = i - 1
         /\ \A j \in 1..(i - 1) : SubSeq(s.levels, 1, i - 1)[j] = s.levels[j]
<1>1. i \in 1..Len(s.levels) /\ Len(s.levels) \in Nat /\ s.levels \in Seq(Level)
  BY LevelsAreLevels DEF ServerType
<1>2. 1 \in 1..(Len(s.levels) + 1) /\ i - 1 \in (1 - 1)..Len(s.levels)
  BY <1>1
<1> QED BY <1>1, <1>2, SubSeqProperties

LEMMA DroppedIs ==
  ASSUME NEW s \in ServerType, NEW i \in DOMAIN s.levels, i >= 2
  PROVE  /\ Dropped(s, i) \in ServerType
         /\ Len(Dropped(s, i).levels) = i - 1 /\ Dropped(s, i).failed = FALSE /\ Dropped(s, i).durable = s.durable
         /\ \A j \in 1..(i - 1) : Dropped(s, i).levels[j] = s.levels[j]
<1> DEFINE cut == SubSeq(s.levels, 1, i - 1)
<1>1. cut \in Seq(Level) /\ Len(cut) = i - 1 /\ \A j \in 1..(i - 1) : cut[j] = s.levels[j]
  BY CutIs
<1>2. Dropped(s, i) = [s EXCEPT !.levels = cut, !.failed = FALSE]
  BY DEF Dropped
<1> HIDE DEF cut
<1> QED BY <1>1, <1>2 DEF ServerType

LEMMA ReleasedIs ==
  ASSUME NEW s \in ServerType, NEW i \in DOMAIN s.levels, i >= 2
  PROVE  /\ Released(s, i) \in ServerType
         /\ Len(Released(s, i).levels) = i - 1
         /\ Released(s, i).failed = s.failed /\ Released(s, i).durable = s.durable
         /\ \A j \in 1..(i - 1) :
              /\ Released(s, i).levels[j].xact = s.levels[j].xact
              /\ Released(s, i).levels[j].work =
                   IF j = i - 1 THEN s.levels[j].work \cup WorkFrom(s, i) ELSE s.levels[j].work
<1> DEFINE cut == SubSeq(s.levels, 1, i - 1)
           l == [cut[i - 1] EXCEPT !.work = @ \cup WorkFrom(s, i)]
           ls == [cut EXCEPT ![i - 1] = l]
<1>1. i \in Nat \ {0} /\ i - 1 \in 1..(i - 1) /\ i - 1 \in DOMAIN s.levels /\ i - 1 \in Nat
  BY LevelsAreLevels
<1>2. cut \in Seq(Level) /\ Len(cut) = i - 1 /\ \A j \in 1..(i - 1) : cut[j] = s.levels[j]
  BY CutIs
<1>3. cut[i - 1] \in Level
  BY <1>1, <1>2, LevelsAreLevels
<1>4. l \in Level /\ l.xact = cut[i - 1].xact /\ l.work = cut[i - 1].work \cup WorkFrom(s, i)
  BY <1>1, <1>3, WorkFromIs DEF Level
<1>5. Released(s, i) = [s EXCEPT !.levels = ls]
  BY DEF Released
<1> HIDE DEF cut, l
<1>6. ls \in Seq(Level) /\ Len(ls) = i - 1
  BY <1>1, <1>2, <1>4, ExceptSeq
<1>7. \A j \in 1..(i - 1) : ls[j] = IF j = i - 1 THEN l ELSE cut[j]
  BY <1>1, <1>2, LenProperties
<1> HIDE DEF ls
<1> QED BY <1>1, <1>2, <1>4, <1>5, <1>6, <1>7 DEF ServerType

-----------------------------------------------------------------------------
(* What a query may lead to *)

\* The levels and what is durable stay; the levels go; their work is committed; the connection is lost.
Kept(s, t) == t.levels = s.levels /\ t.durable = s.durable
Gone(s, t) == t.levels = <<>> /\ t.durable = s.durable
Stored(s, t) == t.levels = <<>> /\ t.durable = s.durable \cup WorkFrom(s, 1)
CutOff(s, t) == t.levels = <<>> /\ s.durable \subseteq t.durable

LevelsDiffer(s) == \A i, j \in DOMAIN s.levels : s.levels[i].xact = s.levels[j].xact => i = j

LEMMA ExecuteIs ==
  ASSUME NEW s \in ServerType, NEW p \in PqType, StatusOf(s, p), NEW query, NEW r \in Execute(s, p, query),
         \A a \in Answers(s, query) : a.server \in ServerType /\ (a.server.failed => a.server.levels # <<>>)
  PROVE  /\ r.server \in ServerType /\ r.pq \in PqType /\ StatusOf(r.server, r.pq)
         /\ \/ /\ r.server = s /\ r.error \in {"dead", "other"}
               /\ r.pq.closed = p.closed /\ (p.closed \/ p.ahead = "error")
            \/ /\ ~p.closed /\ p.ahead # "error" /\ ~r.pq.closed /\ r.pq.ahead = None
               /\ \E a \in Answers(s, query) : r.server = a.server /\ r.error = a.error
            \/ /\ ~p.closed /\ p.ahead # "error" /\ r.pq.closed /\ r.error = "dead"
               /\ \E e \in {s} \cup {a.server : a \in Answers(s, query)} : r.server = Aborted(e)
<1>0. \A t : Ready(t) \in {"I", "T", "E"}
  BY DEF Ready
<1>1. CASE p.closed
  <2>1. r = [server |-> s, pq |-> p, error |-> "dead"]
    BY <1>1 DEF Execute
  <2> QED BY <1>1, <2>1
<1>2. CASE ~p.closed /\ p.ahead = "error"
  <2>1. r = [server |-> s, pq |-> [p EXCEPT !.ahead = None, !.state = Ready(s)], error |-> "other"]
    BY <1>2 DEF Execute
  <2>2. r.pq \in PqType /\ r.pq.closed = p.closed /\ r.pq.ahead = None /\ r.pq.state = Ready(s)
    BY <1>0, <2>1 DEF PqType
  <2>3. StatusOf(r.server, r.pq)
    BY <1>2, <2>1, <2>2, BlocksAssumption DEF StatusOf
  <2> QED BY <1>2, <2>1, <2>2, <2>3
<1>3. CASE ~p.closed /\ p.ahead # "error"
  <2>1. CASE \E a \in Answers(s, query) :
               r = [server |-> a.server, pq |-> [p EXCEPT !.ahead = None, !.state = Ready(a.server)], error |-> a.error]
    <3>1. PICK a \in Answers(s, query) :
            r = [server |-> a.server, pq |-> [p EXCEPT !.ahead = None, !.state = Ready(a.server)], error |-> a.error]
      BY <2>1
    <3>2. r.pq \in PqType /\ r.pq.closed = FALSE /\ r.pq.ahead = None /\ r.pq.state = Ready(a.server)
      BY <1>0, <1>3, <3>1 DEF PqType
    <3>3. StatusOf(r.server, r.pq)
      BY <3>1, <3>2, BlocksAssumption DEF StatusOf
    <3> QED BY <1>3, <3>1, <3>2, <3>3
  <2>2. CASE \E e \in {s} \cup {a.server : a \in Answers(s, query)} :
               r = [server |-> Aborted(e), pq |-> [p EXCEPT !.ahead = None, !.closed = TRUE], error |-> "dead"]
    <3>1. PICK e \in {s} \cup {a.server : a \in Answers(s, query)} :
            r = [server |-> Aborted(e), pq |-> [p EXCEPT !.ahead = None, !.closed = TRUE], error |-> "dead"]
      BY <2>2
    <3>2. r.pq \in PqType /\ r.pq.closed = TRUE /\ r.pq.ahead = None
      BY <3>1 DEF PqType
    <3>3. e \in ServerType
      BY <3>1
    <3>4. StatusOf(r.server, r.pq) /\ r.server \in ServerType
      BY <3>1, <3>2, <3>3, AbortedIs, BlocksAssumption DEF StatusOf
    <3> QED BY <1>3, <3>1, <3>2, <3>4
  <2> QED BY <1>3, <2>1, <2>2 DEF Execute
<1> QED BY <1>1, <1>2, <1>3

LEMMA AnsweredCut ==
  ASSUME NEW s \in ServerType, NEW e \in ServerType, Kept(s, e) \/ Gone(s, e) \/ Stored(s, e)
  PROVE  CutOff(s, Aborted(e))
  BY AbortedIs DEF Kept, Gone, Stored, CutOff

\* What may be expected of the answer to a query: an admissible state of the server.
Proper(s) == s \in ServerType /\ (s.failed => s.levels # <<>>)

LEMMA FailingIs ==
  ASSUME NEW s \in ServerType, NEW code
  PROVE  /\ Failing(s, code).error = code /\ Proper(Failing(s, code).server)
         /\ Kept(s, Failing(s, code).server)
<1>1. (s.levels # <<>>) \in BOOLEAN
  OBVIOUS
<1> QED BY <1>1 DEF Failing, Proper, Kept, ServerType

LEMMA AnswersToCommit ==
  ASSUME NEW s, Proper(s), NEW b \in Blocks, NEW a \in Answers(s, Query("COMMIT", b))
  PROVE  /\ Proper(a.server)
         /\ \/ (s.failed \/ s.levels = <<>>) /\ Gone(s, a.server) /\ a.error = None
            \/ ~s.failed /\ s.levels # <<>> /\ Stored(s, a.server) /\ a.error = None
            \/ ~s.failed /\ s.levels # <<>> /\ Gone(s, a.server) /\ a.error = "other"
            \/ ~s.failed /\ s.levels # <<>> /\ Kept(s, a.server) /\ a.error = "ActiveTransactionError"
<1>0. s \in ServerType
  BY DEF Proper
<1> DEFINE stored == [Aborted(s) EXCEPT !.durable = @ \cup WorkFrom(s, 1)]
<1>1. Answers(s, Query("COMMIT", b)) =
        IF s.failed \/ s.levels = <<>> THEN {Done(Aborted(s))}
        ELSE {Done(stored), [server |-> Aborted(s), error |-> "other"], Failing(s, "ActiveTransactionError")}
  BY DEF Answers, Query
<1>2. Proper(Aborted(s)) /\ Gone(s, Aborted(s))
  BY <1>0, AbortedIs DEF Proper, Gone
<1>3. Proper(stored) /\ Stored(s, stored)
  <2>1. WorkFrom(s, 1) \subseteq Nat
    BY <1>0, WorkFromIs
  <2> QED BY <1>0, <2>1, AbortedIs DEF Proper, Stored, ServerType
<1> HIDE DEF stored
<1>4. CASE s.failed \/ s.levels = <<>>
  BY <1>1, <1>2, <1>4 DEF Done
<1>5. CASE ~(s.failed \/ s.levels = <<>>)
  <2>1. CASE a = Done(stored)
    BY <1>3, <1>5, <2>1 DEF Done
  <2>2. CASE a = [server |-> Aborted(s), error |-> "other"]
    BY <1>2, <1>5, <2>2
  <2>3. CASE a = Failing(s, "ActiveTransactionError")
    BY <1>0, <1>5, <2>3, FailingIs
  <2> QED BY <1>1, <1>5, <2>1, <2>2, <2>3
<1> QED BY <1>4, <1>5

LEMMA AnswersToAbort ==
  ASSUME NEW s, Proper(s), NEW b \in Blocks, NEW a \in Answers(s, Query("ABORT", b))
  PROVE  Proper(a.server) /\ Gone(s, a.server) /\ a.error = None
<1>1. a = Done(Aborted(s))
  BY DEF Answers, Query
<1> QED BY <1>1, AbortedIs DEF Proper, Gone, Done

LEMMA LevelOfIs ==
  ASSUME NEW s \in ServerType, NEW b \in Blocks, LevelsDiffer(s), ~(LevelOf(s, b) \subseteq {1}),
         NEW i, i = CHOOSE k \in LevelOf(s, b) : TRUE
  PROVE  i \in DOMAIN s.levels /\ i >= 2 /\ s.levels[i].xact = b
<1>1. PICK k \in LevelOf(s, b) : k # 1
  OBVIOUS
<1>2. i \in LevelOf(s, b)
  BY <1>1
<1>3. i \in DOMAIN s.levels /\ s.levels[i].xact = b /\ k \in DOMAIN s.levels /\ s.levels[k].xact = b
  BY <1>1, <1>2 DEF LevelOf
<1>4. i = k
  BY <1>3 DEF LevelsDiffer
<1>5. i \in 1..Len(s.levels) /\ Len(s.levels) \in Nat
  BY <1>3, LevelsAreLevels
<1>6. i # 1
  BY <1>1, <1>4
<1>7. i >= 2
  BY <1>5, <1>6
<1> QED BY <1>3, <1>7

LEMMA AnswersToRelease ==
  ASSUME NEW s, Proper(s), LevelsDiffer(s), NEW b \in Blocks, NEW a \in Answers(s, Query("RELEASE", b))
  PROVE  /\ Proper(a.server)
         /\ \/ (s.failed \/ LevelOf(s, b) \subseteq {1}) /\ Kept(s, a.server) /\ a.error = "other"
            \/ /\ ~s.failed /\ a.error = None
               /\ \E i \in DOMAIN s.levels : i >= 2 /\ s.levels[i].xact = b /\ a.server = Released(s, i)
<1> DEFINE i == CHOOSE k \in LevelOf(s, b) : TRUE
<1>0. s \in ServerType
  BY DEF Proper
<1>1. a = IF s.failed \/ LevelOf(s, b) \subseteq {1} THEN Failing(s, "other") ELSE Done(Released(s, i))
  BY DEF Answers, Query
<1>2. CASE s.failed \/ LevelOf(s, b) \subseteq {1}
  BY <1>0, <1>1, <1>2, FailingIs
<1>3. CASE ~(s.failed \/ LevelOf(s, b) \subseteq {1})
  <2>1. i \in DOMAIN s.levels /\ i >= 2 /\ s.levels[i].xact = b
    BY <1>0, <1>3, LevelOfIs
  <2> HIDE DEF i
  <2>2. a = Done(Released(s, i)) /\ Proper(Released(s, i))
    BY <1>0, <1>1, <1>3, <2>1, ReleasedIs, LevelsAreLevels DEF Proper
  <2> QED BY <1>3, <2>1, <2>2 DEF Done
<1> QED BY <1>2, <1>3

LEMMA AnswersToRollback ==
  ASSUME NEW s, Proper(s), LevelsDiffer(s), NEW b \in Blocks, NEW a \in Answers(s, Query("ROLLBACK TO", b))
  PROVE  /\ Proper(a.server)
         /\ \/ LevelOf(s, b) \subseteq {1} /\ Kept(s, a.server) /\ a.error = "other"
            \/ /\ a.error = None
               /\ \E i \in DOMAIN s.levels : i >= 2 /\ s.levels[i].xact = b /\ a.server = Dropped(s, i)
<1> DEFINE i == CHOOSE k \in LevelOf(s, b) : TRUE
<1>0. s \in ServerType
  BY DEF Proper
<1>1. a = IF LevelOf(s, b) \subseteq {1} THEN Failing(s, "other") ELSE Done(Dropped(s, i))
  BY DEF Answers, Query
<1>2. CASE LevelOf(s, b) \subseteq {1}
  BY <1>0, <1>1, <1>2, FailingIs
<1>3. CASE ~(LevelOf(s, b) \subseteq {1})
  <2>1. i \in DOMAIN s.levels /\ i >= 2 /\ s.levels[i].xact = b
    BY <1>0, <1>3, LevelOfIs
  <2> HIDE DEF i
  <2>2. a = Done(Dropped(s, i)) /\ Proper(Dropped(s, i))
    BY <1>0, <1>1, <1>3, <2>1, DroppedIs DEF Proper
  <2> QED BY <1>3, <2>1, <2>2 DEF Done
<1> QED BY <1>2, <1>3

-----------------------------------------------------------------------------
(* commit() and rollback() *)

\* Nothing is asked, or what is asked is refused without effect on the levels.
NotEnded(b, s, p, st, r) ==
  /\ Kept(s, r.server) /\ r.state = st /\ (r.pq.closed <=> p.closed)
  /\ \/ st # "open" /\ r.error # "ActiveTransactionError"
     \/ st = "open" /\ r.error \in {"dead", "other"} /\ (p.closed \/ p.ahead = "error")
     \/ st = "open" /\ r.error = "other" /\ xact[b].type # "block" /\ (s.failed \/ LevelOf(s, b) \subseteq {1})
     \/ /\ st = "open" /\ r.error = "ActiveTransactionError" /\ xact[b].type = "block"
        /\ ~p.closed /\ r.pq.ahead # "error"
WasCut(s, p, st, r) ==
  CutOff(s, r.server) /\ r.state = st /\ r.pq.closed /\ r.error # None /\ r.error # "ActiveTransactionError"
Asked(p, st, r) == st = "open" /\ ~p.closed /\ p.ahead # "error" /\ ~r.pq.closed /\ r.error # "ActiveTransactionError"

LEMMA CommitIs ==
  ASSUME NEW b \in Blocks, NEW s \in ServerType, NEW p \in PqType, StatusOf(s, p), LevelsDiffer(s),
         NEW st, NEW r \in Commit(b, s, p, st)
  PROVE  /\ r.server \in ServerType /\ r.pq \in PqType /\ StatusOf(r.server, r.pq)
         /\ \/ NotEnded(b, s, p, st, r)
            \/ WasCut(s, p, st, r)
            \/ /\ Asked(p, st, r)
               /\ \/ /\ xact[b].type = "block" /\ (s.failed \/ s.levels = <<>>)
                     /\ Gone(s, r.server) /\ r.state = "committed" /\ r.error = None
                  \/ /\ xact[b].type = "block" /\ ~s.failed /\ s.levels # <<>>
                     /\ Gone(s, r.server) /\ r.state = "open" /\ r.error # None
                  \/ xact[b].type = "block" /\ Stored(s, r.server) /\ r.state = "committed" /\ r.error = None
                  \/ /\ xact[b].type # "block" /\ r.state = "committed" /\ r.error = None
                     /\ \E i \in DOMAIN s.levels : i >= 2 /\ s.levels[i].xact = b /\ r.server = Released(s, i)
<1> USE DEF Proper
<1>0. Proper(s)
  BY DEF StatusOf
<1>1. CASE st # "open"
  <2>1. r.server = s /\ r.pq = p /\ r.state = st /\ r.error \in {None, "other"}
    BY <1>1 DEF Commit, Ending, Stays
  <2> QED BY <1>1, <2>1, BlocksAssumption DEF NotEnded, Kept
<1>2. CASE st = "open"
  <2> DEFINE query == CommitQuery(b)
  <2>1. PICK x \in Execute(s, p, query) :
          r = Stays(x.server, x.pq, IF x.error = None THEN "committed" ELSE st, x.error)
    BY <1>2 DEF Commit, Ending
  <2>2. /\ r.server = x.server /\ r.pq = x.pq /\ r.error = x.error
        /\ r.state = IF x.error = None THEN "committed" ELSE "open"
    BY <1>2, <2>1 DEF Stays
  <2>3. CASE xact[b].type = "block"
    <3>1. query = Query("COMMIT", b)
      BY <2>3 DEF CommitQuery
    <3> HIDE DEF query
    <3>2. \A a \in Answers(s, query) : Proper(a.server)
      BY <1>0, <3>1, AnswersToCommit
    <3>3. \A e \in {s} \cup {a.server : a \in Answers(s, query)} : e \in ServerType /\ CutOff(s, Aborted(e))
      <4>1. Kept(s, s)
        BY DEF Kept
      <4> QED BY <1>0, <3>1, <4>1, AnswersToCommit, AnsweredCut
    <3>4. x.server \in ServerType /\ x.pq \in PqType /\ StatusOf(x.server, x.pq)
      BY <3>2, ExecuteIs
    <3>5. CASE x.server = s /\ x.error \in {"dead", "other"} /\ x.pq.closed = p.closed /\ (p.closed \/ p.ahead = "error")
      BY <1>2, <2>2, <3>4, <3>5, BlocksAssumption DEF NotEnded, Kept
    <3>6. CASE /\ ~p.closed /\ p.ahead # "error" /\ ~x.pq.closed /\ x.pq.ahead = None
               /\ \E a \in Answers(s, query) : x.server = a.server /\ x.error = a.error
      <4>1. PICK a \in Answers(s, query) : x.server = a.server /\ x.error = a.error
        BY <3>6
      <4>2. CASE (s.failed \/ s.levels = <<>>) /\ Gone(s, a.server) /\ a.error = None
        BY <1>2, <2>2, <2>3, <3>4, <3>6, <4>1, <4>2, BlocksAssumption DEF Asked
      <4>3. CASE ~s.failed /\ s.levels # <<>> /\ Stored(s, a.server) /\ a.error = None
        BY <1>2, <2>2, <2>3, <3>4, <3>6, <4>1, <4>3, BlocksAssumption DEF Asked
      <4>4. CASE ~s.failed /\ s.levels # <<>> /\ Gone(s, a.server) /\ a.error = "other"
        BY <1>2, <2>2, <2>3, <3>4, <3>6, <4>1, <4>4, BlocksAssumption DEF Asked
      <4>5. CASE ~s.failed /\ s.levels # <<>> /\ Kept(s, a.server) /\ a.error = "ActiveTransactionError"
        BY <1>2, <2>2, <2>3, <3>4, <3>6, <4>1, <4>5, BlocksAssumption DEF NotEnded
      <4> QED BY <1>0, <3>1, <4>2, <4>3, <4>4, <4>5, AnswersToCommit
    <3>7. CASE /\ ~p.closed /\ p.ahead # "error" /\ x.pq.closed /\ x.error = "dead"
               /\ \E e \in {s} \cup {a.server : a \in Answers(s, query)} : x.server = Aborted(e)
      BY <1>2, <2>2, <3>3, <3>4, <3>7, BlocksAssumption DEF WasCut
    <3> QED BY <3>2, <3>5, <3>6, <3>7, ExecuteIs
  <2>4. CASE xact[b].type # "block"
    <3>1. query = Query("RELEASE", b)
      BY <2>4 DEF CommitQuery
    <3> HIDE DEF query
    <3>2. \A a \in Answers(s, query) : Proper(a.server)
      BY <1>0, <3>1, AnswersToRelease
    <3>3. \A e \in {s} \cup {a.server : a \in Answers(s, query)} : e \in ServerType /\ CutOff(s, Aborted(e))
      <4>1. ASSUME NEW i \in DOMAIN s.levels, i >= 2
            PROVE  CutOff(s, Aborted(Released(s, i)))
        BY <4>1, ReleasedIs, AbortedIs, ZenonT(40) DEF CutOff
      <4>2. CutOff(s, Aborted(s))
        BY AbortedIs DEF CutOff
      <4>3. \A a \in Answers(s, query) : CutOff(s, Aborted(a.server))
        BY <1>0, <3>1, <3>2, <4>1, AnswersToRelease, AnsweredCut
      <4> QED BY <3>2, <4>2, <4>3
    <3>4. x.server \in ServerType /\ x.pq \in PqType /\ StatusOf(x.server, x.pq)
      BY <3>2, ExecuteIs
    <3>5. CASE x.server = s /\ x.error \in {"dead", "other"} /\ x.pq.closed = p.closed /\ (p.closed \/ p.ahead = "error")
      BY <1>2, <2>2, <3>4, <3>5, BlocksAssumption DEF NotEnded, Kept
    <3>6. CASE /\ ~p.closed /\ p.ahead # "error" /\ ~x.pq.closed /\ x.pq.ahead = None
               /\ \E a \in Answers(s, query) : x.server = a.server /\ x.error = a.error
      <4>1. PICK a \in Answers(s, query) : x.server = a.server /\ x.error = a.error
        BY <3>6
      <4>2. CASE (s.failed \/ LevelOf(s, b) \subseteq {1}) /\ Kept(s, a.server) /\ a.error = "other"
        BY <1>2, <2>2, <2>4, <3>4, <3>6, <4>1, <4>2, BlocksAssumption DEF NotEnded
      <4>3. CASE /\ ~s.failed /\ a.error = None
                 /\ \E i \in DOMAIN s.levels : i >= 2 /\ s.levels[i].xact = b /\ a.server = Released(s, i)
        BY <1>2, <2>2, <2>4, <3>4, <3>6, <4>1, <4>3, BlocksAssumption DEF Asked
      <4> QED BY <1>0, <3>1, <4>2, <4>3, AnswersToRelease
    <3>7. CASE /\ ~p.closed /\ p.ahead # "error" /\ x.pq.closed /\ x.error = "dead"
               /\ \E e \in {s} \cup {a.server : a \in Answers(s, query)} : x.server = Aborted(e)
      BY <1>2, <2>2, <3>3, <3>4, <3>7, BlocksAssumption DEF WasCut
    <3> QED BY <3>2, <3>5, <3>6, <3>7, ExecuteIs
  <2> QED BY <2>3, <2>4
<1> QED BY <1>1, <1>2

LEMMA RollbackIs ==
  ASSUME NEW b \in Blocks, NEW s \in ServerType, NEW p \in PqType, StatusOf(s, p), LevelsDiffer(s),
         NEW st, NEW r \in Rollback(b, s, p, st)
  PROVE  /\ r.server \in ServerType /\ r.pq \in PqType /\ StatusOf(r.server, r.pq)
         /\ \/ /\ NotEnded(b, s, p, st, r)
               /\ \/ st # "open" \/ p.closed \/ p.ahead = "error"
                  \/ xact[b].type # "block" /\ LevelOf(s, b) \subseteq {1}
            \/ WasCut(s, p, st, r)
            \/ /\ Asked(p, st, r)
               /\ \/ xact[b].type = "block" /\ Gone(s, r.server) /\ r.state = "aborted"
                  \/ /\ xact[b].type # "block" /\ r.state = "aborted"
                     /\ \E i \in DOMAIN s.levels : i >= 2 /\ s.levels[i].xact = b /\ r.server = Dropped(s, i)
<1> USE DEF Proper
<1>0. Proper(s)
  BY DEF StatusOf
<1>1. CASE st # "open"
  <2>1. r.server = s /\ r.pq = p /\ r.state = st /\ r.error \in {None, "other"}
    BY <1>1 DEF Rollback, Ending, Stays
  <2> QED BY <1>1, <2>1, BlocksAssumption DEF NotEnded, Kept
<1>2. CASE st = "open"
  <2> DEFINE query == RollbackQuery(b)
  <2>1. PICK x \in Execute(s, p, query) :
          r = Stays(x.server, x.pq, IF x.error = None THEN "aborted" ELSE st, x.error)
    BY <1>2 DEF Rollback, Ending
  <2>2. /\ r.server = x.server /\ r.pq = x.pq /\ r.error = x.error
        /\ r.state = IF x.error = None THEN "aborted" ELSE "open"
    BY <1>2, <2>1 DEF Stays
  <2>3. CASE xact[b].type = "block"
    <3>1. query = Query("ABORT", b)
      BY <2>3 DEF RollbackQuery
    <3> HIDE DEF query
    <3>2. \A a \in Answers(s, query) : Proper(a.server) /\ Gone(s, a.server) /\ a.error = None
      BY <1>0, <3>1, AnswersToAbort
    <3>3. \A e \in {s} \cup {a.server : a \in Answers(s, query)} : e \in ServerType /\ CutOff(s, Aborted(e))
      <4>1. Kept(s, s)
        BY DEF Kept
      <4> QED BY <3>2, <4>1, AnsweredCut
    <3>4. x.server \in ServerType /\ x.pq \in PqType /\ StatusOf(x.server, x.pq)
      BY <3>2, ExecuteIs
    <3>5. CASE x.server = s /\ x.error \in {"dead", "other"} /\ x.pq.closed = p.closed /\ (p.closed \/ p.ahead = "error")
      BY <1>2, <2>2, <3>4, <3>5, BlocksAssumption DEF NotEnded, Kept
    <3>6. CASE /\ ~p.closed /\ p.ahead # "error" /\ ~x.pq.closed /\ x.pq.ahead = None
               /\ \E a \in Answers(s, query) : x.server = a.server /\ x.error = a.error
      BY <1>2, <2>2, <2>3, <3>2, <3>4, <3>6, BlocksAssumption DEF Asked
    <3>7. CASE /\ ~p.closed /\ p.ahead # "error" /\ x.pq.closed /\ x.error = "dead"
               /\ \E e \in {s} \cup {a.server : a \in Answers(s, query)} : x.server = Aborted(e)
      BY <1>2, <2>2, <3>3, <3>4, <3>7, BlocksAssumption DEF WasCut
    <3> QED BY <3>2, <3>5, <3>6, <3>7, ExecuteIs
  <2>4. CASE xact[b].type # "block"
    <3>1. query = Query("ROLLBACK TO", b)
      BY <2>4 DEF RollbackQuery
    <3> HIDE DEF query
    <3>2. \A a \in Answers(s, query) :
            /\ Proper(a.server)
            /\ \/ LevelOf(s, b) \subseteq {1} /\ Kept(s, a.server) /\ a.error = "other"
               \/ /\ a.error = None
                  /\ \E i \in DOMAIN s.levels : i >= 2 /\ s.levels[i].xact = b /\ a.server = Dropped(s, i)
      BY <1>0, <3>1, AnswersToRollback
    <3>3. \A e \in {s} \cup {a.server : a \in Answers(s, query)} : e \in ServerType /\ CutOff(s, Aborted(e))
      <4>1. ASSUME NEW i \in DOMAIN s.levels, i >= 2
            PROVE  CutOff(s, Aborted(Dropped(s, i)))
        BY <4>1, DroppedIs, AbortedIs DEF CutOff
      <4>2. CutOff(s, Aborted(s))
        BY AbortedIs DEF CutOff
      <4>3. \A a \in Answers(s, query) : CutOff(s, Aborted(a.server))
        BY <3>2, <4>1, AnsweredCut
      <4> QED BY <3>2, <4>2, <4>3
    <3>4. x.server \in ServerType /\ x.pq \in PqType /\ StatusOf(x.server, x.pq)
      BY <3>2, ExecuteIs
    <3>5. CASE x.server = s /\ x.error \in {"dead", "other"} /\ x.pq.closed = p.closed /\ (p.closed \/ p.ahead = "error")
      BY <1>2, <2>2, <2>4, <3>4, <3>5, BlocksAssumption DEF NotEnded, Kept
    <3>6. CASE /\ ~p.closed /\ p.ahead # "error" /\ ~x.pq.closed /\ x.pq.ahead = None
               /\ \E a \in Answers(s, query) : x.server = a.server /\ x.error = a.error
      <4>1. PICK a \in Answers(s, query) : x.server = a.server /\ x.error = a.error
        BY <3>6
      <4>2. CASE LevelOf(s, b) \subseteq {1} /\ Kept(s, a.server) /\ a.error = "other"
        BY <1>2, <2>2, <2>4, <3>4, <3>6, <4>1, <4>2, BlocksAssumption DEF NotEnded
      <4>3. CASE /\ a.error = None
                 /\ \E i \in DOMAIN s.levels : i >= 2 /\ s.levels[i].xact = b /\ a.server = Dropped(s, i)
        <5>1. Asked(p, st, r) /\ r.state = "aborted"
          BY <1>2, <2>2, <3>6, <4>1, <4>3, BlocksAssumption DEF Asked
        <5>2. \E i \in DOMAIN s.levels : i >= 2 /\ s.levels[i].xact = b /\ r.server = Dropped(s, i)
          BY <2>2, <4>1, <4>3
        <5>3. r.server \in ServerType /\ r.pq \in PqType /\ StatusOf(r.server, r.pq)
          BY <2>2, <3>4
        <5> QED BY <2>4, <5>1, <5>2, <5>3
      <4> QED BY <3>2, <4>2, <4>3
    <3>7. CASE /\ ~p.closed /\ p.ahead # "error" /\ x.pq.closed /\ x.error = "dead"
               /\ \E e \in {s} \cup {a.server : a \in Answers(s, query)} : x.server = Aborted(e)
      BY <1>2, <2>2, <3>3, <3>4, <3>7, BlocksAssumption DEF WasCut
    <3> QED BY <3>2, <3>5, <3>6, <3>7, ExecuteIs
  <2> QED BY <2>3, <2>4
<1> QED BY <1>1, <1>2

-----------------------------------------------------------------------------
(* The inductive invariant *)

Lev(i) == server.levels[i]
Entered == {withs[i] : i \in DOMAIN withs}
WorkOf == {d.work : d \in did}
Trusted == {d \in did : d.within \cap excused = {}}

\* A block that will not say "committed" any more.
Lost(b) == xact[b].state = "aborted" \/ (xact[b].state = "open" /\ (Closed \/ b \notin Entered))

LevelsOrdered == \A i, j \in DOMAIN server.levels : i < j => Lev(i).xact < Lev(j).xact
WithsOrdered == \A i, j \in DOMAIN withs : i < j => withs[i] < withs[j]
BlocksInOrder ==
  /\ \A b, c \in Blocks : b < c /\ xact[c].state # "initialized" => xact[b].state # "initialized"
  /\ \A b \in Entered : xact[b].state # "initialized"
  /\ \A d \in did : \A b \in d.within : xact[b].state # "initialized"

\* A level is an open block's, the first one a transaction's, and in a with statement or excused.
LevelsOpen ==
  \A i \in DOMAIN server.levels :
    /\ xact[Lev(i).xact].state = "open" /\ (xact[Lev(i).xact].type = "block" <=> i = 1)
    /\ Lev(i).xact \in Entered \cup excused

\* No open transaction is inside the one of the server.
NoneAbove ==
  \A b \in Blocks :
    xact[b].state = "open" /\ xact[b].type = "block" /\ server.levels # <<>> => Lev(1).xact >= b

WorkDone ==
  ~Closed => server.durable \subseteq WorkOf /\ \A i \in DOMAIN server.levels : Lev(i).work \subseteq WorkOf

\* Work at a level: the levels below surround it, and the other blocks around it said "committed".
Pending ==
  \A d \in Trusted : \A i \in DOMAIN server.levels : d.work \in Lev(i).work =>
    /\ d.work \notin server.durable
    /\ \A j \in 1..i : Lev(j).xact \in d.within
    /\ \A b \in d.within : xact[b].state = "committed" \/ \E j \in 1..i : Lev(j).xact = b

DurableTold ==
  \A d \in Trusted : d.work \in server.durable => Closed \/ \A b \in d.within : xact[b].state = "committed"
LostTold ==
  \A d \in Trusted :
    d.work \notin server.durable /\ (\A i \in DOMAIN server.levels : d.work \notin Lev(i).work) =>
      \E b \in d.within : Lost(b)

BInv ==
  /\ TypesInv /\ StatusOf(server, pq)
  /\ LevelsOrdered /\ WithsOrdered /\ BlocksInOrder /\ LevelsOpen /\ NoneAbove
  /\ WorkDone /\ Pending /\ DurableTold /\ LostTold

LEMMA BInvInit == BlocksInit => BInv
<1> SUFFICES ASSUME BlocksInit PROVE BInv
  OBVIOUS
<1> DEFINE empty == <<>>
<1>1. empty \in Seq(Level) /\ withs \in Seq(Blocks) /\ DOMAIN empty = {} /\ Entered = {}
  BY EmptySeq DEF BlocksInit, Entered
<1>2. server = [levels |-> empty, failed |-> FALSE, durable |-> {}]
  BY DEF BlocksInit
<1>3. empty = <<>>
  OBVIOUS
<1> HIDE DEF empty
<1>4. TypesInv
  BY <1>1, <1>2 DEF BlocksInit, TypesInv, ServerType, PqType, XactType
<1>5. StatusOf(server, pq)
  BY <1>2, <1>3, BlocksAssumption DEF BlocksInit, StatusOf, Ready
<1>6. LevelsOrdered /\ LevelsOpen /\ NoneAbove /\ WorkDone
  BY <1>1, <1>2, <1>3 DEF BlocksInit, LevelsOrdered, LevelsOpen, NoneAbove, WorkDone
<1>7. WithsOrdered /\ BlocksInOrder
  BY <1>1 DEF BlocksInit, WithsOrdered, BlocksInOrder
<1>8. Pending /\ DurableTold /\ LostTold
  BY DEF BlocksInit, Pending, DurableTold, LostTold, Trusted
<1> QED BY <1>4, <1>5, <1>6, <1>7, <1>8 DEF BInv

LEMMA LevelsAreDifferent == BInv => LevelsDiffer(server)
<1> SUFFICES ASSUME BInv, NEW i \in DOMAIN server.levels, NEW j \in DOMAIN server.levels,
                    Lev(i).xact = Lev(j).xact, i # j
             PROVE  FALSE
  BY DEF LevelsDiffer, Lev
<1>1. server \in ServerType /\ i \in Nat /\ j \in Nat /\ Lev(i).xact \in Nat
  BY LevelsAreLevels, BlocksAssumption DEF BInv, TypesInv, Lev
<1> QED BY <1>1 DEF BInv, LevelsOrdered

-----------------------------------------------------------------------------
(* The end of a block: what changes, and that the invariant stays *)

\* commit() or rollback() in the innermost block, or its end.
EndStep(b) ==
  /\ withs # <<>> /\ b = Last(withs) /\ (withs' = withs \/ withs' = Front(withs))
  /\ did' = did /\ excused \subseteq excused' /\ excused' \subseteq Blocks
  /\ server' \in ServerType /\ pq' \in PqType /\ StatusOf(server, pq)'

LEMMA Innermost ==
  ASSUME BInv, NEW b, EndStep(b)
  PROVE  /\ b \in Blocks /\ b \in Entered /\ xact[b].state # "initialized"
         /\ \A c \in Entered : c \in Blocks /\ c <= b
         /\ withs' \in Seq(Blocks) /\ WithsOrdered'
         /\ Entered' \subseteq Entered /\ Entered \subseteq Entered' \cup {b}
         /\ withs' = Front(withs) => b \notin Entered'
<1> DEFINE n == Len(withs)
<1>1. withs \in Seq(Blocks) /\ n \in Nat /\ n # 0 /\ DOMAIN withs = 1..n /\ \A i \in 1..n : withs[i] \in Blocks /\ withs[i] \in Nat
  BY LenProperties, ElementOfSeq, EmptySeq, BlocksAssumption DEF BInv, TypesInv, EndStep
<1>2. b = withs[n] /\ n \in 1..n
  BY <1>1 DEF EndStep, Last
<1>a. Front(withs) = SubSeq(withs, 1, n - 1) /\ n = Len(withs)
  BY DEF Front
<1> HIDE DEF n
<1>b. \A i, j \in 1..n : i < j => withs[i] < withs[j]
  BY <1>1 DEF BInv, WithsOrdered
<1>3. ASSUME NEW i \in 1..n
      PROVE  withs[i] <= b /\ (i # n => withs[i] < b)
  <2>1. i \in Nat /\ withs[i] \in Nat /\ withs[n] \in Nat
    BY <1>1, <1>2
  <2>2. CASE i = n
    BY <1>2, <2>1, <2>2
  <2>3. CASE i # n
    <3>1. i < n
      BY <1>1, <2>3
    <3>2. withs[i] < withs[n]
      BY <1>b, <1>2, <3>1
    <3> QED BY <1>2, <2>1, <3>2
  <2> QED BY <2>2, <2>3
<1>4. b \in Blocks /\ b \in Entered /\ xact[b].state # "initialized" /\ \A c \in Entered : c \in Blocks /\ c <= b
  BY <1>1, <1>2, <1>3 DEF BInv, BlocksInOrder, Entered
<1>5. CASE withs' = withs /\ withs' # Front(withs)
  <2>1. Entered' = Entered
    BY <1>5 DEF Entered
  <2>2. WithsOrdered'
    BY <1>5 DEF BInv, WithsOrdered
  <2> QED BY <1>1, <1>4, <1>5, <2>1, <2>2
<1>6. CASE withs' = Front(withs)
  <2>1. /\ withs' \in Seq(Blocks) /\ Len(withs') = n - 1
        /\ \A i \in 1..(n - 1) : withs'[i] = withs[i]
    <3>1. n - 1 \in Nat /\ \A i \in 1..(n - 1) : withs[i] \in Blocks
      BY <1>1
    <3>2. /\ SubSeq(withs, 1, n - 1) \in Seq(Blocks) /\ Len(SubSeq(withs, 1, n - 1)) = n - 1
          /\ \A i \in 1..(n - 1) : SubSeq(withs, 1, n - 1)[i] = withs[i]
      <4> DEFINE front == SubSeq(withs, 1, n - 1)
      <4>1. /\ front \in Seq(Blocks) /\ Len(front) = IF 1 <= n - 1 THEN (n - 1) - 1 + 1 ELSE 0
            /\ \A i \in 1..((n - 1) - 1 + 1) : front[i] = withs[1 + i - 1]
        BY <3>1, SubSeqProperties
      <4> HIDE DEF front
      <4>2. (n - 1) - 1 + 1 = n - 1 /\ (~(1 <= n - 1) => n - 1 = 0) /\ \A i \in 1..(n - 1) : 1 + i - 1 = i
        BY <1>1
      <4>3. front \in Seq(Blocks) /\ Len(front) = n - 1 /\ \A i \in 1..(n - 1) : front[i] = withs[i]
        BY <4>1, <4>2
      <4> QED BY <4>3 DEF front
    <3> QED BY <1>1, <1>a, <1>6, <3>2
  <2>2. DOMAIN withs' = 1..(n - 1)
    BY <1>1, <2>1, LenProperties
  <2>3. WithsOrdered'
    BY <1>1, <2>1, <2>2, SMTT(30) DEF BInv, WithsOrdered
  <2>4. Entered' \subseteq Entered /\ Entered \subseteq Entered' \cup {b}
    <3>1. \A c \in Entered : \E i \in 1..n : c = withs[i]
      BY <1>1 DEF Entered
    <3>2. Entered' = {withs'[i] : i \in 1..(n - 1)}
      BY <2>2 DEF Entered
    <3>3. \A i \in 1..(n - 1) : i \in DOMAIN withs /\ withs'[i] = withs[i]
      BY <1>1, <2>1
    <3>4. \A i \in 1..n : i = n \/ i \in 1..(n - 1)
      BY <1>1
    <3>5. Entered' \subseteq Entered
      BY <3>2, <3>3 DEF Entered
    <3>6. Entered \subseteq Entered' \cup {b}
      BY <1>2, <3>1, <3>2, <3>3, <3>4
    <3> QED BY <3>5, <3>6
  <2>5. b \notin Entered'
    <3>1. ASSUME NEW i \in 1..(n - 1) PROVE withs'[i] # b
      <4>1. i \in 1..n /\ i # n /\ withs[i] \in Nat /\ b \in Nat
        BY <1>1, <1>2
      <4>2. withs[i] < b
        BY <1>3, <4>1
      <4> QED BY <2>1, <4>1, <4>2
    <3> QED BY <2>2, <3>1 DEF Entered
  <2> QED BY <1>4, <2>1, <2>3, <2>4, <2>5
<1> QED BY <1>5, <1>6 DEF EndStep

LEMMA KeptStep ==
  ASSUME BInv, NEW b, EndStep(b), xact' = xact, Kept(server, server'), pq'.closed <=> Closed,
         withs' = withs \/ b \in excused' \/ \A i \in DOMAIN server.levels : Lev(i).xact # b
  PROVE  BInv'
<1>1. server'.levels = server.levels /\ server'.durable = server.durable /\ (Closed' <=> Closed)
  BY DEF Kept, Closed
<1>2. \A i : Lev(i)' = Lev(i)
  BY <1>1 DEF Lev
<1>3. /\ Entered' \subseteq Entered /\ Entered \subseteq Entered' \cup {b}
      /\ withs' \in Seq(Blocks) /\ WithsOrdered' /\ (withs' = withs => Entered' = Entered)
  <2>1. withs' \in Seq(Blocks) /\ WithsOrdered' /\ Entered' \subseteq Entered /\ Entered \subseteq Entered' \cup {b}
    BY Innermost
  <2>2. withs' = withs => Entered' = Entered
    BY ONLY DEF Entered
  <2> QED BY ONLY <2>1, <2>2
<1>4. Trusted' \subseteq Trusted /\ WorkOf' = WorkOf
  BY DEF EndStep, Trusted, WorkOf
<1>5. \A c : Lost(c) => Lost(c)'
  BY <1>1, <1>3 DEF Lost
<1>6. TypesInv' /\ StatusOf(server, pq)'
  BY <1>3 DEF BInv, TypesInv, EndStep
<1>7. LevelsOrdered' /\ NoneAbove' /\ WorkDone'
  BY <1>1, <1>2, <1>4 DEF BInv, LevelsOrdered, NoneAbove, WorkDone
<1>8. BlocksInOrder'
  BY <1>3 DEF BInv, BlocksInOrder, EndStep
<1>9. LevelsOpen'
  <2>1. \A i \in DOMAIN server.levels : Lev(i).xact \in Entered' \cup excused'
    BY <1>3 DEF BInv, LevelsOpen, EndStep
  <2> QED BY <1>1, <1>2, <2>1 DEF BInv, LevelsOpen
<1>10. Pending' /\ DurableTold' /\ LostTold'
  BY <1>1, <1>2, <1>4, <1>5 DEF BInv, Pending, DurableTold, LostTold
<1> QED BY <1>3, <1>6, <1>7, <1>8, <1>9, <1>10 DEF BInv

\* When no level is left, nothing is pending, and the order of the levels is no question.
LEMMA NoLevels ==
  ASSUME server'.levels = <<>>
  PROVE  LevelsOrdered' /\ LevelsOpen' /\ NoneAbove' /\ Pending' /\ DOMAIN server'.levels = {}
<1>1. DOMAIN server'.levels = {}
  BY EmptySeq
<1> QED BY <1>1 DEF LevelsOrdered, LevelsOpen, NoneAbove, Pending

LEMMA CutStep ==
  ASSUME BInv, NEW b, EndStep(b), xact' = xact, CutOff(server, server'), pq'.closed
  PROVE  BInv'
<1>1. Closed' /\ server'.levels = <<>> /\ server.durable \subseteq server'.durable
  BY DEF Closed, CutOff
<1>2. /\ Entered' \subseteq Entered /\ withs' \in Seq(Blocks) /\ WithsOrdered'
  BY Innermost
<1>3. Trusted' \subseteq Trusted
  BY DEF EndStep, Trusted
<1>4. TypesInv' /\ StatusOf(server, pq)'
  BY <1>2 DEF BInv, TypesInv, EndStep
<1>5. BlocksInOrder'
  BY <1>2 DEF BInv, BlocksInOrder, EndStep
<1>6. WorkDone' /\ DurableTold'
  BY <1>1 DEF WorkDone, DurableTold
<1>7. LostTold'
  <2>1. SUFFICES ASSUME NEW d \in Trusted', d.work \notin server'.durable
                 PROVE  \E c \in d.within : Lost(c)'
    BY DEF LostTold
  <2>2. d \in Trusted /\ d.work \notin server.durable
    BY <1>1, <1>3, <2>1
  <2>3. CASE \E i \in DOMAIN server.levels : d.work \in Lev(i).work
    <3>1. PICK i \in DOMAIN server.levels : d.work \in Lev(i).work
      BY <2>3
    <3>2. i \in Nat \ {0} /\ i \in 1..i
      BY LevelsAreLevels DEF BInv, TypesInv
    <3>3. PICK c \in d.within : xact[c].state = "open"
      BY <2>2, <3>1, <3>2 DEF BInv, Pending, LevelsOpen
    <3>4. Lost(c)'
      BY <1>1, <3>3 DEF Lost
    <3> QED BY <3>3, <3>4
  <2>4. CASE \A i \in DOMAIN server.levels : d.work \notin Lev(i).work
    <3>1. PICK c \in d.within : Lost(c)
      BY <2>2, <2>4 DEF BInv, LostTold
    <3>2. Lost(c)'
      BY <1>1, <1>2, <3>1 DEF Lost
    <3> QED BY <3>2
  <2> QED BY <2>3, <2>4
<1> QED BY <1>1, <1>2, <1>4, <1>5, <1>6, <1>7, NoLevels DEF BInv

\* The innermost block is the transaction itself: work that is pending is pending for it alone.
LEMMA PendingInTransaction ==
  ASSUME BInv, NEW b, EndStep(b), xact[b].state = "open", xact[b].type = "block",
         NEW d \in Trusted, NEW i \in DOMAIN server.levels, d.work \in Lev(i).work
  PROVE  /\ d.work \notin server.durable /\ b \in d.within
         /\ \A c \in d.within : c = b \/ xact[c].state = "committed"
<1>1. b \in Blocks /\ b \in Nat /\ \A c \in Entered : c <= b
  BY Innermost, BlocksAssumption
<1>2. /\ i \in Nat \ {0} /\ 1 \in DOMAIN server.levels /\ 1 \in 1..i /\ server.levels # <<>>
      /\ \A j \in 1..i : j \in DOMAIN server.levels /\ Lev(j).xact \in Nat /\ j \in Nat
  <2> DEFINE n == Len(server.levels)
  <2>1. /\ n \in Nat /\ DOMAIN server.levels = 1..n /\ (server.levels = <<>> <=> n = 0)
        /\ \A j \in 1..n : Lev(j).xact \in Blocks
    BY LevelsAreLevels DEF BInv, TypesInv, Lev
  <2> HIDE DEF n
  <2>2. i \in Nat \ {0} /\ 1 \in 1..n /\ 1 \in 1..i /\ n # 0 /\ \A j \in 1..i : j \in 1..n /\ j \in Nat
    BY <2>1
  <2> QED BY <2>1, <2>2, BlocksAssumption
<1>3. /\ d.work \notin server.durable /\ \A j \in 1..i : Lev(j).xact \in d.within
      /\ \A c \in d.within : xact[c].state = "committed" \/ \E j \in 1..i : Lev(j).xact = c
  BY DEF BInv, Pending
<1>4. \A j \in 1..i : Lev(j).xact \in Entered
  BY <1>2, <1>3 DEF BInv, LevelsOpen, Trusted
<1>5. Lev(1).xact >= b
  <2>1. server.levels # <<>> => Lev(1).xact >= b
    BY <1>1 DEF BInv, NoneAbove
  <2> QED BY <1>2, <2>1
<1>6. \A j \in 1..i : Lev(j).xact <= b
  BY <1>1, <1>4
<1>7. ASSUME NEW j \in 1..i
      PROVE  Lev(1).xact <= Lev(j).xact
  <2>1. j = 1 \/ 1 < j
    BY <1>2
  <2>2. 1 < j => Lev(1).xact < Lev(j).xact
    BY <1>2 DEF BInv, LevelsOrdered
  <2>3. 1 \in 1..i /\ Lev(1).xact \in Nat /\ Lev(j).xact \in Nat
    BY <1>2
  <2> QED BY <2>1, <2>2, <2>3
<1>8. \A j \in 1..i : Lev(j).xact = b
  BY <1>1, <1>2, <1>5, <1>6, <1>7
<1> QED BY <1>2, <1>3, <1>8

\* The block's state is set; the connection is alive before and after.
StateSet(b, st) ==
  /\ EndStep(b) /\ xact[b].state = "open" /\ st \in {"open", "committed", "aborted"}
  /\ xact' = [xact EXCEPT ![b].state = st] /\ ~Closed /\ ~pq'.closed

LEMMA StateStep ==
  ASSUME BInv, NEW b, NEW st, StateSet(b, st)
  PROVE  /\ TypesInv' /\ StatusOf(server, pq)' /\ WithsOrdered' /\ BlocksInOrder'
         /\ xact'[b].state = st /\ xact'[b].type = xact[b].type
         /\ \A c \in Blocks : c # b => xact'[c] = xact[c]
         /\ \A c \in Blocks : Lost(c) => Lost(c)'
         /\ \A c \in Blocks : xact[c].state = "committed" => xact'[c].state = "committed"
         /\ Trusted' \subseteq Trusted /\ WorkOf' = WorkOf /\ ~Closed'
         /\ \A d \in Trusted : d.within \subseteq Blocks
<1>1. /\ b \in Blocks /\ b \in Entered /\ xact \in [Blocks -> XactType] /\ EndStep(b)
      /\ Entered' \subseteq Entered /\ withs' \in Seq(Blocks) /\ WithsOrdered'
  BY Innermost DEF StateSet, BInv, TypesInv
<1>2. xact[b] \in XactType /\ [xact[b] EXCEPT !.state = st] \in XactType
  BY <1>1 DEF StateSet, XactType
<1>3. /\ xact' \in [Blocks -> XactType]
      /\ xact'[b].state = st /\ xact'[b].type = xact[b].type
      /\ \A c \in Blocks : c # b => xact'[c] = xact[c]
  BY <1>1, <1>2 DEF StateSet, XactType
<1>4. Trusted' \subseteq Trusted /\ WorkOf' = WorkOf /\ ~Closed'
  BY <1>1 DEF StateSet, EndStep, Trusted, WorkOf, Closed
<1>5. TypesInv' /\ StatusOf(server, pq)'
  BY <1>1, <1>3 DEF EndStep, BInv, TypesInv
<1>6. \A c \in Blocks : xact'[c].state # "initialized" <=> xact[c].state # "initialized"
  BY <1>3 DEF StateSet
<1>7. \A d \in did : d.within \subseteq Blocks
  BY DEF BInv, TypesInv, DidType
<1>8. Entered \subseteq Blocks
  BY <1>1, Innermost
<1>9. BlocksInOrder'
  <2>1. \A c \in Blocks, e \in Blocks : c < e /\ xact'[e].state # "initialized" => xact'[c].state # "initialized"
    BY <1>6 DEF BInv, BlocksInOrder
  <2>2. \A c \in Entered' : xact'[c].state # "initialized"
    BY <1>1, <1>6, <1>8 DEF BInv, BlocksInOrder
  <2>3. \A d \in did' : \A c \in d.within : xact'[c].state # "initialized"
    BY <1>1, <1>6, <1>7 DEF BInv, BlocksInOrder, EndStep
  <2> QED BY <2>1, <2>2, <2>3 DEF BlocksInOrder
<1>10. ASSUME NEW c \in Blocks, Lost(c) PROVE Lost(c)'
  <2>1. c # b
    BY <1>1, <1>10 DEF StateSet, Lost
  <2> QED BY <1>1, <1>3, <1>10, <2>1 DEF Lost, StateSet
<1>11. \A c \in Blocks : xact[c].state = "committed" => xact'[c].state = "committed"
  BY <1>3 DEF StateSet
<1> QED BY <1>1, <1>3, <1>4, <1>5, <1>7, <1>9, <1>10, <1>11 DEF Trusted

LEMMA GoneStep ==
  ASSUME BInv, NEW b, NEW st, StateSet(b, st), xact[b].type = "block", Gone(server, server'),
         \/ st = "aborted" \/ b \in excused' \/ server.levels = <<>>
         \/ st = "open" /\ withs' = Front(withs)
  PROVE  BInv'
<1>1. server'.levels = <<>> /\ server'.durable = server.durable
  BY DEF Gone
<1>2. WorkDone'
  <2>1. DOMAIN server'.levels = {}
    BY <1>1, NoLevels
  <2>2. server'.durable \subseteq WorkOf'
    BY <1>1, StateStep DEF BInv, WorkDone, StateSet
  <2> QED BY <2>1, <2>2 DEF WorkDone
<1>3. DurableTold'
  <2>1. SUFFICES ASSUME NEW d \in Trusted', d.work \in server'.durable, NEW c \in d.within
                 PROVE  xact'[c].state = "committed"
    BY DEF DurableTold
  <2>2. d \in Trusted /\ c \in Blocks
    BY StateStep
  <2>3. xact[c].state = "committed"
    BY <1>1, <2>1, <2>2 DEF BInv, DurableTold, StateSet
  <2> QED BY <2>2, <2>3, StateStep
<1>4. LostTold'
  <2>1. SUFFICES ASSUME NEW d \in Trusted', d.work \notin server'.durable
                 PROVE  \E c \in d.within : Lost(c)'
    BY DEF LostTold
  <2>2. d \in Trusted /\ d.work \notin server.durable /\ d.within \subseteq Blocks /\ d.within \cap excused' = {}
    BY <1>1, <2>1, StateStep DEF Trusted
  <2>3. CASE \E i \in DOMAIN server.levels : d.work \in Lev(i).work
    <3>1. PICK i \in DOMAIN server.levels : d.work \in Lev(i).work
      BY <2>3
    <3>2. b \in d.within
      BY <2>2, <3>1, PendingInTransaction DEF StateSet
    <3>3. server.levels # <<>>
      BY <3>1, EmptySeq
    <3>4. st = "aborted" \/ (st = "open" /\ withs' = Front(withs))
      BY <2>2, <3>2, <3>3
    <3>5. withs' = Front(withs) => b \notin Entered'
      BY Innermost DEF StateSet
    <3>6. Lost(b)'
      <4>1. xact'[b].state = st
        BY StateStep
      <4> QED BY <3>4, <3>5, <4>1 DEF Lost, StateSet, EndStep
    <3> QED BY <3>2, <3>6
  <2>4. CASE \A i \in DOMAIN server.levels : d.work \notin Lev(i).work
    <3>1. PICK c \in d.within : Lost(c)
      BY <2>2, <2>4 DEF BInv, LostTold
    <3> QED BY <2>2, <3>1, StateStep
  <2> QED BY <2>3, <2>4
<1> QED BY <1>1, <1>2, <1>3, <1>4, NoLevels, StateStep DEF BInv

LEMMA StoredStep ==
  ASSUME BInv, NEW b, StateSet(b, "committed"), xact[b].type = "block", Stored(server, server')
  PROVE  BInv'
<1>0. server \in ServerType
  BY DEF BInv, TypesInv
<1>1. /\ server'.levels = <<>>
      /\ \A w : w \in server'.durable <=> w \in server.durable \/ \E i \in DOMAIN server.levels : w \in Lev(i).work
  <2>1. \A w : w \in WorkFrom(server, 1) <=> \E i \in DOMAIN server.levels : i >= 1 /\ w \in server.levels[i].work
    BY <1>0, WorkFromIs
  <2>2. \A i \in DOMAIN server.levels : i >= 1
    BY <1>0, LevelsAreLevels
  <2> QED BY <2>1, <2>2 DEF Stored, Lev
<1>2. WorkDone'
  <2>1. DOMAIN server'.levels = {}
    BY <1>1, NoLevels
  <2>2. server'.durable \subseteq WorkOf'
    BY <1>1, StateStep DEF BInv, WorkDone, StateSet
  <2> QED BY <2>1, <2>2 DEF WorkDone
<1>3. DurableTold'
  <2>1. SUFFICES ASSUME NEW d \in Trusted', d.work \in server'.durable, NEW c \in d.within
                 PROVE  xact'[c].state = "committed"
    BY DEF DurableTold
  <2>2. d \in Trusted /\ c \in Blocks
    BY StateStep
  <2>3. CASE d.work \in server.durable
    <3>1. xact[c].state = "committed"
      BY <2>2, <2>3 DEF BInv, DurableTold, StateSet
    <3> QED BY <2>2, <3>1, StateStep
  <2>4. CASE \E i \in DOMAIN server.levels : d.work \in Lev(i).work
    <3>1. c = b \/ xact[c].state = "committed"
      BY <2>2, <2>4, PendingInTransaction DEF StateSet
    <3> QED BY <2>2, <3>1, StateStep
  <2> QED BY <1>1, <2>1, <2>3, <2>4
<1>4. LostTold'
  <2>1. SUFFICES ASSUME NEW d \in Trusted', d.work \notin server'.durable
                 PROVE  \E c \in d.within : Lost(c)'
    BY DEF LostTold
  <2>2. d \in Trusted /\ d.within \subseteq Blocks
    BY StateStep
  <2>3. PICK c \in d.within : Lost(c)
    BY <1>1, <2>1, <2>2 DEF BInv, LostTold
  <2> QED BY <2>2, <2>3, StateStep
<1> QED BY <1>1, <1>2, <1>3, <1>4, NoLevels, StateStep DEF BInv

\* The levels from a savepoint on go, by RELEASE or ROLLBACK TO; those above it stay in place.
LEMMA ShortenedStep ==
  ASSUME BInv, NEW b, NEW st, StateSet(b, st), st # "open", xact[b].type # "block",
         NEW i \in DOMAIN server.levels, i >= 2, Lev(i).xact = b,
         Len(server'.levels) = i - 1, \A j \in 1..(i - 1) : Lev(j)'.xact = Lev(j).xact
  PROVE  /\ LevelsOrdered' /\ LevelsOpen' /\ NoneAbove'
         /\ DOMAIN server'.levels = 1..(i - 1) /\ i \in Nat /\ i - 1 \in 1..(i - 1)
         /\ \A j \in 1..(i - 1) : j \in DOMAIN server.levels /\ j < i
         /\ \A j \in DOMAIN server.levels : j \in Nat /\ j >= 1 /\ (j >= i \/ j \in 1..(i - 1))
<1> DEFINE n == Len(server.levels)
<1>1. /\ n \in Nat /\ DOMAIN server.levels = 1..n /\ \A j \in 1..n : Lev(j).xact \in Blocks /\ Lev(j).xact \in Nat
      /\ DOMAIN server'.levels = 1..(i - 1)
  <2>1. server \in ServerType /\ server' \in ServerType
    BY DEF BInv, TypesInv, StateSet, EndStep
  <2>2. n \in Nat /\ DOMAIN server.levels = 1..n /\ DOMAIN server'.levels = 1..Len(server'.levels)
    BY <2>1, LevelsAreLevels
  <2>3. \A j \in 1..n : Lev(j).xact \in Blocks
    BY <2>1, <2>2, LevelsAreLevels DEF Lev
  <2> HIDE DEF n
  <2> QED BY <2>2, <2>3, BlocksAssumption
<1> HIDE DEF n
<1>2. /\ i \in Nat /\ i \in 1..n /\ 1 \in 1..(i - 1) /\ i - 1 \in 1..(i - 1)
      /\ \A j \in 1..(i - 1) : j \in 1..n /\ j < i
      /\ \A j \in 1..n : j \in Nat /\ j >= 1 /\ (j >= i \/ j \in 1..(i - 1))
  BY <1>1
<1>3. \A j \in 1..(i - 1) : Lev(j).xact < b /\ Lev(j).xact # b /\ Lev(j).xact \in Blocks
  <2>1. \A j \in 1..(i - 1) : Lev(j).xact < Lev(i).xact
    BY <1>1, <1>2 DEF BInv, LevelsOrdered
  <2>2. \A j \in 1..(i - 1) : Lev(j).xact \in Nat /\ Lev(j).xact \in Blocks /\ b \in Nat
    BY <1>1, <1>2
  <2> QED BY <2>1, <2>2
<1>4. LevelsOrdered'
  <2>1. \A j, k \in 1..(i - 1) : j < k => Lev(j).xact < Lev(k).xact
    BY <1>1, <1>2 DEF BInv, LevelsOrdered
  <2>2. \A j, k \in 1..(i - 1) : j < k => Lev(j)'.xact < Lev(k)'.xact
    BY <2>1
  <2> QED BY <1>1, <2>2 DEF LevelsOrdered
<1>5. LevelsOpen'
  <2>1. SUFFICES ASSUME NEW j \in 1..(i - 1)
                 PROVE  /\ xact'[Lev(j).xact].state = "open" /\ (xact'[Lev(j).xact].type = "block" <=> j = 1)
                        /\ Lev(j).xact \in Entered' \cup excused'
    BY <1>1 DEF LevelsOpen
  <2>2. xact'[Lev(j).xact] = xact[Lev(j).xact]
    BY <1>3, StateStep
  <2>3. Lev(j).xact \in Entered' \cup excused'
    <3>1. Lev(j).xact \in Entered \cup excused
      BY <1>1, <1>2 DEF BInv, LevelsOpen
    <3>2. Entered \subseteq Entered' \cup {b} /\ excused \subseteq excused'
      BY Innermost DEF StateSet, EndStep
    <3> QED BY <1>3, <3>1, <3>2
  <2> QED BY <1>1, <1>2, <2>2, <2>3 DEF BInv, LevelsOpen
<1>6. NoneAbove'
  <2>1. SUFFICES ASSUME NEW c \in Blocks, xact'[c].state = "open", xact'[c].type = "block"
                 PROVE  Lev(1)'.xact >= c
    BY DEF NoneAbove
  <2>2. c # b /\ xact'[c] = xact[c]
    <3>1. c # b
      BY <2>1, StateStep
    <3> QED BY <3>1, StateStep
  <2>3. server.levels # <<>>
    BY EmptySeq
  <2>4. Lev(1).xact >= c
    BY <2>1, <2>2, <2>3 DEF BInv, NoneAbove
  <2> QED BY <1>2, <2>4
<1> QED BY <1>1, <1>2, <1>4, <1>5, <1>6

LEMMA DroppedStep ==
  ASSUME BInv, NEW b, StateSet(b, "aborted"), xact[b].type # "block",
         NEW i \in DOMAIN server.levels, i >= 2, Lev(i).xact = b, server' = Dropped(server, i)
  PROVE  BInv'
<1>0. server \in ServerType
  BY DEF BInv, TypesInv
<1>1. /\ Len(server'.levels) = i - 1 /\ server'.durable = server.durable
      /\ \A j \in 1..(i - 1) : Lev(j)' = Lev(j)
  BY <1>0, DroppedIs DEF Lev
<1>2. /\ LevelsOrdered' /\ LevelsOpen' /\ NoneAbove'
      /\ DOMAIN server'.levels = 1..(i - 1) /\ i \in Nat
      /\ \A j \in 1..(i - 1) : j \in DOMAIN server.levels /\ j < i
      /\ \A j \in DOMAIN server.levels : j \in Nat /\ j >= 1 /\ (j >= i \/ j \in 1..(i - 1))
  BY <1>1, ShortenedStep
<1>3. WorkDone'
  <2>1. WorkOf' = WorkOf
    BY StateStep
  <2> QED BY <1>1, <1>2, <2>1 DEF BInv, WorkDone, StateSet
<1>4. Pending'
  <2>1. SUFFICES ASSUME NEW d \in Trusted', NEW j \in 1..(i - 1), d.work \in Lev(j).work
                 PROVE  /\ d.work \notin server.durable /\ \A k \in 1..j : Lev(k)'.xact \in d.within
                        /\ \A c \in d.within : xact'[c].state = "committed" \/ \E k \in 1..j : Lev(k)'.xact = c
    BY <1>1, <1>2 DEF Pending
  <2>2. d \in Trusted /\ d.within \subseteq Blocks
    BY StateStep
  <2>3. \A k \in 1..j : k \in 1..(i - 1) /\ Lev(k)' = Lev(k)
    BY <1>1, <1>2
  <2>4. /\ d.work \notin server.durable /\ \A k \in 1..j : Lev(k).xact \in d.within
        /\ \A c \in d.within : xact[c].state = "committed" \/ \E k \in 1..j : Lev(k).xact = c
    BY <1>2, <2>1, <2>2 DEF BInv, Pending
  <2> QED BY <2>2, <2>3, <2>4, StateStep
<1>5. DurableTold'
  <2>1. SUFFICES ASSUME NEW d \in Trusted', d.work \in server'.durable, NEW c \in d.within
                 PROVE  xact'[c].state = "committed"
    BY DEF DurableTold
  <2>2. d \in Trusted /\ c \in Blocks
    BY StateStep
  <2>3. xact[c].state = "committed"
    BY <1>1, <2>1, <2>2 DEF BInv, DurableTold, StateSet
  <2> QED BY <2>2, <2>3, StateStep
<1>6. LostTold'
  <2>1. SUFFICES ASSUME NEW d \in Trusted', d.work \notin server'.durable,
                        \A j \in 1..(i - 1) : d.work \notin Lev(j)'.work
                 PROVE  \E c \in d.within : Lost(c)'
    BY <1>2 DEF LostTold
  <2>2. d \in Trusted /\ d.within \subseteq Blocks
    BY StateStep
  <2>3. CASE \E k \in DOMAIN server.levels : d.work \in Lev(k).work
    <3>1. PICK k \in DOMAIN server.levels : d.work \in Lev(k).work
      BY <2>3
    <3>2. k >= i /\ k \in Nat
      BY <1>1, <1>2, <2>1, <3>1
    <3>3. i \in 1..k
      BY <1>2, <3>2
    <3>4. b \in d.within
      BY <2>2, <3>1, <3>3 DEF BInv, Pending
    <3>5. Lost(b)'
      <4>1. xact'[b].state = "aborted"
        BY StateStep
      <4> QED BY <4>1 DEF Lost
    <3> QED BY <3>4, <3>5
  <2>4. CASE \A k \in DOMAIN server.levels : d.work \notin Lev(k).work
    <3>1. PICK c \in d.within : Lost(c)
      BY <1>1, <2>1, <2>2, <2>4 DEF BInv, LostTold
    <3> QED BY <2>2, <3>1, StateStep
  <2> QED BY <2>3, <2>4
<1> QED BY <1>2, <1>3, <1>4, <1>5, <1>6, StateStep DEF BInv

LEMMA ReleasedStep ==
  ASSUME BInv, NEW b, StateSet(b, "committed"), xact[b].type # "block",
         NEW i \in DOMAIN server.levels, i >= 2, Lev(i).xact = b, server' = Released(server, i)
  PROVE  BInv'
<1>0. server \in ServerType
  BY DEF BInv, TypesInv
<1>1. /\ Len(server'.levels) = i - 1 /\ server'.durable = server.durable
      /\ \A j \in 1..(i - 1) :
           /\ Lev(j)'.xact = Lev(j).xact
           /\ Lev(j)'.work = IF j = i - 1 THEN Lev(j).work \cup WorkFrom(server, i) ELSE Lev(j).work
  BY <1>0, ReleasedIs DEF Lev
<1>2. /\ LevelsOrdered' /\ LevelsOpen' /\ NoneAbove'
      /\ DOMAIN server'.levels = 1..(i - 1) /\ i \in Nat /\ i - 1 \in 1..(i - 1)
      /\ \A j \in 1..(i - 1) : j \in DOMAIN server.levels /\ j < i
      /\ \A j \in DOMAIN server.levels : j \in Nat /\ j >= 1 /\ (j >= i \/ j \in 1..(i - 1))
  BY <1>1, ShortenedStep
<1>3. \A w : w \in WorkFrom(server, i) <=> \E k \in DOMAIN server.levels : k >= i /\ w \in Lev(k).work
  <2>1. i \in Nat \ {0}
    BY <1>2
  <2> QED BY <1>0, <2>1, WorkFromIs DEF Lev
<1>4. WorkDone'
  <2>1. WorkOf' = WorkOf
    BY StateStep
  <2>2. \A j \in DOMAIN server.levels : Lev(j).work \subseteq WorkOf
    BY DEF BInv, WorkDone, StateSet
  <2>3. WorkFrom(server, i) \subseteq WorkOf
    BY <1>3, <2>2
  <2>4. \A j \in 1..(i - 1) : Lev(j)'.work \subseteq WorkOf
    BY <1>1, <1>2, <2>2, <2>3
  <2> QED BY <1>1, <1>2, <2>1, <2>4 DEF BInv, WorkDone, StateSet
<1>5. Pending'
  <2>1. SUFFICES ASSUME NEW d \in Trusted', NEW j \in 1..(i - 1), d.work \in Lev(j)'.work
                 PROVE  /\ d.work \notin server.durable /\ \A k \in 1..j : Lev(k)'.xact \in d.within
                        /\ \A c \in d.within : xact'[c].state = "committed" \/ \E k \in 1..j : Lev(k)'.xact = c
    BY <1>1, <1>2 DEF Pending
  <2>2. d \in Trusted /\ d.within \subseteq Blocks /\ d.within \cap excused = {}
    BY StateStep DEF Trusted
  <2>3. \A k \in 1..j : k \in 1..(i - 1) /\ Lev(k)'.xact = Lev(k).xact
    <3>1. i \in Nat
      BY <1>2
    <3>2. \A k \in 1..j : k \in 1..(i - 1)
      BY <3>1
    <3> QED BY <1>1, <3>2
  <2>4. CASE d.work \in Lev(j).work
    <3>1. /\ d.work \notin server.durable /\ \A k \in 1..j : Lev(k).xact \in d.within
          /\ \A c \in d.within : xact[c].state = "committed" \/ \E k \in 1..j : Lev(k).xact = c
      BY <1>2, <2>2, <2>4 DEF BInv, Pending
    <3> QED BY <2>2, <2>3, <3>1, StateStep
  <2>5. CASE d.work \notin Lev(j).work
    <3>1. j = i - 1 /\ d.work \in WorkFrom(server, i)
      BY <1>1, <2>1, <2>5
    <3>2. PICK k \in DOMAIN server.levels : k >= i /\ d.work \in Lev(k).work
      BY <1>3, <3>1
    <3>3. /\ d.work \notin server.durable /\ \A m \in 1..k : Lev(m).xact \in d.within
          /\ \A c \in d.within : xact[c].state = "committed" \/ \E m \in 1..k : Lev(m).xact = c
      BY <2>2, <3>2 DEF BInv, Pending
    <3>4. /\ k \in Nat /\ \A m \in 1..(i - 1) : m \in 1..k
          /\ \A m \in 1..k : m \in DOMAIN server.levels /\ (m >= i \/ m \in 1..(i - 1))
      <4>1. k \in Nat /\ DOMAIN server.levels = 1..Len(server.levels) /\ Len(server.levels) \in Nat
        BY <1>0, <1>2, LevelsAreLevels
      <4> QED BY <1>2, <3>2, <4>1
    <3>5. ASSUME NEW m \in 1..k, m >= i
          PROVE  Lev(m).xact = b
      <4>1. Lev(m).xact \in Entered
        BY <2>2, <3>3, <3>4 DEF BInv, LevelsOpen
      <4>2. Lev(m).xact \in Blocks /\ Lev(m).xact <= b /\ b \in Blocks
        BY <4>1, Innermost DEF StateSet
      <4>3. m = i \/ i < m
        BY <1>2, <3>4, <3>5
      <4>4. i < m => Lev(i).xact < Lev(m).xact
        BY <3>4 DEF BInv, LevelsOrdered
      <4>5. Lev(m).xact \in Nat /\ b \in Nat
        BY <4>2, BlocksAssumption
      <4> QED BY <4>2, <4>3, <4>4, <4>5
    <3>6. ASSUME NEW c \in d.within
          PROVE  xact'[c].state = "committed" \/ \E m \in 1..j : Lev(m)'.xact = c
      <4>1. c \in Blocks
        BY <2>2
      <4>2. CASE xact[c].state = "committed"
        BY <4>1, <4>2, StateStep
      <4>3. CASE \E m \in 1..k : Lev(m).xact = c
        <5>1. PICK m \in 1..k : Lev(m).xact = c
          BY <4>3
        <5>2. CASE m >= i
          <6>1. c = b
            BY <3>5, <5>1, <5>2
          <6> QED BY <6>1, StateStep
        <5>3. CASE m \in 1..(i - 1)
          BY <2>3, <3>1, <5>1, <5>3
        <5> QED BY <3>4, <5>2, <5>3
      <4> QED BY <3>3, <4>2, <4>3
    <3> QED BY <2>3, <3>1, <3>3, <3>4, <3>6
  <2> QED BY <2>4, <2>5
<1>6. DurableTold'
  <2>1. SUFFICES ASSUME NEW d \in Trusted', d.work \in server'.durable, NEW c \in d.within
                 PROVE  xact'[c].state = "committed"
    BY DEF DurableTold
  <2>2. d \in Trusted /\ c \in Blocks
    BY StateStep
  <2>3. xact[c].state = "committed"
    BY <1>1, <2>1, <2>2 DEF BInv, DurableTold, StateSet
  <2> QED BY <2>2, <2>3, StateStep
<1>7. LostTold'
  <2>1. SUFFICES ASSUME NEW d \in Trusted', d.work \notin server'.durable,
                        \A j \in 1..(i - 1) : d.work \notin Lev(j)'.work
                 PROVE  \E c \in d.within : Lost(c)'
    BY <1>2 DEF LostTold
  <2>2. d \in Trusted /\ d.within \subseteq Blocks
    BY StateStep
  <2>3. d.work \notin WorkFrom(server, i)
    BY <1>1, <1>2, <2>1
  <2>4. \A k \in DOMAIN server.levels : d.work \notin Lev(k).work
    BY <1>1, <1>2, <1>3, <2>1, <2>3
  <2>5. PICK c \in d.within : Lost(c)
    BY <1>1, <2>1, <2>2, <2>4 DEF BInv, LostTold
  <2> QED BY <2>2, <2>5, StateStep
<1> QED BY <1>2, <1>4, <1>5, <1>6, <1>7, StateStep DEF BInv

-----------------------------------------------------------------------------
(* The actions *)

LEMMA LastIsBlock ==
  ASSUME TypesInv, withs # <<>>
  PROVE  Last(withs) \in Blocks
<1>1. withs \in Seq(Blocks) /\ Len(withs) \in Nat /\ Len(withs) # 0
  BY LenProperties, EmptySeq DEF TypesInv
<1>2. Len(withs) \in 1..Len(withs)
  BY <1>1
<1> QED BY <1>1, <1>2, ElementOfSeq DEF Last

LEMMA StateUnchanged ==
  ASSUME TypesInv, NEW b \in Blocks
  PROVE  [xact EXCEPT ![b].state = xact[b].state] = xact
<1>1. xact \in [Blocks -> XactType] /\ xact[b] \in XactType
  BY DEF TypesInv
<1>2. [xact[b] EXCEPT !.state = xact[b].state] = xact[b]
  BY <1>1 DEF XactType
<1> QED BY <1>1, <1>2

LEMMA NoLevelOfEnded ==
  ASSUME BInv, NEW b \in Blocks,
         \/ xact[b].state # "open" \/ Closed
         \/ xact[b].type # "block" /\ LevelOf(server, b) \subseteq {1}
  PROVE  \A i \in DOMAIN server.levels : Lev(i).xact # b
<1> SUFFICES ASSUME NEW i \in DOMAIN server.levels, Lev(i).xact = b PROVE FALSE
  OBVIOUS
<1>1. xact[b].state = "open" /\ (xact[b].type = "block" <=> i = 1)
  BY DEF BInv, LevelsOpen
<1>2. server.levels # <<>>
  BY EmptySeq
<1>3. ~Closed
  BY <1>2 DEF BInv, StatusOf, Closed
<1>4. i \in LevelOf(server, b)
  BY DEF LevelOf, Lev
<1> QED BY <1>1, <1>3, <1>4

LEMMA CommitCalledStep ==
  ASSUME BInv, withs # <<>>, NEW b, b = Last(withs), CommitCalled(b)
  PROVE  BInv'
<1>1. PICK r \in Commit(b, server, pq, xact[b].state) :
        /\ Becomes(r, b)
        /\ excused' = IF Ready(server) = "E" \/ r.error # None THEN excused \cup {b} ELSE excused
  BY DEF CommitCalled
<1>2. b \in Blocks /\ server \in ServerType /\ pq \in PqType /\ TypesInv
  BY LastIsBlock DEF BInv, TypesInv
<1> DEFINE st == xact[b].state
<1>3. /\ r.server \in ServerType /\ r.pq \in PqType /\ StatusOf(r.server, r.pq)
      /\ \/ NotEnded(b, server, pq, st, r)
         \/ WasCut(server, pq, st, r)
         \/ /\ Asked(pq, st, r)
            /\ \/ /\ xact[b].type = "block" /\ (server.failed \/ server.levels = <<>>)
                  /\ Gone(server, r.server) /\ r.state = "committed" /\ r.error = None
               \/ /\ xact[b].type = "block" /\ ~server.failed /\ server.levels # <<>>
                  /\ Gone(server, r.server) /\ r.state = "open" /\ r.error # None
               \/ xact[b].type = "block" /\ Stored(server, r.server) /\ r.state = "committed" /\ r.error = None
               \/ /\ xact[b].type # "block" /\ r.state = "committed" /\ r.error = None
                  /\ \E i \in DOMAIN server.levels :
                       i >= 2 /\ server.levels[i].xact = b /\ r.server = Released(server, i)
  BY <1>2, CommitIs, LevelsAreDifferent DEF BInv
<1>4. server' = r.server /\ pq' = r.pq /\ xact' = [xact EXCEPT ![b].state = r.state]
  BY <1>1 DEF Becomes
<1>5. EndStep(b) /\ withs' = withs
  BY <1>1, <1>2, <1>3, <1>4 DEF EndStep, CommitCalled, BInv, TypesInv
<1>6. CASE NotEnded(b, server, pq, st, r)
  <2>1. Kept(server, server') /\ (pq'.closed <=> Closed) /\ xact' = xact
    BY <1>2, <1>4, <1>6, StateUnchanged DEF NotEnded, Closed
  <2> QED BY <1>5, <2>1, KeptStep
<1>7. CASE WasCut(server, pq, st, r)
  <2>1. CutOff(server, server') /\ pq'.closed /\ xact' = xact
    BY <1>2, <1>4, <1>7, StateUnchanged DEF WasCut
  <2> QED BY <1>5, <2>1, CutStep
<1>8. ASSUME Asked(pq, st, r), r.state \in {"open", "committed"}
      PROVE  StateSet(b, r.state)
  BY <1>4, <1>5, <1>8 DEF Asked, StateSet, Closed
<1>9. ASSUME Asked(pq, st, r), xact[b].type = "block", server.failed \/ server.levels = <<>>,
             Gone(server, r.server), r.state = "committed"
      PROVE  BInv'
  <2>1. server.levels = <<>> \/ b \in excused'
    <3>1. server.levels # <<>> /\ server.failed => Ready(server) = "E"
      BY DEF Ready
    <3> QED BY <1>1, <1>9, <3>1
  <2> QED BY <1>4, <1>8, <1>9, <2>1, GoneStep
<1>10. ASSUME Asked(pq, st, r), xact[b].type = "block", Gone(server, r.server), r.state = "open", r.error # None
       PROVE  BInv'
  BY <1>1, <1>4, <1>8, <1>10, GoneStep
<1>11. ASSUME Asked(pq, st, r), xact[b].type = "block", Stored(server, r.server), r.state = "committed"
       PROVE  BInv'
  BY <1>4, <1>8, <1>11, StoredStep
<1>12. ASSUME Asked(pq, st, r), xact[b].type # "block", r.state = "committed",
              NEW i \in DOMAIN server.levels, i >= 2, server.levels[i].xact = b, r.server = Released(server, i)
       PROVE  BInv'
  <2>1. StateSet(b, "committed") /\ server' = Released(server, i) /\ Lev(i).xact = b
    BY <1>4, <1>8, <1>12 DEF Lev
  <2> QED BY <1>12, <2>1, ReleasedStep
<1> QED BY <1>3, <1>6, <1>7, <1>9, <1>10, <1>11, <1>12

\* A step in the innermost block, whatever is asked of the server.
InnerStep(b) ==
  /\ withs # <<>> /\ b = Last(withs) /\ (withs' = withs \/ withs' = Front(withs))
  /\ did' = did /\ excused \subseteq excused' /\ excused' \subseteq Blocks

LEMMA RollbackStep ==
  ASSUME BInv, NEW b, InnerStep(b), NEW r \in Rollback(b, server, pq, xact[b].state), Becomes(r, b),
         withs' = withs \/ pq.ahead # "error" \/ b \in excused'
  PROVE  BInv'
<1>2. b \in Blocks /\ server \in ServerType /\ pq \in PqType /\ TypesInv
  BY LastIsBlock DEF BInv, TypesInv, InnerStep
<1> DEFINE st == xact[b].state
<1>3. /\ r.server \in ServerType /\ r.pq \in PqType /\ StatusOf(r.server, r.pq)
      /\ \/ /\ NotEnded(b, server, pq, st, r)
            /\ \/ st # "open" \/ pq.closed \/ pq.ahead = "error"
               \/ xact[b].type # "block" /\ LevelOf(server, b) \subseteq {1}
         \/ WasCut(server, pq, st, r)
         \/ /\ Asked(pq, st, r)
            /\ \/ xact[b].type = "block" /\ Gone(server, r.server) /\ r.state = "aborted"
               \/ /\ xact[b].type # "block" /\ r.state = "aborted"
                  /\ \E i \in DOMAIN server.levels :
                       i >= 2 /\ server.levels[i].xact = b /\ r.server = Dropped(server, i)
  BY <1>2, RollbackIs, LevelsAreDifferent DEF BInv
<1>4. server' = r.server /\ pq' = r.pq /\ xact' = [xact EXCEPT ![b].state = r.state]
  BY DEF Becomes
<1>5. EndStep(b)
  BY <1>3, <1>4 DEF EndStep, InnerStep
<1>6. CASE /\ NotEnded(b, server, pq, st, r)
           /\ \/ st # "open" \/ pq.closed \/ pq.ahead = "error"
              \/ xact[b].type # "block" /\ LevelOf(server, b) \subseteq {1}
  <2>1. Kept(server, server') /\ (pq'.closed <=> Closed) /\ xact' = xact
    BY <1>2, <1>4, <1>6, StateUnchanged DEF NotEnded, Closed
  <2>2. withs' = withs \/ b \in excused' \/ \A i \in DOMAIN server.levels : Lev(i).xact # b
    BY <1>2, <1>6, NoLevelOfEnded DEF Closed
  <2> QED BY <1>5, <2>1, <2>2, KeptStep
<1>7. CASE WasCut(server, pq, st, r)
  <2>1. CutOff(server, server') /\ pq'.closed /\ xact' = xact
    BY <1>2, <1>4, <1>7, StateUnchanged DEF WasCut
  <2> QED BY <1>5, <2>1, CutStep
<1>8. ASSUME Asked(pq, st, r), r.state = "aborted"
      PROVE  StateSet(b, "aborted")
  BY <1>4, <1>5, <1>8 DEF Asked, StateSet, Closed
<1>9. ASSUME Asked(pq, st, r), xact[b].type = "block", Gone(server, r.server), r.state = "aborted"
      PROVE  BInv'
  BY <1>4, <1>8, <1>9, GoneStep
<1>10. ASSUME Asked(pq, st, r), xact[b].type # "block", r.state = "aborted",
              NEW i \in DOMAIN server.levels, i >= 2, server.levels[i].xact = b, r.server = Dropped(server, i)
       PROVE  BInv'
  <2>1. StateSet(b, "aborted") /\ server' = Dropped(server, i) /\ Lev(i).xact = b
    BY <1>4, <1>8, <1>10 DEF Lev
  <2> QED BY <1>10, <2>1, DroppedStep
<1> QED BY <1>3, <1>6, <1>7, <1>9, <1>10

LEMMA RollbackCalledStep ==
  ASSUME BInv, withs # <<>>, NEW b, b = Last(withs), RollbackCalled(b)
  PROVE  BInv'
<1>1. InnerStep(b) /\ withs' = withs
  BY DEF RollbackCalled, InnerStep, BInv, TypesInv
<1> QED BY <1>1, RollbackStep DEF RollbackCalled

\* The state stays as it is: nothing was sent.
LEMMA NothingSentStep ==
  ASSUME BInv, NEW b, InnerStep(b), NEW error, Becomes(Stays(server, pq, xact[b].state, error), b),
         Closed \/ b \in excused'
  PROVE  BInv'
<1>1. b \in Blocks /\ TypesInv
  BY LastIsBlock DEF BInv, InnerStep
<1>2. server' = server /\ pq' = pq /\ xact' = xact
  BY <1>1, StateUnchanged DEF Becomes, Stays
<1>3. EndStep(b)
  BY <1>2 DEF EndStep, InnerStep, BInv, TypesInv
<1>4. b \in excused' \/ \A i \in DOMAIN server.levels : Lev(i).xact # b
  BY <1>1, NoLevelOfEnded
<1> QED BY <1>2, <1>3, <1>4, KeptStep DEF Kept, Closed

LEMMA AbortAliveStep ==
  ASSUME BInv, NEW b, InnerStep(b), NEW r \in AbortAlive(b, server, pq, xact[b].state), Becomes(r, b),
         pq.ahead # "error" \/ b \in excused'
  PROVE  BInv'
<1>1. CASE pq.closed
  BY <1>1, NothingSentStep DEF AbortAlive, Closed
<1>2. CASE ~pq.closed
  BY <1>2, RollbackStep DEF AbortAlive
<1> QED BY <1>1, <1>2

LEMMA CommitOrAbortStep ==
  ASSUME BInv, NEW b, InnerStep(b), NEW r \in CommitOrAbort(b, server, pq, xact[b].state), Becomes(r, b),
         withs' = Front(withs), pq.ahead # "error" \/ b \in excused', pq.state # "E"
  PROVE  BInv'
<1> DEFINE st == xact[b].state
<1>1. b \in Blocks /\ server \in ServerType /\ pq \in PqType /\ TypesInv /\ LevelsDiffer(server)
  BY LastIsBlock, LevelsAreDifferent DEF BInv, TypesInv, InnerStep
<1>2. PICK c \in Commit(b, server, pq, st) :
        IF c.error = "ActiveTransactionError" THEN r \in AbortAlive(b, c.server, c.pq, "open") ELSE r = c
  BY DEF CommitOrAbort
<1>3. /\ c.server \in ServerType /\ c.pq \in PqType /\ StatusOf(c.server, c.pq)
      /\ \/ NotEnded(b, server, pq, st, c)
         \/ WasCut(server, pq, st, c)
         \/ /\ Asked(pq, st, c)
            /\ \/ /\ xact[b].type = "block" /\ (server.failed \/ server.levels = <<>>)
                  /\ Gone(server, c.server) /\ c.state = "committed" /\ c.error = None
               \/ /\ xact[b].type = "block" /\ ~server.failed /\ server.levels # <<>>
                  /\ Gone(server, c.server) /\ c.state = "open" /\ c.error # None
               \/ xact[b].type = "block" /\ Stored(server, c.server) /\ c.state = "committed" /\ c.error = None
               \/ /\ xact[b].type # "block" /\ c.state = "committed" /\ c.error = None
                  /\ \E i \in DOMAIN server.levels :
                       i >= 2 /\ server.levels[i].xact = b /\ c.server = Released(server, i)
  BY <1>1, CommitIs DEF BInv
<1>4. server' = r.server /\ pq' = r.pq /\ xact' = [xact EXCEPT ![b].state = r.state]
  BY DEF Becomes
\* The last status read was not "E", so what the server holds has not failed, unless a chunk has.
<1>5. ~server.failed \/ pq.closed \/ pq.ahead = "error"
  <2>1. server.failed => server.levels # <<>>
    BY DEF BInv, StatusOf
  <2>2. pq.ahead # "error" /\ ~pq.closed => pq.state = Ready(server)
    BY DEF BInv, StatusOf
  <2> QED BY <2>1, <2>2 DEF Ready
<1>6. CASE c.error = "ActiveTransactionError"
  <2>1. /\ Kept(server, c.server) /\ st = "open" /\ xact[b].type = "block" /\ ~pq.closed
        /\ ~c.pq.closed /\ c.pq.ahead # "error"
    <3>1. NotEnded(b, server, pq, st, c)
      BY <1>3, <1>6, BlocksAssumption DEF WasCut, Asked
    <3> QED BY <1>6, <3>1 DEF NotEnded
  <2>2. r \in Rollback(b, c.server, c.pq, "open") /\ LevelsDiffer(c.server)
    BY <1>1, <1>2, <1>6, <2>1 DEF AbortAlive, Kept, LevelsDiffer
  <2>3. /\ r.server \in ServerType /\ r.pq \in PqType /\ StatusOf(r.server, r.pq)
        /\ \/ WasCut(c.server, c.pq, "open", r)
           \/ Asked(c.pq, "open", r) /\ Gone(c.server, r.server) /\ r.state = "aborted"
    BY <1>1, <1>3, <2>1, <2>2, RollbackIs
  <2>4. EndStep(b)
    BY <1>4, <2>3 DEF EndStep, InnerStep
  <2>5. CASE WasCut(c.server, c.pq, "open", r)
    <3>1. CutOff(server, r.server)
      BY <2>1, <2>5 DEF WasCut, CutOff, Kept, WorkFrom
    <3>2. xact' = xact
      BY <1>1, <1>4, <2>1, <2>5, StateUnchanged DEF WasCut
    <3> QED BY <1>4, <2>4, <2>5, <3>1, <3>2, CutStep DEF WasCut
  <2>6. CASE Asked(c.pq, "open", r) /\ Gone(c.server, r.server) /\ r.state = "aborted"
    <3>1. Gone(server, server')
      BY <1>4, <2>1, <2>6 DEF Gone, Kept
    <3>2. StateSet(b, "aborted")
      BY <1>4, <2>1, <2>4, <2>6 DEF StateSet, Asked, Closed
    <3> QED BY <2>1, <3>1, <3>2, GoneStep
  <2> QED BY <2>3, <2>5, <2>6
<1>7. CASE c.error # "ActiveTransactionError"
  <2>1. r = c
    BY <1>2, <1>7
  <2>2. EndStep(b)
    BY <1>3, <1>4, <2>1 DEF EndStep, InnerStep
  <2>3. CASE NotEnded(b, server, pq, st, c)
    <3>1. Kept(server, server') /\ (pq'.closed <=> Closed) /\ xact' = xact
      BY <1>1, <1>4, <2>1, <2>3, StateUnchanged DEF NotEnded, Closed
    <3>2. \/ st # "open" \/ pq.closed \/ pq.ahead = "error"
          \/ xact[b].type # "block" /\ LevelOf(server, b) \subseteq {1}
      BY <1>5, <1>7, <2>3 DEF NotEnded
    <3>3. b \in excused' \/ \A i \in DOMAIN server.levels : Lev(i).xact # b
      BY <1>1, <3>2, NoLevelOfEnded DEF Closed
    <3> QED BY <2>2, <3>1, <3>3, KeptStep
  <2>4. CASE WasCut(server, pq, st, c)
    <3>1. CutOff(server, server') /\ pq'.closed /\ xact' = xact
      BY <1>1, <1>4, <2>1, <2>4, StateUnchanged DEF WasCut
    <3> QED BY <2>2, <3>1, CutStep
  <2>5. ASSUME Asked(pq, st, c), c.state \in {"open", "committed"}
        PROVE  StateSet(b, c.state)
    BY <1>4, <2>1, <2>2, <2>5 DEF Asked, StateSet, Closed
  <2>6. ASSUME Asked(pq, st, c), xact[b].type = "block", server.failed \/ server.levels = <<>>,
               Gone(server, c.server), c.state = "committed"
        PROVE  BInv'
    <3>1. server.levels = <<>>
      BY <1>5, <2>6 DEF Asked
    <3> QED BY <1>4, <2>1, <2>5, <2>6, <3>1, GoneStep
  <2>7. ASSUME Asked(pq, st, c), xact[b].type = "block", Gone(server, c.server), c.state = "open"
        PROVE  BInv'
    BY <1>4, <2>1, <2>5, <2>7, GoneStep
  <2>8. ASSUME Asked(pq, st, c), xact[b].type = "block", Stored(server, c.server), c.state = "committed"
        PROVE  BInv'
    BY <1>4, <2>1, <2>5, <2>8, StoredStep
  <2>9. ASSUME Asked(pq, st, c), xact[b].type # "block", c.state = "committed",
               NEW i \in DOMAIN server.levels, i >= 2, server.levels[i].xact = b, c.server = Released(server, i)
        PROVE  BInv'
    <3>1. StateSet(b, "committed") /\ server' = Released(server, i) /\ Lev(i).xact = b
      BY <1>4, <2>1, <2>5, <2>9 DEF Lev
    <3> QED BY <2>9, <3>1, ReleasedStep
  <2> QED BY <1>3, <2>3, <2>4, <2>6, <2>7, <2>8, <2>9
<1> QED BY <1>6, <1>7

LEMMA ExitBlockStep ==
  ASSUME BInv, withs # <<>>, NEW b, b = Last(withs),
         NEW typ \in {"none", "exception", "BaseException"}, ExitBlock(b, typ)
  PROVE  BInv'
<1>1. PICK r \in ExitWith(b, typ) : Becomes(r, b)
  BY DEF ExitBlock
<1>2. b \in Blocks
  BY LastIsBlock DEF BInv
<1>3. /\ InnerStep(b) /\ withs' = Front(withs)
      /\ typ = "BaseException" \/ pq.ahead = "error" => b \in excused'
  BY <1>2 DEF ExitBlock, InnerStep, BInv, TypesInv
<1>4. CASE typ = "exception" \/ (typ = "none" /\ pq.state = "E")
  <2>1. r \in AbortAlive(b, server, pq, xact[b].state)
    BY <1>1, <1>4 DEF ExitWith
  <2> QED BY <1>1, <1>3, <2>1, AbortAliveStep
<1>5. CASE typ = "none" /\ pq.state # "E"
  <2>1. r \in CommitOrAbort(b, server, pq, xact[b].state)
    BY <1>1, <1>5 DEF ExitWith
  <2> QED BY <1>1, <1>3, <1>5, <2>1, CommitOrAbortStep
<1>6. CASE typ = "BaseException"
  <2>1. r = Stays(server, pq, xact[b].state, "other")
    BY <1>1, <1>6 DEF ExitWith
  <2> QED BY <1>1, <1>3, <1>6, <2>1, NothingSentStep
<1> QED BY <1>4, <1>5, <1>6

\* Nothing ends and nothing begins: the levels stay, or the connection is lost.
LEMMA QuietStep ==
  ASSUME BInv, withs' = withs, did' = did, excused' = excused,
         server' \in ServerType, pq' \in PqType, StatusOf(server, pq)', xact' \in [Blocks -> XactType],
         \A c \in Blocks :
           /\ xact'[c].state = xact[c].state
           /\ xact[c].state # "initialized" => xact'[c] = xact[c],
         \/ Kept(server, server') /\ (pq'.closed <=> Closed)
         \/ CutOff(server, server') /\ pq'.closed
  PROVE  BInv'
<1>1. /\ Entered' = Entered /\ Trusted' = Trusted /\ WorkOf' = WorkOf /\ WithsOrdered' /\ TypesInv'
  BY DEF BInv, TypesInv, WithsOrdered, Entered, Trusted, WorkOf
<1>2. Entered \subseteq Blocks /\ \A d \in did : d.within \subseteq Blocks
  <2>1. \A i \in DOMAIN withs : withs[i] \in Blocks
    BY ElementOfSeq, LenProperties DEF BInv, TypesInv
  <2> QED BY <2>1 DEF BInv, TypesInv, DidType, Entered
<1>3. BlocksInOrder'
  BY <1>1, <1>2 DEF BInv, BlocksInOrder
<1>4. \A c \in Blocks : Lost(c) => Lost(c)'
  BY <1>1 DEF Lost, Closed, BInv, StatusOf
<1>5. ASSUME Kept(server, server'), pq'.closed <=> Closed
      PROVE  BInv'
  <2>1. server'.levels = server.levels /\ server'.durable = server.durable /\ (Closed' <=> Closed)
    BY <1>5 DEF Kept, Closed
  <2>2. \A i : Lev(i)' = Lev(i)
    BY <2>1 DEF Lev
  <2>3. \A i \in DOMAIN server.levels : Lev(i).xact \in Blocks
    BY LevelsAreLevels DEF BInv, TypesInv, Lev
  <2>4. LevelsOrdered' /\ NoneAbove' /\ WorkDone'
    <3>1. \A c \in Blocks : xact'[c].state = "open" => xact'[c] = xact[c]
      OBVIOUS
    <3> QED BY <1>1, <2>1, <2>2, <3>1 DEF BInv, LevelsOrdered, NoneAbove, WorkDone
  <2>5. LevelsOpen'
    <3>1. \A i \in DOMAIN server.levels : xact'[Lev(i).xact] = xact[Lev(i).xact]
      BY <2>3 DEF BInv, LevelsOpen
    <3> QED BY <1>1, <2>1, <2>2, <3>1 DEF BInv, LevelsOpen
  <2>6. Pending' /\ DurableTold'
    <3>1. \A d \in Trusted : \A c \in d.within : xact'[c].state = xact[c].state
      BY <1>2 DEF Trusted
    <3> QED BY <1>1, <2>1, <2>2, <3>1 DEF BInv, Pending, DurableTold
  <2>7. LostTold'
    <3>1. \A d \in Trusted : \A c \in d.within : Lost(c) => Lost(c)'
      BY <1>2, <1>4 DEF Trusted
    <3> QED BY <1>1, <2>1, <2>2, <3>1 DEF BInv, LostTold
  <2> QED BY <1>1, <1>3, <2>4, <2>5, <2>6, <2>7 DEF BInv
<1>6. ASSUME CutOff(server, server'), pq'.closed
      PROVE  BInv'
  <2>1. Closed' /\ server'.levels = <<>> /\ server.durable \subseteq server'.durable
    BY <1>6 DEF Closed, CutOff
  <2>2. WorkDone' /\ DurableTold'
    BY <2>1 DEF WorkDone, DurableTold
  <2>3. LostTold'
    <3>1. SUFFICES ASSUME NEW d \in Trusted, d.work \notin server'.durable
                   PROVE  \E c \in d.within : Lost(c)'
      BY <1>1 DEF LostTold
    <3>2. d.within \subseteq Blocks /\ d.work \notin server.durable
      BY <1>2, <2>1, <3>1 DEF Trusted
    <3>3. CASE \E i \in DOMAIN server.levels : d.work \in Lev(i).work
      <4>1. PICK i \in DOMAIN server.levels : d.work \in Lev(i).work
        BY <3>3
      <4>2. i \in 1..i
        BY LevelsAreLevels DEF BInv, TypesInv
      <4>3. PICK c \in d.within : xact[c].state = "open"
        BY <4>1, <4>2 DEF BInv, Pending, LevelsOpen
      <4>4. Lost(c)'
        BY <2>1, <3>2, <4>3 DEF Lost
      <4> QED BY <4>4
    <3>4. CASE \A i \in DOMAIN server.levels : d.work \notin Lev(i).work
      <4>1. PICK c \in d.within : Lost(c)
        BY <3>2, <3>4 DEF BInv, LostTold
      <4> QED BY <1>4, <3>2, <4>1
    <3> QED BY <3>3, <3>4
  <2> QED BY <1>1, <1>3, <2>1, <2>2, <2>3, NoLevels DEF BInv
<1> QED BY <1>5, <1>6

LEMMA AnswersToStart ==
  ASSUME NEW s, Proper(s), NEW b \in Blocks, NEW a \in Answers(s, Query("START TRANSACTION", b)), s.levels = <<>>
  PROVE  Proper(a.server) /\ a.error = None /\ a.server = Opened(s, b)
<1>1. a = Done(Opened(s, b)) /\ s \in ServerType /\ ~s.failed
  BY DEF Answers, Query, Proper
<1>2. a.error = None /\ a.server = Opened(s, b)
  BY <1>1 DEF Done
<1>3. Opened(s, b) \in ServerType /\ Opened(s, b).failed = FALSE
  BY <1>1, OpenedIs DEF ServerType
<1> QED BY <1>2, <1>3 DEF Proper

LEMMA AnswersToSavepoint ==
  ASSUME NEW s, Proper(s), NEW b \in Blocks, NEW a \in Answers(s, Query("SAVEPOINT", b))
  PROVE  /\ Proper(a.server)
         /\ \/ Kept(s, a.server) /\ a.error = "other"
            \/ s.levels # <<>> /\ a.error = None /\ a.server = Opened(s, b)
<1>1. a = IF s.failed \/ s.levels = <<>> THEN Failing(s, "other") ELSE Done(Opened(s, b))
  BY DEF Answers, Query
<1>2. s \in ServerType
  BY DEF Proper
<1>3. CASE s.failed \/ s.levels = <<>>
  BY <1>1, <1>2, <1>3, FailingIs
<1>4. CASE ~(s.failed \/ s.levels = <<>>)
  <2>1. a.error = None /\ a.server = Opened(s, b)
    BY <1>1, <1>4 DEF Done
  <2>2. Opened(s, b) \in ServerType /\ Opened(s, b).failed = FALSE
    BY <1>2, <1>4, OpenedIs DEF ServerType
  <2> QED BY <1>4, <2>1, <2>2 DEF Proper
<1> QED BY <1>3, <1>4

LEMMA AnswersToStatement ==
  ASSUME NEW s, Proper(s), NEW w \in Nat, NEW a \in Answers(s, [text |-> "statement", work |-> w])
  PROVE  /\ Proper(a.server)
         /\ \/ Kept(s, a.server) /\ a.error = "other"
            \/ a.error = None /\ a.server = Worked(s, w)
<1>1. a \in {Failing(s, "other")} \cup IF s.failed THEN {} ELSE {Done(Worked(s, w))}
  BY DEF Answers
<1>2. s \in ServerType
  BY DEF Proper
<1>3. CASE a = Failing(s, "other")
  BY <1>2, <1>3, FailingIs
<1>4. CASE ~s.failed /\ a = Done(Worked(s, w))
  <2>1. a.error = None /\ a.server = Worked(s, w)
    BY <1>4 DEF Done
  <2>2. Worked(s, w) \in ServerType /\ Worked(s, w).failed = FALSE
    BY <1>2, <1>4, WorkedIs DEF ServerType
  <2> QED BY <2>1, <2>2 DEF Proper
<1> QED BY <1>1, <1>3, <1>4

\* START TRANSACTION or SAVEPOINT: not begun, or a level more.
LEMMA StartedIs ==
  ASSUME BInv, NEW b \in Blocks, NEW type, type = IF pq.state = "I" THEN "block" ELSE "savepoint",
         NEW configured \in BOOLEAN, NEW r \in Started(b, type, configured), ~Closed
  PROVE  /\ r.server \in ServerType /\ r.pq \in PqType /\ StatusOf(r.server, r.pq)
         /\ \/ Kept(server, r.server) /\ ~r.pq.closed /\ r.error # None
            \/ CutOff(server, r.server) /\ r.pq.closed /\ r.error # None
            \/ /\ ~r.pq.closed /\ r.error = None /\ r.server = Opened(server, b)
               /\ type = "block" <=> server.levels = <<>>
<1>1. server \in ServerType /\ pq \in PqType /\ StatusOf(server, pq) /\ Proper(server)
  BY DEF BInv, TypesInv, StatusOf, Proper
<1>2. CASE type = "savepoint" /\ configured
  <2>1. r = [server |-> server, pq |-> pq, error |-> "other"]
    BY <1>2 DEF Started
  <2> QED BY <1>1, <2>1, BlocksAssumption DEF Kept, Closed
<1>3. CASE ~(type = "savepoint" /\ configured)
  <2> DEFINE query == Query(IF type = "block" THEN "START TRANSACTION" ELSE "SAVEPOINT", b)
  <2>1. r \in Execute(server, pq, query)
    BY <1>3 DEF Started
  <2>2. pq.state = "I" => server.levels = <<>>
    <3>1. pq.ahead # "error" /\ pq.state = "I" => Ready(server) = "I"
      BY <1>1 DEF StatusOf, Closed
    <3>2. Ready(server) = "I" => server.levels = <<>>
      BY DEF Ready
    <3>3. pq.state = "I" => pq.ahead # "error"
      BY <1>1 DEF StatusOf
    <3> QED BY <3>1, <3>2, <3>3
  <2>3. \A a \in Answers(server, query) :
          /\ Proper(a.server)
          /\ \/ Kept(server, a.server) /\ a.error = "other"
             \/ /\ a.error = None /\ a.server = Opened(server, b)
                /\ type = "block" <=> server.levels = <<>>
    <3>1. CASE type = "block"
      BY <1>1, <2>2, <3>1, AnswersToStart
    <3>2. CASE type # "block"
      BY <1>1, <3>2, AnswersToSavepoint
    <3> QED BY <3>1, <3>2
  <2> HIDE DEF query
  <2>4. \A e \in {server} \cup {a.server : a \in Answers(server, query)} : CutOff(server, Aborted(e))
    <3>1. CutOff(server, Aborted(server)) /\ CutOff(server, Aborted(Opened(server, b)))
      <4> DEFINE o == Opened(server, b)
      <4>1. o \in ServerType /\ o.durable = server.durable
        BY <1>1, OpenedIs
      <4> HIDE DEF o
      <4>2. Aborted(server).levels = <<>> /\ Aborted(server).durable = server.durable
        BY ONLY <1>1, AbortedIs
      <4>3. Aborted(o).levels = <<>> /\ Aborted(o).durable = o.durable
        BY ONLY <4>1, AbortedIs
      <4>4. CutOff(server, Aborted(server)) /\ CutOff(server, Aborted(o))
        BY ONLY <4>1, <4>2, <4>3 DEF CutOff
      <4> QED BY <4>4 DEF o
    <3> QED BY <1>1, <2>3, <3>1, AnsweredCut DEF Proper
  <2>5. /\ r.server \in ServerType /\ r.pq \in PqType /\ StatusOf(r.server, r.pq)
        /\ \/ /\ r.server = server /\ r.error \in {"dead", "other"}
              /\ r.pq.closed = pq.closed /\ (pq.closed \/ pq.ahead = "error")
           \/ /\ ~pq.closed /\ pq.ahead # "error" /\ ~r.pq.closed /\ r.pq.ahead = None
              /\ \E a \in Answers(server, query) : r.server = a.server /\ r.error = a.error
           \/ /\ ~pq.closed /\ pq.ahead # "error" /\ r.pq.closed /\ r.error = "dead"
              /\ \E e \in {server} \cup {a.server : a \in Answers(server, query)} : r.server = Aborted(e)
    BY <1>1, <2>1, <2>3, ExecuteIs DEF Proper
  <2>6. Kept(server, server)
    BY DEF Kept
  <2> QED BY <2>3, <2>4, <2>5, <2>6, BlocksAssumption DEF Closed
<1> QED BY <1>2, <1>3

\* A new level, at the end.
LEMMA OpenedStep ==
  ASSUME BInv, NEW b \in Blocks, NEW type \in {"block", "savepoint"}, xact[b].state = "initialized",
         \A c \in Blocks : c < b => xact[c].state # "initialized",
         server' = Opened(server, b), server' \in ServerType, pq' \in PqType, StatusOf(server, pq)',
         ~Closed, ~pq'.closed, type = "block" <=> server.levels = <<>>,
         xact' = [xact EXCEPT ![b] = [state |-> "open", type |-> type]],
         withs' = Append(withs, b), did' = did, excused' = excused
  PROVE  BInv'
<1>0. PICK n \in Nat : n = Len(server.levels)
  BY LevelsAreLevels DEF BInv, TypesInv
<1>1. /\ n \in Nat /\ DOMAIN server.levels = 1..n /\ (server.levels = <<>> <=> n = 0)
      /\ \A i \in 1..n : Lev(i).xact \in Blocks
      /\ DOMAIN server'.levels = 1..(n + 1) /\ server'.durable = server.durable
      /\ \A i \in 1..n : Lev(i)' = Lev(i)
      /\ Lev(n + 1)' = [xact |-> b, work |-> {}]
  <2>1. server \in ServerType
    BY DEF BInv, TypesInv
  <2>2. /\ n \in Nat /\ DOMAIN server.levels = 1..n /\ (server.levels = <<>> <=> n = 0)
        /\ \A i \in 1..n : server.levels[i].xact \in Blocks
    BY <1>0, <2>1, LevelsAreLevels
  <2>3. /\ Len(server'.levels) = n + 1 /\ server'.durable = server.durable
        /\ \A i \in 1..n : server'.levels[i] = server.levels[i]
        /\ server'.levels[n + 1] = [xact |-> b, work |-> {}]
    BY <1>0, <2>1, OpenedIs
  <2>4. DOMAIN server'.levels = 1..Len(server'.levels)
    BY LevelsAreLevels
  <2> QED BY <2>2, <2>3, <2>4 DEF Lev
<1>2. /\ Entered' = Entered \cup {b} /\ Entered \subseteq Blocks /\ withs' \in Seq(Blocks)
      /\ \A i, j \in DOMAIN withs' : i < j => withs'[i] < b \/ (i \in DOMAIN withs /\ j \in DOMAIN withs)
      /\ \A i \in DOMAIN withs : withs'[i] = withs[i]
  <2> DEFINE m == Len(withs)
  <2>1. withs \in Seq(Blocks) /\ m \in Nat /\ DOMAIN withs = 1..m /\ \A i \in 1..m : withs[i] \in Blocks
    BY LenProperties, ElementOfSeq DEF BInv, TypesInv
  <2>2. /\ withs' \in Seq(Blocks) /\ DOMAIN withs' = 1..(m + 1)
        /\ \A i \in 1..m : withs'[i] = withs[i]
        /\ withs'[m + 1] = b
    <3>1. withs' \in Seq(Blocks) /\ Len(withs') = m + 1
      BY <2>1, AppendProperties
    <3>2. DOMAIN withs' = 1..(m + 1)
      BY <2>1, <3>1, LenProperties
    <3> QED BY <2>1, <3>1, <3>2, AppendProperties
  <2> HIDE DEF m
  <2>3. \A i \in 1..(m + 1) : i \in 1..m \/ i = m + 1
    BY <2>1
  <2>4. Entered' = Entered \cup {b}
    <3>1. Entered' = {withs'[i] : i \in 1..(m + 1)} /\ Entered = {withs[i] : i \in 1..m}
      BY <2>1, <2>2 DEF Entered
    <3>2. m + 1 \in 1..(m + 1) /\ \A i \in 1..m : i \in 1..(m + 1)
      BY <2>1
    <3> QED BY <2>2, <2>3, <3>1, <3>2
  <2>5. Entered \subseteq Blocks
    BY <2>1 DEF Entered
  <2>6. ASSUME NEW i \in 1..(m + 1), NEW j \in 1..(m + 1), i < j
        PROVE  withs'[i] < b \/ (i \in 1..m /\ j \in 1..m)
    <3>1. i \in 1..m
      BY <2>1, <2>6
    <3>2. withs[i] \in Entered /\ withs[i] \in Blocks
      BY <2>1, <3>1 DEF Entered
    <3>3. xact[withs[i]].state # "initialized"
      BY <3>2 DEF BInv, BlocksInOrder
    <3>4. ~(b < withs[i]) /\ withs[i] # b
      BY <3>2, <3>3 DEF BInv, BlocksInOrder
    <3>5. withs[i] < b
      <4>1. withs[i] \in Nat /\ b \in Nat
        BY <3>2, BlocksAssumption
      <4> QED BY <3>4, <4>1
    <3> QED BY <2>2, <3>1, <3>5
  <2> QED BY <2>1, <2>2, <2>4, <2>5, <2>6
\* Blocks are entered in the order they were made.
<1>3. ASSUME NEW c \in Blocks, xact[c].state # "initialized"
      PROVE  c < b /\ c # b /\ c \in Nat /\ b \in Nat
  <2>1. ~(b < c) /\ c # b
    BY <1>3 DEF BInv, BlocksInOrder
  <2>2. c \in Nat /\ b \in Nat
    BY BlocksAssumption
  <2> QED BY <2>1, <2>2
<1>4. /\ xact' \in [Blocks -> XactType] /\ xact'[b].state = "open" /\ xact'[b].type = type
      /\ \A c \in Blocks : c # b => xact'[c] = xact[c]
  BY DEF BInv, TypesInv, XactType
<1>5. \A d \in did : d.within \subseteq Blocks /\ \A c \in d.within : xact[c].state # "initialized" /\ c # b
  <2>1. \A d \in did : d.within \subseteq Blocks
    BY DEF BInv, TypesInv, DidType
  <2> QED BY <2>1 DEF BInv, BlocksInOrder
<1>6. TypesInv' /\ WithsOrdered'
  <2>1. WithsOrdered'
    <3> SUFFICES ASSUME NEW i \in DOMAIN withs', NEW j \in DOMAIN withs', i < j PROVE withs'[i] < withs'[j]
      BY DEF WithsOrdered
    <3>1. CASE i \in DOMAIN withs /\ j \in DOMAIN withs
      BY <1>2, <3>1 DEF BInv, WithsOrdered
    <3>2. CASE ~(i \in DOMAIN withs /\ j \in DOMAIN withs)
      <4>1. withs'[i] < b
        BY <1>2, <3>2
      <4>2. withs'[j] = b
        <5>1. withs \in Seq(Blocks)
          BY DEF BInv, TypesInv
        <5>2. DOMAIN withs' = 1..(Len(withs) + 1) /\ DOMAIN withs = 1..Len(withs) /\ Len(withs) \in Nat
          BY <5>1, AppendProperties, LenProperties
        <5>3. j = Len(withs) + 1
          BY <3>2, <5>2
        <5> QED BY <5>1, <5>3, AppendProperties
      <4> QED BY <4>1, <4>2
    <3> QED BY <3>1, <3>2
  <2> QED BY <1>2, <1>4, <2>1 DEF BInv, TypesInv
<1>7. BlocksInOrder'
  <2>1. \A c \in Blocks, e \in Blocks : c < e /\ xact'[e].state # "initialized" => xact'[c].state # "initialized"
    BY <1>4 DEF BInv, BlocksInOrder
  <2>2. \A c \in Entered' : xact'[c].state # "initialized"
    BY <1>2, <1>4 DEF BInv, BlocksInOrder
  <2>3. \A d \in did' : \A c \in d.within : xact'[c].state # "initialized"
    BY <1>4, <1>5
  <2> QED BY <2>1, <2>2, <2>3 DEF BlocksInOrder
<1>8. \A i \in 1..n : Lev(i).xact < b /\ Lev(i).xact # b
  <2>1. \A i \in 1..n : xact[Lev(i).xact].state # "initialized"
    BY <1>1 DEF BInv, LevelsOpen
  <2> QED BY <1>1, <1>3, <2>1
<1>9. \A i \in 1..(n + 1) : i \in 1..n \/ (i = n + 1 /\ i \notin 1..n)
  BY <1>1
<1>10. LevelsOrdered'
  <2> SUFFICES ASSUME NEW i \in 1..(n + 1), NEW j \in 1..(n + 1), i < j PROVE Lev(i)'.xact < Lev(j)'.xact
    BY <1>1 DEF LevelsOrdered
  <2>1. i \in 1..n
    BY <1>1
  <2>2. CASE j \in 1..n
    BY <1>1, <2>1, <2>2 DEF BInv, LevelsOrdered
  <2>3. CASE j = n + 1
    BY <1>1, <1>8, <2>1, <2>3
  <2> QED BY <1>9, <2>2, <2>3
<1>11. LevelsOpen'
  <2> SUFFICES ASSUME NEW i \in 1..(n + 1)
               PROVE  /\ xact'[Lev(i)'.xact].state = "open" /\ (xact'[Lev(i)'.xact].type = "block" <=> i = 1)
                      /\ Lev(i)'.xact \in Entered' \cup excused'
    BY <1>1 DEF LevelsOpen
  <2>1. CASE i \in 1..n
    <3>1. xact'[Lev(i).xact] = xact[Lev(i).xact] /\ Lev(i)' = Lev(i)
      BY <1>1, <1>4, <1>8, <2>1
    <3> QED BY <1>1, <1>2, <2>1, <3>1 DEF BInv, LevelsOpen
  <2>2. CASE i = n + 1
    BY <1>1, <1>2, <1>4, <2>2
  <2> QED BY <1>9, <2>1, <2>2
<1>12. NoneAbove'
  <2> SUFFICES ASSUME NEW c \in Blocks, xact'[c].state = "open", xact'[c].type = "block"
               PROVE  Lev(1)'.xact >= c
    BY DEF NoneAbove
  <2>1. CASE n = 0
    <3>1. Lev(1)'.xact = b
      BY <1>1, <2>1
    <3>2. c = b \/ c < b
      BY <1>3, <1>4
    <3>3. c \in Nat /\ b \in Nat
      BY BlocksAssumption
    <3> QED BY <3>1, <3>2, <3>3
  <2>2. CASE n # 0
    <3>1. c # b /\ xact'[c] = xact[c]
      BY <1>1, <1>4, <2>2
    <3>2. Lev(1)' = Lev(1)
      BY <1>1, <2>2
    <3> QED BY <1>1, <2>2, <3>1, <3>2 DEF BInv, NoneAbove
  <2> QED BY <2>1, <2>2
<1>13. Trusted' = Trusted /\ WorkOf' = WorkOf
  BY DEF Trusted, WorkOf
<1>14. \A i \in 1..(n + 1) : \A w \in Lev(i)'.work : i \in 1..n /\ w \in Lev(i).work
  BY <1>1, <1>9
<1>15. WorkDone'
  BY <1>1, <1>13, <1>14 DEF BInv, WorkDone
<1>16. Pending'
  <2> SUFFICES ASSUME NEW d \in Trusted, NEW i \in 1..n, d.work \in Lev(i).work
               PROVE  /\ d.work \notin server.durable /\ \A j \in 1..i : Lev(j)'.xact \in d.within
                      /\ \A c \in d.within : xact'[c].state = "committed" \/ \E j \in 1..i : Lev(j)'.xact = c
    BY <1>1, <1>13, <1>14 DEF Pending
  <2>1. /\ d.work \notin server.durable /\ \A j \in 1..i : Lev(j).xact \in d.within
        /\ \A c \in d.within : xact[c].state = "committed" \/ \E j \in 1..i : Lev(j).xact = c
    BY <1>1 DEF BInv, Pending
  <2>2. \A j \in 1..i : j \in 1..n
    BY <1>1
  <2>3. \A c \in d.within : xact'[c] = xact[c]
    BY <1>4, <1>5 DEF Trusted
  <2> QED BY <1>1, <2>1, <2>2, <2>3
<1>17. DurableTold'
  BY <1>1, <1>4, <1>5, <1>13 DEF BInv, DurableTold, Trusted, Closed
<1>18. LostTold'
  <2> SUFFICES ASSUME NEW d \in Trusted, d.work \notin server.durable,
                      \A i \in 1..(n + 1) : d.work \notin Lev(i)'.work
               PROVE  \E c \in d.within : Lost(c)'
    BY <1>1, <1>13 DEF LostTold
  <2>1. \A i \in 1..n : d.work \notin Lev(i).work
    <3>1. \A i \in 1..n : i \in 1..(n + 1)
      BY <1>1
    <3> QED BY <1>1, <3>1
  <2>2. PICK c \in d.within : Lost(c)
    BY <1>1, <2>1 DEF BInv, LostTold
  <2>3. c # b /\ c \in Blocks /\ xact'[c] = xact[c]
    BY <1>4, <1>5 DEF Trusted
  <2>4. Lost(c)'
    BY <1>2, <2>2, <2>3 DEF Lost, Closed
  <2> QED BY <2>4
<1> QED BY <1>6, <1>7, <1>10, <1>11, <1>12, <1>15, <1>16, <1>17, <1>18 DEF BInv

LEMMA StartStep ==
  ASSUME BInv, NEW b \in Blocks, Start(b)
  PROVE  BInv'
<1> DEFINE type == IF pq.state = "I" THEN "block" ELSE "savepoint"
<1>0. PICK configured \in BOOLEAN : \E r \in Started(b, type, configured) :
        /\ server' = r.server /\ pq' = r.pq
        /\ xact' = [xact EXCEPT ![b] = [state |-> IF r.error = None THEN "open" ELSE "initialized", type |-> type]]
        /\ withs' = IF r.error = None THEN Append(withs, b) ELSE withs
  BY DEF Start
<1>1. PICK r \in Started(b, type, configured) :
        /\ server' = r.server /\ pq' = r.pq
        /\ xact' = [xact EXCEPT ![b] = [state |-> IF r.error = None THEN "open" ELSE "initialized", type |-> type]]
        /\ withs' = IF r.error = None THEN Append(withs, b) ELSE withs
  BY <1>0
<1>2. /\ xact[b].state = "initialized" /\ ~Closed /\ did' = did /\ excused' = excused
      /\ \A c \in Blocks : c < b => xact[c].state # "initialized"
  BY DEF Start
<1>3. /\ r.server \in ServerType /\ r.pq \in PqType /\ StatusOf(r.server, r.pq)
      /\ \/ Kept(server, r.server) /\ ~r.pq.closed /\ r.error # None
         \/ CutOff(server, r.server) /\ r.pq.closed /\ r.error # None
         \/ /\ ~r.pq.closed /\ r.error = None /\ r.server = Opened(server, b)
            /\ type = "block" <=> server.levels = <<>>
  BY <1>1, <1>2, StartedIs
<1>4. type \in {"block", "savepoint"} /\ xact \in [Blocks -> XactType]
  BY DEF BInv, TypesInv
<1> HIDE DEF type
<1>5. CASE r.error # None
  <2>1. xact' = [xact EXCEPT ![b] = [state |-> "initialized", type |-> type]] /\ withs' = withs
    BY <1>1, <1>5
  <2>2. /\ xact' \in [Blocks -> XactType]
        /\ \A c \in Blocks :
             /\ xact'[c].state = xact[c].state
             /\ xact[c].state # "initialized" => xact'[c] = xact[c]
    BY <1>2, <1>4, <2>1 DEF XactType
  <2> QED BY <1>1, <1>2, <1>3, <1>5, <2>1, <2>2, QuietStep DEF Closed
<1>6. CASE r.error = None
  <2>1. xact' = [xact EXCEPT ![b] = [state |-> "open", type |-> type]] /\ withs' = Append(withs, b)
    BY <1>1, <1>6
  <2> QED BY <1>1, <1>2, <1>3, <1>4, <1>6, <2>1, OpenedStep
<1> QED BY <1>5, <1>6

\* A statement that succeeds: its work is at the last level, inside all blocks that are open there.
LEMMA WorkedStep ==
  ASSUME BInv, NEW w \in Nat, w \notin WorkOf, server' = Worked(server, w),
         server' \in ServerType, pq' \in PqType, StatusOf(server, pq)', ~Closed, ~pq'.closed,
         did' = did \cup {[work |-> w, within |-> {server.levels[i].xact : i \in DOMAIN server.levels}]},
         xact' = xact, withs' = withs, excused' = excused
  PROVE  BInv'
<1> DEFINE d0 == [work |-> w, within |-> {server.levels[i].xact : i \in DOMAIN server.levels}]
<1>0. PICK n \in Nat : n = Len(server.levels)
  BY LevelsAreLevels DEF BInv, TypesInv
<1>1. /\ DOMAIN server.levels = 1..n /\ (server.levels = <<>> <=> n = 0)
      /\ \A i \in 1..n : Lev(i).xact \in Blocks
      /\ DOMAIN server'.levels = 1..n /\ (server'.levels = <<>> <=> n = 0)
      /\ server'.durable = IF n = 0 THEN server.durable \cup {w} ELSE server.durable
      /\ \A i \in 1..n : /\ Lev(i)'.xact = Lev(i).xact
                        /\ Lev(i)'.work = IF i = n THEN Lev(i).work \cup {w} ELSE Lev(i).work
  <2>1. server \in ServerType
    BY DEF BInv, TypesInv
  <2>2. /\ DOMAIN server.levels = 1..n /\ (server.levels = <<>> <=> n = 0)
        /\ \A i \in 1..n : server.levels[i].xact \in Blocks
    BY <1>0, <2>1, LevelsAreLevels
  <2>3. /\ Len(server'.levels) = n
        /\ server'.durable = IF n = 0 THEN server.durable \cup {w} ELSE server.durable
        /\ \A i \in 1..n :
             /\ server'.levels[i].xact = server.levels[i].xact
             /\ server'.levels[i].work = IF i = n THEN server.levels[i].work \cup {w} ELSE server.levels[i].work
    <3>1. /\ Len(server'.levels) = Len(server.levels)
          /\ server'.durable = IF server.levels = <<>> THEN server.durable \cup {w} ELSE server.durable
          /\ \A i \in DOMAIN server.levels :
               /\ server'.levels[i].xact = server.levels[i].xact
               /\ server'.levels[i].work =
                    IF i = Len(server.levels) THEN server.levels[i].work \cup {w} ELSE server.levels[i].work
      BY <2>1, WorkedIs
    <3> QED BY <1>0, <2>2, <3>1
  <2>4. DOMAIN server'.levels = 1..n /\ (server'.levels = <<>> <=> n = 0)
    BY <2>3, LevelsAreLevels
  <2> QED BY <2>2, <2>3, <2>4 DEF Lev
<1>2. /\ d0.work = w /\ d0.within \subseteq Blocks /\ d0 \in DidType
      /\ \A c : c \in d0.within <=> \E i \in 1..n : Lev(i).xact = c
  <2>1. {server.levels[i].xact : i \in DOMAIN server.levels} = {Lev(i).xact : i \in 1..n}
    BY <1>1 DEF Lev
  <2>2. d0.work = w /\ d0.within = {Lev(i).xact : i \in 1..n}
    BY <2>1
  <2>3. d0.within \subseteq Blocks
    BY <1>1, <2>2
  <2>4. d0 \in DidType
    BY <2>2, <2>3 DEF DidType
  <2> QED BY <2>2, <2>3, <2>4
<1>3. did' = did \cup {d0}
  OBVIOUS
<1> HIDE DEF d0
<1>4. /\ Entered' = Entered /\ WithsOrdered' /\ TypesInv' /\ ~Closed'
      /\ \A d \in did' : d \in did \/ d = d0
      /\ \A d \in Trusted' : d \in Trusted \/ d = d0
  BY <1>2, <1>3 DEF BInv, TypesInv, WithsOrdered, Entered, Trusted, Closed
<1>5. WorkOf' = WorkOf \cup {w} /\ \A d \in Trusted : d.work \in WorkOf /\ d.work # w
  BY <1>2, <1>3 DEF WorkOf, Trusted
<1>6. BlocksInOrder'
  <2>1. \A c \in d0.within : xact[c].state # "initialized"
    BY <1>1, <1>2 DEF BInv, LevelsOpen
  <2> QED BY <1>4, <2>1 DEF BInv, BlocksInOrder
<1>7. LevelsOrdered' /\ LevelsOpen' /\ NoneAbove'
  <2>1. LevelsOrdered'
    <3> SUFFICES ASSUME NEW i \in 1..n, NEW j \in 1..n, i < j PROVE Lev(i)'.xact < Lev(j)'.xact
      BY <1>1 DEF LevelsOrdered
    <3>1. Lev(i).xact < Lev(j).xact
      BY <1>1 DEF BInv, LevelsOrdered
    <3> QED BY <1>1, <3>1
  <2>2. LevelsOpen'
    <3> SUFFICES ASSUME NEW i \in 1..n
                 PROVE  /\ xact[Lev(i)'.xact].state = "open" /\ (xact[Lev(i)'.xact].type = "block" <=> i = 1)
                        /\ Lev(i)'.xact \in Entered' \cup excused'
      BY <1>1 DEF LevelsOpen
    <3>1. Lev(i)'.xact = Lev(i).xact
      BY <1>1
    <3> QED BY <1>1, <1>4, <3>1 DEF BInv, LevelsOpen
  <2>3. NoneAbove'
    <3> SUFFICES ASSUME NEW c \in Blocks, xact[c].state = "open", xact[c].type = "block", n # 0
                 PROVE  Lev(1)'.xact >= c
      BY <1>1 DEF NoneAbove
    <3>1. 1 \in 1..n
      OBVIOUS
    <3>2. Lev(1)'.xact = Lev(1).xact
      BY <1>1, <3>1
    <3> QED BY <1>1, <3>2 DEF BInv, NoneAbove
  <2> QED BY <2>1, <2>2, <2>3
<1>8. /\ server.durable \subseteq WorkOf /\ w \notin server.durable
      /\ \A i \in 1..n : Lev(i).work \subseteq WorkOf /\ w \notin Lev(i).work
  BY <1>1 DEF BInv, WorkDone
<1>9. WorkDone'
  BY <1>1, <1>5, <1>8 DEF WorkDone
<1>10. Pending'
  <2> SUFFICES ASSUME NEW d \in Trusted', NEW i \in 1..n, d.work \in Lev(i)'.work
               PROVE  /\ d.work \notin server'.durable /\ \A j \in 1..i : Lev(j)'.xact \in d.within
                      /\ \A c \in d.within : xact[c].state = "committed" \/ \E j \in 1..i : Lev(j)'.xact = c
    BY <1>1 DEF Pending
  <2>1. n # 0 /\ server'.durable = server.durable /\ \A j \in 1..i : j \in 1..n /\ Lev(j)'.xact = Lev(j).xact
    <3>1. n # 0 /\ \A j \in 1..i : j \in 1..n
      OBVIOUS
    <3> QED BY <1>1, <3>1
  <2>2. CASE d \in Trusted
    <3>1. d.work \in Lev(i).work
      BY <1>1, <1>5, <2>2
    <3>2. /\ d.work \notin server.durable /\ \A j \in 1..i : Lev(j).xact \in d.within
          /\ \A c \in d.within : xact[c].state = "committed" \/ \E j \in 1..i : Lev(j).xact = c
      BY <1>1, <2>2, <3>1 DEF BInv, Pending
    <3> QED BY <2>1, <3>2
  <2>3. CASE d = d0
    <3>1. i = n
      BY <1>1, <1>2, <1>8, <2>3
    <3> QED BY <1>2, <1>8, <2>1, <2>3, <3>1
  <2> QED BY <1>4, <2>2, <2>3
<1>11. DurableTold'
  <2> SUFFICES ASSUME NEW d \in Trusted', d.work \in server'.durable, NEW c \in d.within
               PROVE  xact[c].state = "committed"
    BY DEF DurableTold
  <2>1. CASE d \in Trusted
    <3>1. d.work \in server.durable
      BY <1>1, <1>5, <2>1
    <3> QED BY <2>1, <3>1 DEF BInv, DurableTold
  <2>2. CASE d = d0
    <3>1. n = 0
      BY <1>1, <1>2, <1>8, <2>2
    <3> QED BY <1>2, <2>2, <3>1
  <2> QED BY <1>4, <2>1, <2>2
<1>12. LostTold'
  <2> SUFFICES ASSUME NEW d \in Trusted', d.work \notin server'.durable,
                      \A i \in 1..n : d.work \notin Lev(i)'.work
               PROVE  \E c \in d.within : Lost(c)'
    BY <1>1 DEF LostTold
  <2>1. CASE d \in Trusted
    <3>1. d.work \notin server.durable /\ \A i \in 1..n : d.work \notin Lev(i).work
      BY <1>1
    <3>2. PICK c \in d.within : Lost(c)
      BY <1>1, <2>1, <3>1 DEF BInv, LostTold
    <3>3. Lost(c)'
      BY <1>4, <3>2 DEF Lost
    <3> QED BY <3>3
  <2>2. CASE d = d0
    <3>1. n # 0 => n \in 1..n
      OBVIOUS
    <3> QED BY <1>1, <1>2, <2>2, <3>1
  <2> QED BY <1>4, <2>1, <2>2
<1> QED BY <1>4, <1>6, <1>7, <1>9, <1>10, <1>11, <1>12 DEF BInv

LEMMA StatementStep ==
  ASSUME BInv, NEW w \in 1..MaxWork, Statement(w)
  PROVE  BInv'
<1> DEFINE query == [text |-> "statement", work |-> w]
<1>1. PICK r \in Execute(server, pq, query) :
        /\ server' = r.server /\ pq' = r.pq
        /\ did' = IF r.error = None
                    THEN did \cup {[work |-> w, within |-> {server.levels[i].xact : i \in DOMAIN server.levels}]}
                    ELSE did
  BY DEF Statement
<1>2. ~Closed /\ WorkOf = 1..(w - 1) /\ xact' = xact /\ withs' = withs /\ excused' = excused /\ w \in Nat
  BY BlocksAssumption DEF Statement, WorkOf
<1>3. w \notin WorkOf
  BY <1>2
<1>4. server \in ServerType /\ pq \in PqType /\ StatusOf(server, pq) /\ Proper(server) /\ xact' \in [Blocks -> XactType]
  BY <1>2 DEF BInv, TypesInv, StatusOf, Proper
<1>5. \A a \in Answers(server, query) :
        /\ Proper(a.server)
        /\ \/ Kept(server, a.server) /\ a.error = "other"
           \/ a.error = None /\ a.server = Worked(server, w)
  BY <1>2, <1>4, AnswersToStatement
<1> HIDE DEF query
<1>6. \A e \in {server} \cup {a.server : a \in Answers(server, query)} : CutOff(server, Aborted(e))
  <2>1. CutOff(server, Aborted(server))
    BY <1>4, AbortedIs DEF CutOff
  <2>2. CutOff(server, Aborted(Worked(server, w)))
    <3>1. Worked(server, w) \in ServerType /\ server.durable \subseteq Worked(server, w).durable
      BY <1>2, <1>4, WorkedIs
    <3> QED BY <3>1, AbortedIs DEF CutOff
  <2> QED BY <1>4, <1>5, <2>1, <2>2, AnsweredCut DEF Proper
<1>7. /\ r.server \in ServerType /\ r.pq \in PqType /\ StatusOf(r.server, r.pq)
      /\ \/ /\ r.server = server /\ r.error \in {"dead", "other"}
            /\ r.pq.closed = pq.closed /\ (pq.closed \/ pq.ahead = "error")
         \/ /\ ~pq.closed /\ pq.ahead # "error" /\ ~r.pq.closed /\ r.pq.ahead = None
            /\ \E a \in Answers(server, query) : r.server = a.server /\ r.error = a.error
         \/ /\ ~pq.closed /\ pq.ahead # "error" /\ r.pq.closed /\ r.error = "dead"
            /\ \E e \in {server} \cup {a.server : a \in Answers(server, query)} : r.server = Aborted(e)
  BY <1>1, <1>4, <1>5, ExecuteIs DEF Proper
<1>8. Kept(server, server)
  BY DEF Kept
<1>9. \/ Kept(server, r.server) /\ ~r.pq.closed /\ r.error # None
      \/ CutOff(server, r.server) /\ r.pq.closed /\ r.error # None
      \/ ~r.pq.closed /\ r.error = None /\ r.server = Worked(server, w)
  BY <1>2, <1>5, <1>6, <1>7, <1>8, BlocksAssumption DEF Closed
<1>10. CASE r.error # None
  <2>1. \A c \in Blocks : xact'[c].state = xact[c].state /\ (xact[c].state # "initialized" => xact'[c] = xact[c])
    BY <1>2
  <2> QED BY <1>1, <1>2, <1>4, <1>7, <1>9, <1>10, <2>1, QuietStep DEF Closed
<1>11. CASE r.error = None
  BY <1>1, <1>2, <1>3, <1>7, <1>9, <1>11, WorkedStep
<1> QED BY <1>10, <1>11

LEMMA RequestAheadStep == BInv /\ RequestAhead => BInv'
<1> SUFFICES ASSUME BInv, RequestAhead PROVE BInv'
  OBVIOUS
<1>1. PICK answer \in {"rows", "error"} :
        /\ pq' = [pq EXCEPT !.ahead = answer]
        /\ server' = [server EXCEPT !.failed = answer = "error"]
  BY DEF RequestAhead
<1>2. /\ pq.state = "T" /\ pq.ahead = None /\ ~pq.closed
      /\ xact' = xact /\ withs' = withs /\ did' = did /\ excused' = excused
  BY DEF RequestAhead, Closed
<1>3. server \in ServerType /\ pq \in PqType /\ xact \in [Blocks -> XactType]
  BY DEF BInv, TypesInv
<1>4. Ready(server) = "T" /\ server.levels # <<>>
  <2>1. Ready(server) = "T"
    BY <1>2, BlocksAssumption DEF BInv, StatusOf
  <2> QED BY <2>1 DEF Ready
<1>5. /\ server' \in ServerType /\ server'.levels = server.levels /\ server'.durable = server.durable
      /\ (server'.failed <=> answer = "error")
  <2>1. (answer = "error") \in BOOLEAN
    OBVIOUS
  <2> QED BY <1>1, <1>3, <2>1 DEF ServerType
<1>6. pq' \in PqType /\ pq'.state = "T" /\ pq'.ahead = answer /\ ~pq'.closed
  BY <1>1, <1>2, <1>3 DEF PqType
<1>7. StatusOf(server, pq)'
  BY <1>4, <1>5, <1>6 DEF StatusOf, Ready
<1>8. Kept(server, server') /\ (pq'.closed <=> Closed)
  BY <1>2, <1>5, <1>6 DEF Kept, Closed
<1>9. \A c \in Blocks : xact'[c].state = xact[c].state /\ (xact[c].state # "initialized" => xact'[c] = xact[c])
  BY <1>2
<1> QED BY <1>2, <1>3, <1>5, <1>6, <1>7, <1>8, <1>9, QuietStep

LEMMA BInvStep == BInv /\ [BlocksNext]_blockVars => BInv'
<1> SUFFICES ASSUME BInv, [BlocksNext]_blockVars PROVE BInv'
  OBVIOUS
<1>1. ASSUME NEW b \in Blocks, Start(b) PROVE BInv'
  BY <1>1, StartStep
<1>2. ASSUME NEW w \in 1..MaxWork, Statement(w) PROVE BInv'
  BY <1>2, StatementStep
<1>3. CASE RequestAhead
  BY <1>3, RequestAheadStep
<1>4. ASSUME withs # <<>>, NEW b, b = Last(withs), CommitCalled(b) PROVE BInv'
  BY <1>4, CommitCalledStep
<1>5. ASSUME withs # <<>>, NEW b, b = Last(withs), RollbackCalled(b) PROVE BInv'
  BY <1>5, RollbackCalledStep
<1>6. ASSUME withs # <<>>, NEW b, b = Last(withs),
             NEW typ \in {"none", "exception", "BaseException"}, ExitBlock(b, typ)
      PROVE  BInv'
  BY <1>6, ExitBlockStep
<1>7. CASE UNCHANGED blockVars
  <2>1. server' = server /\ pq' = pq /\ xact' = xact /\ withs' = withs /\ did' = did /\ excused' = excused
    BY <1>7 DEF blockVars
  <2>2. server \in ServerType /\ pq \in PqType /\ xact \in [Blocks -> XactType] /\ StatusOf(server, pq)'
    BY <2>1 DEF BInv, TypesInv, StatusOf
  <2> QED BY <2>1, <2>2, QuietStep DEF Kept, Closed
<1> QED BY <1>1, <1>2, <1>3, <1>4, <1>5, <1>6, <1>7 DEF BlocksNext

-----------------------------------------------------------------------------
(* The theorems *)

\* What the blocks say of themselves is what became of their statements: when no transaction is open at
\* the server, a statement's work is durable if all blocks around it say "committed", and only then,
\* but for a connection lost under a COMMIT.  Transaction.__exit__ relies on commit() and rollback() for it.
THEOREM BlocksTellTheTruth == BlocksSpec => []DurableAsTold
<1>1. BlocksInit => BInv
  BY BInvInit
<1>2. BInv /\ [BlocksNext]_blockVars => BInv'
  BY BInvStep
<1>3. BInv => DurableAsTold
  <2> SUFFICES ASSUME BInv, server.levels = <<>>, NEW d \in Trusted
               PROVE  /\ (\A b \in d.within : xact[b].state = "committed") => d.work \in server.durable
                      /\ d.work \in server.durable => (\A b \in d.within : xact[b].state = "committed") \/ Closed
    BY DEF DurableAsTold, Trusted
  <2>1. DOMAIN server.levels = {}
    BY EmptySeq
  <2>2. d.work \notin server.durable => \E b \in d.within : Lost(b)
    BY <2>1 DEF BInv, LostTold
  <2>3. \A b : Lost(b) => xact[b].state # "committed"
    BY DEF Lost
  <2> QED BY <2>2, <2>3 DEF BInv, DurableTold
<1> QED BY <1>1, <1>2, <1>3, PTL DEF BlocksSpec

\* When the outermost with statement has ended, the server holds no transaction open but one of a block
\* that was left by a hard exit, a pending error, or a refused commit().
THEOREM BlocksEnd == BlocksSpec => []BlockEnds
<1>1. BlocksInit => BInv
  BY BInvInit
<1>2. BInv /\ [BlocksNext]_blockVars => BInv'
  BY BInvStep
<1>3. BInv => BlockEnds
  <2> SUFFICES ASSUME BInv, withs = <<>>, server.levels # <<>>
               PROVE  \E i \in DOMAIN server.levels : server.levels[i].xact \in excused
    BY DEF BlockEnds
  <2>1. Entered = {}
    BY EmptySeq DEF Entered
  <2>2. 1 \in DOMAIN server.levels
    BY LevelsAreLevels DEF BInv, TypesInv
  <2>3. Lev(1).xact \in excused
    BY <2>1, <2>2 DEF BInv, LevelsOpen
  <2> QED BY <2>2, <2>3 DEF Lev
<1> QED BY <1>1, <1>2, <1>3, PTL DEF BlocksSpec
===============================================================================
