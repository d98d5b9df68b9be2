--------------------- MODULE ProtocolTransactionProofs --------------------
(***************************************************************************)
(* Lemmas about one protocol transaction and the server that answers it    *)
(* (ProtocolConnection, Instruction), for every batch and every result     *)
(* that the assumptions of ProtocolConnection allow.                       *)
(*                                                                         *)
(* The sections in turn: hook as facts; how messages move a transaction    *)
(* from place to place (Track, Leads); what standard_put and the fast      *)
(* paths make of a group of messages; what the server's answers do; Live,  *)
(* which says that what was sent and not yet read leads the transaction to *)
(* the place from which the server goes on, and what reading, sending,     *)
(* answering and losing do to it; the transactions that are not live.      *)
(***************************************************************************)
EXTENDS ProtocolConnection, InductionLemmas, SequenceTheorems

(* The hook as facts, so that no proof needs its table.                    *)

Extended == {"Parse", "Bind", "Describe", "Close", "Execute"}
Answered == Extended \cup {"Query", "Synchronize"}

\* The steps of a command.
Steps(type) == {k \in 0 .. 3 : k + 1 \in DOMAIN hook[type]}

LEMMA StepsAre ==
  /\ Steps("Query") = 0 .. 3 /\ Steps("Execute") = 0 .. 3
  /\ Steps("Parse") = {0} /\ Steps("Bind") = {0} /\ Steps("Close") = {0}
  /\ Steps("Synchronize") = {0} /\ Steps("Describe") = {0, 1}
<1>1. DOMAIN hook["Query"] = 1 .. 4 /\ DOMAIN hook["Execute"] = 1 .. 4
  BY DEF hook
<1>2. /\ DOMAIN hook["Parse"] = 1 .. 1 /\ DOMAIN hook["Bind"] = 1 .. 1 /\ DOMAIN hook["Close"] = 1 .. 1
      /\ DOMAIN hook["Synchronize"] = 1 .. 1 /\ DOMAIN hook["Describe"] = 1 .. 2
  BY DEF hook
<1> QED BY <1>1, <1>2 DEF Steps

LEMMA QueryHook ==
  /\ DOMAIN hook["Query"][1] = {"TupleDescriptor", "Null", "Complete", "CopyToBegin", "CopyFromBegin", "Ready"}
  /\ DOMAIN hook["Query"][2] = {"Complete"}
  /\ DOMAIN hook["Query"][3] = {"CopyData", "CopyDone"}
  /\ DOMAIN hook["Query"][4] = {"Tuple", "Complete", "Ready"}
  /\ hook["Query"][1]["TupleDescriptor"] = 3 /\ hook["Query"][1]["Null"] = 0
  /\ hook["Query"][1]["Complete"] = 0 /\ hook["Query"][1]["CopyToBegin"] = 2
  /\ hook["Query"][1]["CopyFromBegin"] = 1 /\ hook["Query"][1]["Ready"] = End
  /\ hook["Query"][2]["Complete"] = 0
  /\ hook["Query"][3]["CopyData"] = 2 /\ hook["Query"][3]["CopyDone"] = 1
  /\ hook["Query"][4]["Tuple"] = 3 /\ hook["Query"][4]["Complete"] = 0
  /\ hook["Query"][4]["Ready"] = End
BY DEF hook

LEMMA ExecuteHook ==
  /\ DOMAIN hook["Execute"][1] = {"Tuple", "CopyToBegin", "CopyFromBegin", "Null", "Complete"}
  /\ DOMAIN hook["Execute"][2] = {"Tuple", "Suspension", "Complete"}
  /\ DOMAIN hook["Execute"][3] = {"CopyData", "CopyDone"}
  /\ DOMAIN hook["Execute"][4] = {"Complete"}
  /\ hook["Execute"][1]["Tuple"] = 1 /\ hook["Execute"][1]["CopyToBegin"] = 2
  /\ hook["Execute"][1]["CopyFromBegin"] = 3 /\ hook["Execute"][1]["Null"] = End
  /\ hook["Execute"][1]["Complete"] = End
  /\ hook["Execute"][2]["Tuple"] = 1 /\ hook["Execute"][2]["Suspension"] = End
  /\ hook["Execute"][2]["Complete"] = End
  /\ hook["Execute"][3]["CopyData"] = 2 /\ hook["Execute"][3]["CopyDone"] = 3
  /\ hook["Execute"][4]["Complete"] = End
BY DEF hook

LEMMA OtherHooks ==
  /\ DOMAIN hook["Parse"][1] = {"ParseComplete"} /\ hook["Parse"][1]["ParseComplete"] = End
  /\ DOMAIN hook["Bind"][1] = {"BindComplete"} /\ hook["Bind"][1]["BindComplete"] = End
  /\ DOMAIN hook["Close"][1] = {"CloseComplete"} /\ hook["Close"][1]["CloseComplete"] = End
  /\ DOMAIN hook["Synchronize"][1] = {"Ready"} /\ hook["Synchronize"][1]["Ready"] = End
  /\ DOMAIN hook["Describe"][1] = {"AttributeTypes", "TupleDescriptor"}
  /\ hook["Describe"][1]["AttributeTypes"] = 1 /\ hook["Describe"][1]["TupleDescriptor"] = End
  /\ DOMAIN hook["Describe"][2] = {"NoData", "TupleDescriptor"}
  /\ hook["Describe"][2]["NoData"] = End /\ hook["Describe"][2]["TupleDescriptor"] = End
BY DEF hook

LEMMA HookDomain ==
  DOMAIN hook = {"Query", "Function", "Parse", "Bind", "Describe", "Close", "Execute", "Synchronize", "Flush"}
BY DEF hook

\* What a step of a command can get, and where it goes.
LEMMA HookGoes ==
  ASSUME NEW type \in Answered, NEW k \in Steps(type), NEW m \in DOMAIN hook[type][k + 1]
  PROVE  /\ m \in Replies /\ m \notin AsynchronousMap \cup {"Error", "FatalError"}
         /\ hook[type][k + 1][m] \in {End} \cup Steps(type)
         /\ type \in {"Query", "Synchronize"} => (m = "Ready") = (hook[type][k + 1][m] = End)
         /\ type \in Extended => m # "Ready"
         /\ m = "Tuple" => \/ type = "Query" /\ hook[type][k + 1][m] = 3
                           \/ type = "Execute" /\ hook[type][k + 1][m] = 1
         /\ m = "CopyData" => k = 2
         /\ m \in {"CopyData", "CopyToBegin"} =>
              type \in {"Query", "Execute"} /\ hook[type][k + 1][m] = 2
         /\ m = "CopyFromBegin" => \/ type = "Query" /\ hook[type][k + 1][m] = 1
                                   \/ type = "Execute" /\ hook[type][k + 1][m] = 3
<1> USE DEF Replies, AsynchronousMap, Extended, End
<1>1. CASE type = "Query"
  <2>1. k \in 0 .. 3
    BY <1>1, StepsAre
  <2>2. Steps(type) = 0 .. 3
    BY <1>1, StepsAre
  <2>3. CASE k = 0
    BY <1>1, <2>2, <2>3, QueryHook
  <2>4. CASE k = 1
    BY <1>1, <2>2, <2>4, QueryHook
  <2>5. CASE k = 2
    BY <1>1, <2>2, <2>5, QueryHook
  <2>6. CASE k = 3
    BY <1>1, <2>2, <2>6, QueryHook
  <2> QED BY <2>1, <2>3, <2>4, <2>5, <2>6
<1>2. CASE type = "Execute"
  <2>1. k \in 0 .. 3
    BY <1>2, StepsAre
  <2>2. Steps(type) = 0 .. 3
    BY <1>2, StepsAre
  <2>3. CASE k = 0
    BY <1>2, <2>2, <2>3, ExecuteHook
  <2>4. CASE k = 1
    BY <1>2, <2>2, <2>4, ExecuteHook
  <2>5. CASE k = 2
    BY <1>2, <2>2, <2>5, ExecuteHook
  <2>6. CASE k = 3
    BY <1>2, <2>2, <2>6, ExecuteHook
  <2> QED BY <2>1, <2>3, <2>4, <2>5, <2>6
<1>3. CASE type = "Describe"
  <2>1. k \in {0, 1} /\ Steps(type) = {0, 1}
    BY <1>3, StepsAre
  <2>2. CASE k = 0
    BY <1>3, <2>1, <2>2, OtherHooks
  <2>3. CASE k = 1
    BY <1>3, <2>1, <2>3, OtherHooks
  <2> QED BY <2>1, <2>2, <2>3
<1>4. CASE type \in {"Parse", "Bind", "Close", "Synchronize"}
  <2>1. k = 0
    BY <1>4, StepsAre
  <2> QED BY <1>4, <2>1, OtherHooks
<1> QED BY <1>1, <1>2, <1>3, <1>4 DEF Answered

LEMMA FirstStep ==
  ASSUME NEW type \in Answered
  PROVE  type \in DOMAIN hook /\ hook[type] # <<>> /\ 0 \in Steps(type) /\ Steps(type) \subseteq 0 .. 3
<1>1. 0 \in Steps(type) /\ Steps(type) \subseteq 0 .. 3
  BY StepsAre DEF Answered, Extended
<1>2. hook[type] # <<>>
  <2>1. 1 \in DOMAIN hook[type]
    BY <1>1 DEF Steps
  <2>2. DOMAIN <<>> = {}
    OBVIOUS
  <2> QED BY <2>1, <2>2
<1> QED BY <1>1, <1>2, HookDomain DEF Answered, Extended

-----------------------------------------------------------------------------
(* Batches, messages, and how a message moves a transaction.               *)

Ids == Nat \X Nat
Statuses == {"I", "T", "E"}

Messages == {m \in [type : Replies \cup AsynchronousMap \cup {"Error", "FatalError"},
                    of : Ids \cup Payloads \cup {None}, tx : Statuses \cup {None}] :
  /\ (m.type = "Ready") = (m.tx # None)
  /\ m.type \notin AsynchronousMap => m.of \in Ids \cup {None}
  /\ m.type \in Replies \cup {"Error"} => m.of \in Ids}

CopyBegins == \E types \in ExecuteResults : types # <<>> /\ Last(types) = "CopyFromBegin"

\* The commands of a batch with this number: the last one, and no other, ends
\* with Ready.
CommandsOf(c, n) ==
  /\ c \in Seq([type : Answered, id : Ids]) /\ Len(c) >= 1 /\ n \in Nat
  /\ \A i \in 1 .. Len(c) : c[i].id = <<n, i>>
  /\ \A i \in 1 .. Len(c) - 1 : c[i].type \in Extended
  /\ c[Len(c)].type \in {"Query", "Synchronize"}
  /\ c[Len(c)].type = "Query" => Len(c) = 1
  /\ CopyBegins => \A i \in 1 .. Len(c) - 2 : c[i].type # "Execute"

WellFormed(x) == CommandsOf(x.commands, x.number)

\* Where a transaction is: at a step of a command, or behind all of them.
Places(c) == {p \in [offset : 1 .. Len(c) + 1, step : 0 .. 3] :
                IF p.offset <= Len(c) THEN p.step \in Steps(c[p.offset].type) ELSE p.step = 0}
At(offset, step) == [offset |-> offset, step |-> step]
Place(x) == At(x.offset, x.step)

Aside(m) == IsAsync(m) \/ m.type = "FatalError"
Quiet(s) == \A i \in 1 .. Len(s) : Aside(s[i])

\* Where the reply takes it.
After(c, p, type) ==
  LET next == hook[c[p.offset].type][p.step + 1][type]
  IN  IF next = End THEN At(p.offset + 1, 0) ELSE At(p.offset, next)

Answers1(c, p, m) ==
  /\ p.offset <= Len(c) /\ m.of = c[p.offset].id
  /\ m.type \in DOMAIN hook[c[p.offset].type][p.step + 1]

Moves(c, p, m, q) ==
  \/ Aside(m) /\ q = p
  \/ /\ m.type = "Error" /\ p.offset <= Len(c) /\ q = At(Len(c), 0)
     /\ \E i \in 1 .. Len(c) : m.of = c[i].id
  \/ Answers1(c, p, m) /\ q = After(c, p, m.type)

Track(c, p, s, at) ==
  /\ at \in [0 .. Len(s) -> Places(c)] /\ at[0] = p
  /\ \A k \in 1 .. Len(s) : Moves(c, at[k - 1], s[k], at[k])

\* The messages s take a transaction of the commands c from p to e.
Leads(c, p, s, e) == \E at : Track(c, p, s, at) /\ at[Len(s)] = e

LEMMA PlaceType ==
  ASSUME NEW c, NEW n, CommandsOf(c, n), NEW p \in Places(c), p.offset <= Len(c)
  PROVE  /\ Len(c) \in Nat /\ Len(c) >= 1
         /\ p.offset \in 1 .. Len(c) /\ c[p.offset] \in [type : Answered, id : Ids]
         /\ c[p.offset].type \in Answered /\ c[p.offset].id \in Ids
         /\ p.step \in Steps(c[p.offset].type) /\ p = At(p.offset, p.step)
         /\ p.step \in 0 .. 3
<1>1. c \in Seq([type : Answered, id : Ids]) /\ Len(c) \in Nat
  BY DEF CommandsOf
<1>2. p.offset \in 1 .. Len(c)
  BY <1>1 DEF Places
<1>3. c[p.offset] \in [type : Answered, id : Ids]
  BY <1>1, <1>2, ElementOfSeq
<1> QED BY <1>1, <1>2, <1>3 DEF Places, At, CommandsOf

LEMMA EndPlaces ==
  ASSUME NEW c, NEW n, CommandsOf(c, n)
  PROVE  /\ At(1, 0) \in Places(c) /\ At(Len(c), 0) \in Places(c) /\ At(Len(c) + 1, 0) \in Places(c)
         /\ \A o \in 1 .. Len(c) + 1 : At(o, 0) \in Places(c)
<1>1. c \in Seq([type : Answered, id : Ids]) /\ Len(c) \in Nat /\ Len(c) >= 1
  BY DEF CommandsOf
<1>2. ASSUME NEW o \in 1 .. Len(c) + 1 PROVE At(o, 0) \in Places(c)
  <2>1. CASE o <= Len(c)
    <3>1. o \in 1 .. Len(c)
      BY <1>1, <2>1
    <3>2. c[o] \in [type : Answered, id : Ids]
      BY <1>1, <3>1, ElementOfSeq
    <3>3. 0 \in Steps(c[o].type)
      BY <3>2, FirstStep
    <3> QED BY <1>1, <2>1, <3>3 DEF Places, At
  <2>2. CASE ~ (o <= Len(c))
    BY <1>1, <2>2 DEF Places, At
  <2> QED BY <2>1, <2>2
<1> QED BY <1>1, <1>2

LEMMA AfterIsPlace ==
  ASSUME NEW c, NEW n, CommandsOf(c, n), NEW p \in Places(c), p.offset <= Len(c),
         NEW type \in DOMAIN hook[c[p.offset].type][p.step + 1]
  PROVE  /\ After(c, p, type) \in Places(c)
         /\ hook[c[p.offset].type][p.step + 1][type] # End =>
              After(c, p, type).offset <= Len(c)
<1>1. /\ Len(c) \in Nat /\ p.offset \in 1 .. Len(c) /\ c[p.offset].type \in Answered
      /\ p.step \in Steps(c[p.offset].type) /\ Steps(c[p.offset].type) \subseteq 0 .. 3
  BY PlaceType, FirstStep
<1>2. hook[c[p.offset].type][p.step + 1][type] \in {End} \cup Steps(c[p.offset].type)
  BY <1>1, HookGoes
<1>3. At(p.offset + 1, 0) \in Places(c)
  <2>1. p.offset + 1 \in 1 .. Len(c) + 1
    BY <1>1
  <2> QED BY <2>1, EndPlaces
<1> QED BY <1>1, <1>2, <1>3 DEF After, At, Places

LEMMA MoveIsPlace ==
  ASSUME NEW c, NEW n, CommandsOf(c, n), NEW p \in Places(c), NEW m, NEW q, Moves(c, p, m, q)
  PROVE  q \in Places(c)
BY EndPlaces, AfterIsPlace DEF Moves, Answers1

LEMMA LeadsNowhere ==
  ASSUME NEW c, NEW p, NEW e
  PROVE  /\ p \in Places(c) => Leads(c, p, <<>>, p)
         /\ Leads(c, p, <<>>, e) => e = p
<1>1. Len(<<>>) = 0
  OBVIOUS
<1>2. ASSUME p \in Places(c) PROVE Leads(c, p, <<>>, p)
  <2> DEFINE at == [k \in 0 .. 0 |-> p]
  <2>1. at \in [0 .. Len(<<>>) -> Places(c)] /\ at[0] = p /\ at[Len(<<>>)] = p
    BY <1>1, <1>2
  <2>2. \A k \in 1 .. Len(<<>>) : FALSE
    BY <1>1
  <2> HIDE DEF at
  <2> QED BY <2>1, <2>2 DEF Leads, Track
<1> QED BY <1>1, <1>2 DEF Leads, Track

LEMMA LeadsOn ==
  ASSUME NEW S, NEW s \in Seq(S), NEW t \in Seq(S), NEW c, NEW p, NEW q, NEW e,
         Leads(c, p, s, q), Leads(c, q, t, e)
  PROVE  Leads(c, p, s \o t, e)
<1>1. PICK a : Track(c, p, s, a) /\ a[Len(s)] = q
  BY DEF Leads
<1>2. PICK b : Track(c, q, t, b) /\ b[Len(t)] = e
  BY DEF Leads
<1>3. Len(s) \in Nat /\ Len(t) \in Nat /\ Len(s \o t) = Len(s) + Len(t)
  BY ConcatProperties, LenProperties
<1> DEFINE at == [k \in 0 .. Len(s) + Len(t) |-> IF k <= Len(s) THEN a[k] ELSE b[k - Len(s)]]
<1>4. at \in [0 .. Len(s) + Len(t) -> Places(c)] /\ at[0] = p
  BY <1>1, <1>2, <1>3 DEF Track
<1>5. at[Len(s) + Len(t)] = e
  <2>1. CASE Len(t) = 0
    <3>1. at[Len(s) + Len(t)] = a[Len(s)]
      BY <1>3, <2>1
    <3> QED BY <1>1, <1>2, <2>1, <3>1 DEF Track
  <2>2. CASE Len(t) # 0
    <3>1. at[Len(s) + Len(t)] = b[(Len(s) + Len(t)) - Len(s)] /\ (Len(s) + Len(t)) - Len(s) = Len(t)
      BY <1>3, <2>2
    <3> QED BY <1>2, <3>1
  <2> QED BY <2>1, <2>2
<1>6. ASSUME NEW k \in 1 .. Len(s) + Len(t) PROVE Moves(c, at[k - 1], (s \o t)[k], at[k])
  <2>1. CASE k <= Len(s)
    <3>1. (s \o t)[k] = s[k] /\ at[k] = a[k] /\ at[k - 1] = a[k - 1] /\ k \in 1 .. Len(s)
      BY <1>3, <2>1, ConcatProperties
    <3> QED BY <1>1, <3>1 DEF Track
  <2>2. CASE k > Len(s)
    <3>1. (s \o t)[k] = t[k - Len(s)] /\ at[k] = b[k - Len(s)] /\ k - Len(s) \in 1 .. Len(t)
      BY <1>3, <2>2, ConcatProperties
    <3>2. at[k - 1] = b[(k - Len(s)) - 1]
      <4>1. CASE k - 1 = Len(s)
        <5>1. at[k - 1] = a[Len(s)] /\ (k - Len(s)) - 1 = 0
          BY <1>3, <4>1
        <5> QED BY <1>1, <1>2, <5>1 DEF Track
      <4>2. CASE k - 1 # Len(s)
        <5>1. k - 1 \in 0 .. Len(s) + Len(t) /\ ~ (k - 1 <= Len(s)) /\ (k - 1) - Len(s) = (k - Len(s)) - 1
          BY <1>3, <2>2, <4>2
        <5>2. at[k - 1] = b[(k - 1) - Len(s)]
          BY <5>1
        <5> QED BY <5>1, <5>2
      <4> QED BY <4>1, <4>2
    <3> QED BY <1>2, <3>1, <3>2 DEF Track
  <2> QED BY <1>3, <2>1, <2>2
<1> HIDE DEF at
<1> QED BY <1>3, <1>4, <1>5, <1>6 DEF Leads, Track

LEMMA LeadsApart ==
  ASSUME NEW S, NEW s \in Seq(S), NEW t \in Seq(S), NEW c, NEW p, NEW at,
         Track(c, p, s \o t, at)
  PROVE  /\ Track(c, p, s, [k \in 0 .. Len(s) |-> at[k]])
         /\ Leads(c, at[Len(s)], t, at[Len(s) + Len(t)])
         /\ at[Len(s)] \in Places(c) /\ at[Len(s) + Len(t)] = at[Len(s \o t)]
<1>1. Len(s) \in Nat /\ Len(t) \in Nat /\ Len(s \o t) = Len(s) + Len(t)
  BY ConcatProperties, LenProperties
<1> DEFINE a == [k \in 0 .. Len(s) |-> at[k]]
           b == [k \in 0 .. Len(t) |-> at[k + Len(s)]]
<1>2. /\ at \in [0 .. Len(s) + Len(t) -> Places(c)] /\ at[0] = p
      /\ \A k \in 1 .. Len(s) + Len(t) : Moves(c, at[k - 1], (s \o t)[k], at[k])
  BY <1>1 DEF Track
<1>3. Track(c, p, s, a)
  <2>1. a \in [0 .. Len(s) -> Places(c)] /\ a[0] = p
    BY <1>1, <1>2
  <2>2. ASSUME NEW k \in 1 .. Len(s) PROVE Moves(c, a[k - 1], s[k], a[k])
    <3>1. (s \o t)[k] = s[k] /\ a[k - 1] = at[k - 1] /\ a[k] = at[k] /\ k \in 1 .. Len(s) + Len(t)
      BY <1>1, ConcatProperties
    <3> QED BY <1>2, <3>1
  <2> HIDE DEF a
  <2> QED BY <2>1, <2>2 DEF Track
<1>4. Track(c, at[Len(s)], t, b) /\ b[Len(t)] = at[Len(s) + Len(t)]
  <2>1. b \in [0 .. Len(t) -> Places(c)] /\ b[0] = at[Len(s)] /\ b[Len(t)] = at[Len(s) + Len(t)]
    BY <1>1, <1>2
  <2>2. ASSUME NEW k \in 1 .. Len(t) PROVE Moves(c, b[k - 1], t[k], b[k])
    <3>1. k + Len(s) \in 1 .. Len(s) + Len(t) /\ ~ (k + Len(s) <= Len(s)) /\ (k + Len(s)) - Len(s) = k
      BY <1>1
    <3>2. (s \o t)[k + Len(s)] = t[k]
      <4>1. (s \o t)[k + Len(s)] = t[(k + Len(s)) - Len(s)]
        BY <1>1, <3>1, ConcatProperties
      <4> QED BY <3>1, <4>1
    <3>3. b[k] = at[k + Len(s)] /\ k - 1 \in 0 .. Len(t) /\ (k - 1) + Len(s) = (k + Len(s)) - 1
      BY <1>1
    <3>4. b[k - 1] = at[(k + Len(s)) - 1]
      BY <3>3
    <3> QED BY <1>2, <3>1, <3>2, <3>3, <3>4
  <2> HIDE DEF b
  <2> QED BY <2>1, <2>2 DEF Track
<1>5. Leads(c, at[Len(s)], t, at[Len(s) + Len(t)])
  BY <1>4 DEF Leads
<1> QED BY <1>1, <1>2, <1>3, <1>5

LEMMA LeadsSplit ==
  ASSUME NEW S, NEW s \in Seq(S), NEW t \in Seq(S), NEW c, NEW p, NEW e, Leads(c, p, s \o t, e)
  PROVE  \E q \in Places(c) : Leads(c, p, s, q) /\ Leads(c, q, t, e)
<1>1. PICK at : Track(c, p, s \o t, at) /\ at[Len(s \o t)] = e
  BY DEF Leads
<1>2. /\ Track(c, p, s, [k \in 0 .. Len(s) |-> at[k]])
      /\ Leads(c, at[Len(s)], t, at[Len(s) + Len(t)])
      /\ at[Len(s)] \in Places(c) /\ at[Len(s) + Len(t)] = at[Len(s \o t)]
  BY <1>1, LeadsApart
<1>3. Len(s) \in Nat /\ [k \in 0 .. Len(s) |-> at[k]][Len(s)] = at[Len(s)]
  BY LenProperties
<1>4. Leads(c, p, s, at[Len(s)])
  BY <1>2, <1>3 DEF Leads
<1> QED BY <1>1, <1>2, <1>4

LEMMA LeadsByOne ==
  ASSUME NEW c, NEW p \in Places(c), NEW m, NEW q \in Places(c)
  PROVE  Leads(c, p, <<m>>, q) <=> Moves(c, p, m, q)
<1>1. Len(<<m>>) = 1 /\ <<m>>[1] = m
  OBVIOUS
<1>2. ASSUME Moves(c, p, m, q) PROVE Leads(c, p, <<m>>, q)
  <2> DEFINE at == [k \in 0 .. 1 |-> IF k = 0 THEN p ELSE q]
  <2>1. at \in [0 .. 1 -> Places(c)] /\ at[0] = p /\ at[1] = q
    OBVIOUS
  <2>2. \A k \in 1 .. 1 : Moves(c, at[k - 1], <<m>>[k], at[k])
    BY <1>1, <1>2, <2>1
  <2> HIDE DEF at
  <2> QED BY <1>1, <2>1, <2>2 DEF Leads, Track
<1>3. ASSUME Leads(c, p, <<m>>, q) PROVE Moves(c, p, m, q)
  <2>1. PICK at : Track(c, p, <<m>>, at) /\ at[1] = q
    BY <1>1, <1>3 DEF Leads
  <2>2. Moves(c, at[1 - 1], <<m>>[1], at[1])
    BY <1>1, <2>1 DEF Track
  <2> QED BY <1>1, <2>1, <2>2 DEF Track
<1> QED BY <1>2, <1>3

LEMMA LeadsQuietly ==
  ASSUME NEW S, NEW s \in Seq(S), Quiet(s), NEW c, NEW p \in Places(c)
  PROVE  Leads(c, p, s, p)
<1> DEFINE at == [k \in 0 .. Len(s) |-> p]
<1>1. Len(s) \in Nat
  BY LenProperties
<1>2. at \in [0 .. Len(s) -> Places(c)] /\ at[0] = p /\ at[Len(s)] = p
  BY <1>1
<1>3. \A k \in 1 .. Len(s) : Moves(c, at[k - 1], s[k], at[k])
  BY <1>1 DEF Quiet, Moves
<1> HIDE DEF at
<1> QED BY <1>2, <1>3 DEF Leads, Track

(* Behind the last command no reply can come. *)
LEMMA QuietAtEnd ==
  ASSUME NEW S, NEW s \in Seq(S), NEW c, NEW n, CommandsOf(c, n), NEW p \in Places(c),
         p.offset = Len(c) + 1, NEW e, Leads(c, p, s, e)
  PROVE  Quiet(s) /\ e = p
<1>1. PICK at : Track(c, p, s, at) /\ at[Len(s)] = e
  BY DEF Leads
<1>2. Len(s) \in Nat /\ Len(c) \in Nat
  BY LenProperties DEF CommandsOf
<1> DEFINE T == {k \in Nat : k <= Len(s) => at[k] = p /\ \A j \in 1 .. k : Aside(s[j])}
<1>3. 0 \in T
  BY <1>1 DEF Track
<1>4. ASSUME NEW k \in Nat, k \in T PROVE k + 1 \in T
  <2>1. SUFFICES ASSUME k + 1 <= Len(s)
                 PROVE  at[k + 1] = p /\ Aside(s[k + 1])
    <3>1. \A j \in 1 .. k + 1 : j \in 1 .. k \/ j = k + 1
      OBVIOUS
    <3> QED BY <1>2, <1>4, <2>1, <3>1
  <2>2. at[k] = p /\ k + 1 \in 1 .. Len(s) /\ (k + 1) - 1 = k
    BY <1>2, <1>4, <2>1
  <2>3. Moves(c, p, s[k + 1], at[k + 1])
    BY <1>1, <2>2 DEF Track
  <2> QED BY <1>2, <2>3 DEF Moves, Answers1
<1>5. Len(s) \in T
  <2> HIDE DEF T
  <2> QED BY <1>2, <1>3, <1>4, NaturalInduction
<1> QED BY <1>1, <1>2, <1>5 DEF Quiet

-----------------------------------------------------------------------------
(* standard_put, one message after the other.                              *)

ErrorMessages ==
  [type : {"Error", "FatalError", "ClientError"},
   of : Ids \cup {<<text>> : text \in ClientErrors} \cup {None}, tx : {None}] \cup {None}
Completions == [command : Ids, reply : [type : Replies, of : Ids, tx : Statuses \cup {None}]]

PutRecords(x) ==
  [offset : 1 .. Len(x.commands) + 1, step : 0 .. 3, processed : Seq(Completions),
   heard : Seq(Messages), count : Nat, stop : {"no", "break", "return"},
   fatal : {Fatal, NotFatal, None}, error_message : ErrorMessages,
   last_ready : Statuses \cup {None}]

PutStates(x) ==
  {p \in PutRecords(x) :
     /\ Place(p) \in Places(x.commands)
     /\ p.stop = "no" => p.offset <= Len(x.commands)}

LEMMA NextCommandIs ==
  ASSUME NEW c, NEW n, CommandsOf(c, n), NEW o \in 1 .. Len(c)
  PROVE  NextCommand(c, o) = o + 1
<1>1. c \in Seq([type : Answered, id : Ids]) /\ Len(c) \in Nat
  BY DEF CommandsOf
<1>2. ASSUME NEW i \in 1 .. Len(c) PROVE hook[c[i].type] # <<>>
  <2>1. c[i] \in [type : Answered, id : Ids]
    BY <1>1, ElementOfSeq
  <2> QED BY <2>1, FirstStep
<1> DEFINE after == {i \in o + 1 .. Len(c) : hook[c[i].type] # <<>>}
<1>3. after = o + 1 .. Len(c)
  BY <1>1, <1>2
<1>4. CASE o = Len(c)
  <2>1. after = {}
    BY <1>1, <1>3, <1>4
  <2> QED BY <1>4, <2>1 DEF NextCommand
<1>5. CASE o # Len(c)
  <2>1. o + 1 \in after /\ \A j \in after : o + 1 <= j
    BY <1>1, <1>3, <1>5
  <2>2. \A i \in after : (\A j \in after : i <= j) => i = o + 1
    BY <1>1, <1>3, <1>5
  <2>3. after # {}
    BY <2>1
  <2>4. NextCommand(c, o) = CHOOSE i \in after : \A j \in after : i <= j
    BY <2>3 DEF NextCommand
  <2> HIDE DEF after
  <2> QED BY <2>1, <2>2, <2>4
<1> QED BY <1>4, <1>5

LEMMA SkipIs ==
  ASSUME NEW x, WellFormed(x), NEW o \in 1 .. Len(x.commands)
  PROVE  SkipToSync(x, o) = Len(x.commands)
<1> DEFINE c == x.commands
<1>1. CommandsOf(c, x.number) /\ c \in Seq([type : Answered, id : Ids]) /\ Len(c) \in Nat
  <2>1. CommandsOf(c, x.number)
    BY DEF WellFormed
  <2> HIDE DEF c
  <2> QED BY <2>1 DEF CommandsOf
<1>2. CASE c[o].type \in ImplySync
  <2>1. o = Len(c)
    <3>1. ASSUME o # Len(c) PROVE FALSE
      <4>1. o \in 1 .. Len(c) - 1
        BY <1>1, <3>1
      <4>2. c[o].type \in Extended
        BY <1>1, <4>1 DEF CommandsOf
      <4> QED BY <1>2, <4>2 DEF ImplySync, Extended
    <3> QED BY <3>1
  <2> QED BY <1>2, <2>1 DEF SkipToSync
<1>3. CASE c[o].type \notin ImplySync
  <2> DEFINE syncs == {i \in o .. Len(c) : c[i].type = "Synchronize"}
  <2>1. \A i \in syncs : i = Len(c)
    <3>1. SUFFICES ASSUME NEW i \in syncs, i # Len(c) PROVE FALSE
      OBVIOUS
    <3>2. i \in 1 .. Len(c) - 1 /\ c[i].type = "Synchronize"
      BY <1>1, <3>1
    <3>3. c[i].type \in Extended
      BY <1>1, <3>2 DEF CommandsOf
    <3> QED BY <3>2, <3>3 DEF Extended
  <2>2. Len(c) \in syncs
    <3>1. c[Len(c)].type # "Query"
      <4>1. SUFFICES ASSUME c[Len(c)].type = "Query" PROVE FALSE
        OBVIOUS
      <4>2. Len(c) = 1 /\ o = 1
        BY <1>1, <4>1 DEF CommandsOf
      <4> QED BY <1>3, <4>1, <4>2 DEF ImplySync
    <3>2. c[Len(c)].type = "Synchronize"
      BY <1>1, <3>1 DEF CommandsOf
    <3> QED BY <1>1, <3>2
  <2>3. SkipToSync(x, o) = IF syncs = {} THEN None ELSE CHOOSE i \in syncs : \A j \in syncs : i <= j
    BY <1>3 DEF SkipToSync
  <2> HIDE DEF syncs
  <2>4. syncs = {Len(c)}
    BY <2>1, <2>2
  <2> QED BY <1>1, <2>3, <2>4
<1> QED BY <1>2, <1>3

(* The four things it does with a message.                                 *)
Counted(p) == [p EXCEPT !.count = @ + 1]
SkippedWith(x, p, m) ==
  [p EXCEPT !.count = @ + 1, !.fatal = NotFatal, !.error_message = m,
            !.offset = Len(x.commands), !.step = 0]
EndedWith(p, m) ==
  [p EXCEPT !.count = @ + 1, !.fatal = Fatal, !.error_message = m, !.stop = "return"]
Heard(p, h) == [p EXCEPT !.count = @ + 1, !.heard = h]

Accepted(x, p, m) ==
  LET q == After(x.commands, Place(p), m.type)
  IN  [p EXCEPT !.count = @ + 1, !.offset = q.offset, !.step = q.step,
                !.processed = Append(@, [command |-> x.commands[p.offset].id, reply |-> m]),
                !.last_ready = IF m.type = "Ready" THEN m.tx ELSE @,
                !.stop = IF q.offset > Len(x.commands) THEN "break" ELSE "no"]

LEMMA PutAccepts ==
  ASSUME NEW x, WellFormed(x), NEW p \in PutStates(x), p.stop = "no", NEW m \in Messages,
         m.type \in DOMAIN Paths(x, p)
  PROVE  PutMessage(x, p, m) = Accepted(x, p, m)
<1> DEFINE c == x.commands
           next == Paths(x, p)[m.type]
           q == Counted(p)
           d == [command |-> c[p.offset].id, reply |-> m]
           r == IF m.type = "Ready" THEN m.tx ELSE p.last_ready
<1>1. /\ CommandsOf(c, x.number) /\ Place(p) \in Places(c) /\ p.offset <= Len(c)
      /\ Place(p).offset = p.offset /\ Place(p).step = p.step
  BY DEF WellFormed, PutStates, Place, At
<1>0. p \in PutRecords(x)
  BY DEF PutStates
<1>2. p.offset \in 1 .. Len(c) /\ Len(c) \in Nat
  BY <1>1, PlaceType
<1>3. NextCommand(c, p.offset) = p.offset + 1
  BY <1>1, <1>2, NextCommandIs
<1>4. After(c, Place(p), m.type) = IF next = End THEN At(p.offset + 1, 0) ELSE At(p.offset, next)
  BY <1>1 DEF After, Paths
<1>5. PutMessage(x, p, m) = Accept(x, q, m)
  BY DEF PutMessage, Counted, Paths
<1>6. q.offset = p.offset /\ q.step = p.step /\ Paths(x, q) = Paths(x, p) /\ q.last_ready = p.last_ready
  BY <1>0 DEF Counted, Paths, PutRecords
<1>7. CASE next = End
  <2>1. Accept(x, q, m) =
          [[q EXCEPT !.processed = Append(@, d), !.last_ready = r]
             EXCEPT !.step = 0, !.offset = p.offset + 1,
                    !.stop = IF p.offset + 1 > Len(c) THEN "break" ELSE "no"]
    BY <1>0, <1>3, <1>6, <1>7 DEF Accept, PutRecords
  <2>2. After(c, Place(p), m.type) = At(p.offset + 1, 0)
    BY <1>4, <1>7
  <2>3. Accepted(x, p, m) =
          [p EXCEPT !.count = @ + 1, !.offset = p.offset + 1, !.step = 0,
                    !.processed = Append(@, d), !.last_ready = r,
                    !.stop = IF p.offset + 1 > Len(c) THEN "break" ELSE "no"]
    BY <2>2 DEF Accepted, At
  <2> HIDE DEF d, r
  <2> DEFINE t == IF p.offset + 1 > Len(c) THEN "break" ELSE "no"
  <2>4. Accept(x, q, m) = [[[p EXCEPT !.count = @ + 1] EXCEPT !.processed = Append(@, d), !.last_ready = r]
               EXCEPT !.step = 0, !.offset = p.offset + 1, !.stop = t]
    BY <2>1 DEF Counted
  <2>5. Accepted(x, p, m) = [p EXCEPT !.count = @ + 1, !.offset = p.offset + 1, !.step = 0, !.processed = Append(@, d),
                         !.last_ready = r, !.stop = t]
    BY <2>3
  <2> HIDE DEF t, q
  <2>6. [[[p EXCEPT !.count = @ + 1] EXCEPT !.processed = Append(@, d), !.last_ready = r]
               EXCEPT !.step = 0, !.offset = p.offset + 1, !.stop = t]
         = [p EXCEPT !.count = @ + 1, !.offset = p.offset + 1, !.step = 0, !.processed = Append(@, d),
                         !.last_ready = r, !.stop = t]
    BY <1>0 DEF PutRecords
  <2>7. Accept(x, q, m) = Accepted(x, p, m)
    BY <2>4, <2>5, <2>6, Zenon
  <2> QED BY <1>5, <2>7
<1>8. CASE next # End
  <2>1. Accept(x, q, m) =
          [[q EXCEPT !.processed = Append(@, d), !.last_ready = r]
             EXCEPT !.step = next]
    BY <1>0, <1>3, <1>6, <1>8 DEF Accept, PutRecords
  <2>2. After(c, Place(p), m.type) = At(p.offset, next) /\ ~ (p.offset > Len(c))
    BY <1>2, <1>4, <1>8
  <2>3. Accepted(x, p, m) =
          [p EXCEPT !.count = @ + 1, !.offset = p.offset, !.step = next,
                    !.processed = Append(@, d), !.last_ready = r,
                    !.stop = p.stop]
    BY <2>2 DEF Accepted, At
  <2> HIDE DEF d, r
  <2>4. Accept(x, q, m) = [[[p EXCEPT !.count = @ + 1] EXCEPT !.processed = Append(@, d), !.last_ready = r]
               EXCEPT !.step = next]
    BY <2>1 DEF Counted
  <2> HIDE DEF next, q
  <2>6. [[[p EXCEPT !.count = @ + 1] EXCEPT !.processed = Append(@, d), !.last_ready = r]
               EXCEPT !.step = next]
         = [p EXCEPT !.count = @ + 1, !.offset = p.offset, !.step = next, !.processed = Append(@, d),
                         !.last_ready = r, !.stop = p.stop]
    BY <1>0 DEF PutRecords
  <2>7. Accept(x, q, m) = Accepted(x, p, m)
    BY <2>3, <2>4, <2>6, Zenon
  <2> QED BY <1>5, <2>7
<1> QED BY <1>7, <1>8

LEMMA PutError ==
  ASSUME NEW x, WellFormed(x), NEW p \in PutStates(x), p.stop = "no", NEW m \in Messages,
         m.type = "Error"
  PROVE  PutMessage(x, p, m) = SkippedWith(x, p, m)
<1> DEFINE c == x.commands
<1>1. /\ CommandsOf(c, x.number) /\ Place(p) \in Places(c) /\ p.offset <= Len(c)
      /\ Place(p).offset = p.offset /\ Place(p).step = p.step
  BY DEF WellFormed, PutStates, Place, At
<1>0. p \in PutRecords(x)
  BY DEF PutStates
<1>2. /\ p.offset \in 1 .. Len(c) /\ Len(c) \in Nat /\ p.step \in Steps(c[p.offset].type)
      /\ c[p.offset].type \in Answered
  BY <1>1, PlaceType
<1>3. m.type \notin DOMAIN Paths(x, p)
  BY <1>2, HookGoes DEF Paths
<1>4. SkipToSync(x, p.offset) = Len(c) /\ Len(c) # None
  BY <1>2, SkipIs, NoneAssumption
<1>5. PutMessage(x, p, m) = Failed(x, Counted(p), m)
  BY <1>3 DEF PutMessage, Counted
<1>6. Counted(p).offset = p.offset
  BY <1>0 DEF Counted, PutRecords
<1> QED BY <1>0, <1>4, <1>5, <1>6 DEF Failed, Counted, PutRecords, SkippedWith

LEMMA PutFatalError ==
  ASSUME NEW x, WellFormed(x), NEW p \in PutStates(x), p.stop = "no", NEW m \in Messages,
         m.type = "FatalError"
  PROVE  PutMessage(x, p, m) = EndedWith(p, m)
<1> DEFINE c == x.commands
<1>1. /\ CommandsOf(c, x.number) /\ Place(p) \in Places(c) /\ p.offset <= Len(c)
      /\ Place(p).offset = p.offset /\ Place(p).step = p.step
  BY DEF WellFormed, PutStates, Place, At
<1>0. p \in PutRecords(x)
  BY DEF PutStates
<1>2. /\ p.offset \in 1 .. Len(c) /\ Len(c) \in Nat /\ p.step \in Steps(c[p.offset].type)
      /\ c[p.offset].type \in Answered
  BY <1>1, PlaceType
<1>3. m.type \notin DOMAIN Paths(x, p)
  BY <1>2, HookGoes DEF Paths
<1>5. PutMessage(x, p, m) = Failed(x, Counted(p), m)
  BY <1>3 DEF PutMessage, Counted
<1> QED BY <1>0, <1>5 DEF Failed, Counted, PutRecords, EndedWith

LEMMA PutAsynchronous ==
  ASSUME NEW x, WellFormed(x), NEW p \in PutStates(x), p.stop = "no", NEW m \in Messages,
         IsAsync(m)
  PROVE  \E h \in Seq(Messages) : PutMessage(x, p, m) = Heard(p, h)
<1> DEFINE c == x.commands
<1>1. /\ CommandsOf(c, x.number) /\ Place(p) \in Places(c) /\ p.offset <= Len(c)
      /\ Place(p).offset = p.offset /\ Place(p).step = p.step
  BY DEF WellFormed, PutStates, Place, At
<1>0. p \in PutRecords(x)
  BY DEF PutStates
<1>2. /\ p.offset \in 1 .. Len(c) /\ Len(c) \in Nat /\ p.step \in Steps(c[p.offset].type)
      /\ c[p.offset].type \in Answered
  BY <1>1, PlaceType
<1>3. m.type \in AsynchronousMap /\ m.type \notin {"Error", "FatalError"}
  BY DEF IsAsync, AsynchronousMap
<1>4. m.type \notin DOMAIN Paths(x, p)
  BY <1>2, <1>3, HookGoes DEF Paths
<1>5. PutMessage(x, p, m) = Asynchronous(Counted(p), m)
  BY <1>3, <1>4 DEF PutMessage, Counted
<1>6. Counted(p).heard = p.heard /\ p.heard \in Seq(Messages) /\ Append(p.heard, m) \in Seq(Messages)
  BY <1>0, AppendProperties DEF Counted, PutRecords
<1>7. CASE m \in ToSet(Counted(p).heard)
  <2>1. PutMessage(x, p, m) = Heard(p, p.heard)
    BY <1>0, <1>5, <1>7 DEF Asynchronous, Counted, PutRecords, Heard
  <2> QED BY <1>6, <2>1
<1>8. CASE m \notin ToSet(Counted(p).heard)
  <2>1. PutMessage(x, p, m) = Heard(p, Append(p.heard, m))
    BY <1>0, <1>5, <1>6, <1>8 DEF Asynchronous, Counted, PutRecords, Heard
  <2> QED BY <1>6, <2>1
<1> QED BY <1>7, <1>8

-----------------------------------------------------------------------------

LEMMA AcceptedType ==
  ASSUME NEW x, WellFormed(x), NEW p \in PutStates(x), p.stop = "no", NEW m \in Messages,
         m.type \in DOMAIN Paths(x, p)
  PROVE  /\ Accepted(x, p, m) \in PutStates(x)
         /\ m.type \in Replies /\ m.of \in Ids
         /\ Place(Accepted(x, p, m)) = After(x.commands, Place(p), m.type)
<1> DEFINE c == x.commands
           q == After(c, Place(p), m.type)
           a == Accepted(x, p, m)
<1>1. /\ CommandsOf(c, x.number) /\ Place(p) \in Places(c) /\ p.offset <= Len(c)
      /\ Place(p).offset = p.offset /\ Place(p).step = p.step
  BY DEF WellFormed, PutStates, Place, At
<1>2. p \in PutRecords(x)
  BY DEF PutStates
<1>3. /\ p.offset \in 1 .. Len(c) /\ Len(c) \in Nat /\ p.step \in Steps(c[p.offset].type)
      /\ c[p.offset].type \in Answered /\ c[p.offset].id \in Ids
  BY <1>1, PlaceType
<1>4. m.type \in DOMAIN hook[c[p.offset].type][p.step + 1]
  BY DEF Paths
<1>5. m.type \in Replies /\ m.of \in Ids
  <2>1. m.type \in Replies
    BY <1>3, <1>4, HookGoes
  <2> QED BY <2>1 DEF Messages
<1>6. q \in Places(c) /\ q.offset \in 1 .. Len(c) + 1 /\ q.step \in 0 .. 3 /\ q = At(q.offset, q.step)
  <2>1. q \in Places(c)
    <3> HIDE DEF c
    <3> QED BY <1>1, <1>4, AfterIsPlace
  <2> HIDE DEF q, c
  <2> QED BY <2>1 DEF Places, At
<1>7. [command |-> c[p.offset].id, reply |-> m] \in Completions
  <2>1. m \in [type : Replies, of : Ids, tx : Statuses \cup {None}]
    <3>1. m \in [type : Replies \cup AsynchronousMap \cup {"Error", "FatalError"},
                 of : Ids \cup Payloads \cup {None}, tx : Statuses \cup {None}]
      BY DEF Messages
    <3> QED BY <1>5, <3>1
  <2> QED BY <1>3, <2>1 DEF Completions
<1>8. Append(p.processed, [command |-> c[p.offset].id, reply |-> m]) \in Seq(Completions)
  BY <1>2, <1>7, AppendProperties DEF PutRecords
<1>9. (IF m.type = "Ready" THEN m.tx ELSE p.last_ready) \in Statuses \cup {None}
  BY <1>2 DEF Messages, PutRecords
<1>10. a = [p EXCEPT !.count = @ + 1, !.offset = q.offset, !.step = q.step,
                !.processed = Append(@, [command |-> x.commands[p.offset].id, reply |-> m]),
                !.last_ready = IF m.type = "Ready" THEN m.tx ELSE @,
                !.stop = IF q.offset > Len(x.commands) THEN "break" ELSE "no"]
  BY DEF Accepted
<1> HIDE DEF q, a
<1>11. a \in PutRecords(x) /\ a.offset = q.offset /\ a.step = q.step /\ (a.stop = "no" => q.offset <= Len(c))
  <2>1. a \in PutRecords(x)
    <3> DEFINE d == Append(p.processed, [command |-> c[p.offset].id, reply |-> m])
               r == IF m.type = "Ready" THEN m.tx ELSE p.last_ready
               t == IF q.offset > Len(c) THEN "break" ELSE "no"
               n == p.count + 1
    <3>1. a = [p EXCEPT !.count = n, !.offset = q.offset, !.step = q.step, !.processed = d,
                        !.last_ready = r, !.stop = t]
      BY <1>10
    <3>2. d \in Seq(Completions) /\ r \in Statuses \cup {None} /\ t \in {"no", "break", "return"}
      BY <1>8, <1>9
    <3>3. n \in Nat
      BY <1>2 DEF PutRecords
    <3> HIDE DEF d, r, t, n
    <3> QED BY <1>2, <1>6, <3>1, <3>2, <3>3 DEF PutRecords
  <2>2. a.offset = q.offset /\ a.step = q.step
    BY <1>2, <1>10 DEF PutRecords
  <2>3. a.stop = "no" => q.offset <= Len(c)
    BY <1>2, <1>3, <1>6, <1>10 DEF PutRecords
  <2> QED BY <2>1, <2>2, <2>3
<1>12. Place(a) = q
  BY <1>6, <1>11 DEF Place
<1> QED BY <1>5, <1>6, <1>11, <1>12 DEF PutStates, q, a

LEMMA PutMessageType ==
  ASSUME NEW x, WellFormed(x), NEW p \in PutStates(x), NEW m \in Messages
  PROVE  PutMessage(x, p, m) \in PutStates(x)
<1>1. p \in PutRecords(x) /\ Place(p) \in Places(x.commands) /\ (p.stop = "no" => p.offset <= Len(x.commands))
  BY DEF PutStates
<1>2. CASE p.stop # "no"
  BY <1>2 DEF PutMessage
<1>3. CASE p.stop = "no" /\ m.type \in DOMAIN Paths(x, p)
  BY <1>3, PutAccepts, AcceptedType
<1>4. CASE p.stop = "no" /\ m.type = "Error"
  <2>1. m \in ErrorMessages
    BY <1>4 DEF Messages, ErrorMessages, AsynchronousMap
  <2>2. Len(x.commands) \in Nat /\ Len(x.commands) >= 1 /\ At(Len(x.commands), 0) \in Places(x.commands)
    <3>1. CommandsOf(x.commands, x.number)
      BY DEF WellFormed
    <3>2. At(Len(x.commands), 0) \in Places(x.commands)
      BY <3>1, EndPlaces
    <3>3. x.commands \in Seq([type : Answered, id : Ids]) /\ Len(x.commands) >= 1
      BY <3>1 DEF CommandsOf
    <3>4. Len(x.commands) \in Nat
      BY <3>3, LenProperties
    <3> QED BY <3>2, <3>3, <3>4
  <2> DEFINE n == p.count + 1
             l == Len(x.commands)
             zero == 0
             q == [p EXCEPT !.count = n, !.fatal = NotFatal, !.error_message = m,
                     !.offset = l, !.step = zero]
  <2>3. q \in PutRecords(x) /\ q.offset = Len(x.commands) /\ q.step = 0
    <3>1. n \in Nat
      BY <1>1 DEF PutRecords
    <3>2. l \in 1 .. Len(x.commands) + 1
      BY <2>2
    <3>0. zero \in 0 .. 3 /\ NotFatal \in {Fatal, NotFatal, None}
      OBVIOUS
    <3> HIDE DEF n, ErrorMessages, l, zero
    <3>3. q \in PutRecords(x)
      BY <1>1, <2>1, <3>0, <3>1, <3>2 DEF PutRecords
    <3>4. q.offset = l /\ q.step = zero
      BY <1>1 DEF PutRecords
    <3>5. l = Len(x.commands) /\ zero = 0
      BY DEF l, zero
    <3> HIDE DEF q
    <3> QED BY <3>3, <3>4, <3>5
  <2>4. PutMessage(x, p, m) = q
    BY <1>4, PutError DEF SkippedWith
  <2> HIDE DEF q
  <2>5. Place(q) = At(Len(x.commands), 0)
    BY <2>3 DEF Place
  <2> QED BY <2>2, <2>3, <2>4, <2>5 DEF PutStates
<1>5. CASE p.stop = "no" /\ m.type = "FatalError"
  <2>1. m \in ErrorMessages
    BY <1>5 DEF Messages, ErrorMessages, AsynchronousMap
  <2> DEFINE n == p.count + 1
             q == [p EXCEPT !.count = n, !.fatal = Fatal, !.error_message = m, !.stop = "return"]
  <2>2. q \in PutRecords(x) /\ q.offset = p.offset /\ q.step = p.step /\ q.stop = "return"
    <3>0. n \in Nat
      BY <1>1 DEF PutRecords
    <3> HIDE DEF n, ErrorMessages
    <3>1. q \in PutRecords(x)
      BY <1>1, <2>1, <3>0 DEF PutRecords, Fatal, NotFatal
    <3> QED BY <1>1, <3>1 DEF PutRecords
  <2>3. PutMessage(x, p, m) = q
    <3>1. PutMessage(x, p, m) = EndedWith(p, m)
      BY <1>5, PutFatalError
    <3> QED BY <3>1 DEF EndedWith
  <2> HIDE DEF q
  <2> QED BY <1>1, <2>2, <2>3 DEF PutStates, Place
<1>6. CASE p.stop = "no" /\ IsAsync(m)
  <2>1. PICK h \in Seq(Messages) : PutMessage(x, p, m) = Heard(p, h)
    BY <1>6, PutAsynchronous
  <2> DEFINE n == p.count + 1
             q == [p EXCEPT !.count = n, !.heard = h]
  <2>2. q \in PutRecords(x) /\ q.offset = p.offset /\ q.step = p.step /\ q.stop = p.stop
    <3>0. n \in Nat
      BY <1>1 DEF PutRecords
    <3> HIDE DEF n
    <3>1. q \in PutRecords(x)
      BY <1>1, <3>0 DEF PutRecords
    <3> QED BY <1>1, <3>1 DEF PutRecords
  <2>3. PutMessage(x, p, m) = q
    BY <2>1 DEF Heard
  <2> HIDE DEF q
  <2> QED BY <1>1, <2>2, <2>3 DEF PutStates, Place
<1>7. CASE /\ p.stop = "no" /\ m.type \notin DOMAIN Paths(x, p) /\ m.type # "Error"
           /\ m.type # "FatalError" /\ ~ IsAsync(m)
  <2>1. PutMessage(x, p, m) = ProtocolViolation(Counted(p))
    BY <1>7 DEF PutMessage, Counted, IsAsync
  <2> DEFINE n == p.count + 1
             q == [p EXCEPT !.count = n, !.fatal = Fatal, !.stop = "return",
                            !.error_message = ClientError("protocol violation")]
  <2>2. ClientError("protocol violation") \in ErrorMessages
    <3> QED BY DEF ClientError, ErrorMessages, ClientErrors
  <2>3. q \in PutRecords(x) /\ q.offset = p.offset /\ q.step = p.step /\ q.stop = "return"
    <3>0. n \in Nat
      BY <1>1 DEF PutRecords
    <3> HIDE DEF ErrorMessages, n
    <3>1. q \in PutRecords(x)
      BY <1>1, <2>2, <3>0 DEF PutRecords, Fatal, NotFatal
    <3> QED BY <1>1, <3>1 DEF PutRecords
  <2>4. PutMessage(x, p, m) = q
    BY <1>1, <2>1 DEF ProtocolViolation, Counted, PutRecords
  <2> HIDE DEF q
  <2> QED BY <1>1, <2>3, <2>4 DEF PutStates, Place
<1> QED BY <1>2, <1>3, <1>4, <1>5, <1>6, <1>7

(* The fold of standard_put goes through the group from left to right.     *)
PutStart(x) ==
  [offset |-> x.offset, step |-> x.step, processed |-> <<>>,
   heard |-> <<>>, count |-> 0, stop |-> "no", fatal |-> x.fatal,
   error_message |-> x.error_message, last_ready |-> x.last_ready]

PutEnd(x, p) ==
  LET y == [x EXCEPT !.fatal = p.fatal, !.error_message = p.error_message,
                     !.last_ready = p.last_ready]
  IN  Result(
        IF p.stop = "return" THEN [y EXCEPT !.state = "Complete"]
        ELSE [y EXCEPT !.offset = p.offset, !.step = p.step,
                       !.completed = @ \o p.processed,
                       !.state = Switched(x, p),
                       !.reissued = IF Switched(x, p) = "sent_from_stdin"
                                    THEN SubSeq(x.commands, p.offset + 1, Len(x.commands))
                                    ELSE @],
        p.count, p.heard)

PutRun(x, group, run) ==
  /\ run \in [0 .. Len(group) -> PutStates(x)] /\ run[0] = PutStart(x)
  /\ \A k \in 1 .. Len(group) : run[k] = PutMessage(x, run[k - 1], group[k])

LEMMA PutStartType ==
  ASSUME NEW x \in Transactions, WellFormed(x), Place(x) \in Places(x.commands), x.offset <= Len(x.commands)
  PROVE  PutStart(x) \in PutStates(x)
<1>1. x.offset \in 1 .. Len(x.commands) + 1 /\ x.step \in 0 .. 3
  BY DEF Place, At, Places
<1>2. x.error_message \in ErrorMessages /\ x.fatal \in {Fatal, NotFatal, None} /\ x.last_ready \in Statuses \cup {None}
  BY DEF Transactions, ErrorMessages, Ids, Statuses
<1>3. <<>> \in Seq(Completions) /\ <<>> \in Seq(Messages)
  BY EmptySeq
<1>4. PutStart(x) \in PutRecords(x)
  BY <1>1, <1>2, <1>3 DEF PutStart, PutRecords
<1> QED BY <1>4 DEF PutStart, PutStates, Place

LEMMA PutRuns ==
  ASSUME NEW x \in Transactions, WellFormed(x), Place(x) \in Places(x.commands), x.offset <= Len(x.commands),
         NEW group \in Seq(Messages)
  PROVE  \E run : PutRun(x, group, run) /\ standard_put(x, group) = PutEnd(x, run[Len(group)])
<1> DEFINE n == Len(group)
           S == 1 .. n
           P == PutStates(x)
           Last1(R) == CHOOSE i \in R : \A j \in R : i >= j
           Eq(it) == it = [R \in SUBSET S |->
                             IF R = {} THEN PutStart(x)
                             ELSE PutMessage(x, it[R \ {Greatest(R)}], group[Greatest(R)])]
           iter == CHOOSE it : Eq(it)
<1>1. n \in Nat /\ DOMAIN group = S /\ IsFiniteSet(S)
  <2>1. n \in Nat /\ DOMAIN group = S
    BY LenProperties
  <2> QED BY <2>1, FS_Interval
<1>2. PutStart(x) \in P
  BY PutStartType
<1>3. ASSUME NEW q \in P, NEW i \in S PROVE PutMessage(x, q, group[i]) \in P
  <2>1. group[i] \in Messages
    BY ElementOfSeq
  <2> QED BY <2>1, PutMessageType
<1>4. \E it : Eq(it)
  <2> DEFINE step == [qi \in P \X S |-> PutMessage(x, qi[1], group[qi[2]])]
             choose == [R \in SUBSET S |-> Greatest(R)]
  <2>1. \A R \in SUBSET S : R # {} => choose[R] \in R
    BY <1>1, GreatestIsOne
  <2>2. \A q \in P, i \in S : step[<<q, i>>] = PutMessage(x, q, group[i])
    OBVIOUS
  <2>3. \A q \in P, i \in S : step[<<q, i>>] \in P
    BY <1>3, <2>2
  <2>4. PICK it : FoldsUp(it, S, P, PutStart(x), step, choose)
    <3> HIDE DEF step, choose, P, S, n
    <3> QED BY <1>1, <1>2, <2>1, <2>3, FoldsExist
  <2>5. it \in [SUBSET S -> P]
    BY <2>4 DEF FoldsUp
  <2>6. ASSUME NEW R \in SUBSET S
        PROVE  it[R] = IF R = {} THEN PutStart(x)
                       ELSE PutMessage(x, it[R \ {Greatest(R)}], group[Greatest(R)])
    <3>1. CASE R = {}
      BY <2>4, <3>1 DEF FoldsUp
    <3>2. CASE R # {}
      <4>1. choose[R] = Greatest(R) /\ Greatest(R) \in S /\ it[R \ {Greatest(R)}] \in P
        BY <2>1, <2>5, <3>2
      <4>2. it[R] = step[<<it[R \ {choose[R]}], choose[R]>>]
        BY <2>4, <3>2 DEF FoldsUp
      <4> HIDE DEF step, choose, P
      <4> QED BY <2>2, <3>2, <4>1, <4>2
    <3> QED BY <3>1, <3>2
  <2>7. Eq(it)
    <3> HIDE DEF P, S, n, step, choose
    <3> QED BY <2>5, <2>6
  <2> QED BY <2>7
<1>5. Eq(iter)
  <2> HIDE DEF Eq
  <2> QED BY <1>4
<1>6. standard_put(x, group) = PutEnd(x, iter[S])
  BY <1>1 DEF standard_put, PutEnd, PutStart, FoldLeft, MapThenFoldSet, Max, Greatest
<1> HIDE DEF iter
<1> DEFINE run == [k \in 0 .. n |-> iter[1 .. k]]
<1>7. run[0] = PutStart(x)
  <2>1. 1 .. 0 = {} /\ 0 \in 0 .. n /\ {} \in SUBSET S
    BY <1>1
  <2> QED BY <1>5, <2>1
<1>8. ASSUME NEW k \in 1 .. n PROVE run[k] = PutMessage(x, run[k - 1], group[k])
  <2>1. k \in Nat /\ k # 0 /\ k - 1 \in 0 .. n /\ 1 .. k \in SUBSET S /\ k \in 0 .. n
    BY <1>1
  <2>2. Greatest(1 .. k) = k /\ (1 .. k) \ {k} = 1 .. (k - 1) /\ 1 .. k # {}
    BY <2>1, GreatestOfInterval
  <2>3. iter[1 .. k] = PutMessage(x, iter[1 .. (k - 1)], group[k])
    BY <1>5, <2>1, <2>2
  <2> QED BY <2>1, <2>3
<1>9. \A k \in 0 .. n : run[k] \in P
  <2> DEFINE T == {k \in Nat : k <= n => run[k] \in P}
  <2>1. 0 \in T
    BY <1>2, <1>7
  <2>2. ASSUME NEW k \in Nat, k \in T PROVE k + 1 \in T
    <3>1. SUFFICES ASSUME k + 1 <= n PROVE run[k + 1] \in P
      OBVIOUS
    <3>2. k + 1 \in 1 .. n /\ (k + 1) - 1 = k /\ run[k] \in P
      BY <1>1, <2>2, <3>1
    <3> HIDE DEF run, P
    <3> QED BY <1>3, <1>8, <3>2
  <2>3. Nat \subseteq T
    <3> HIDE DEF T
    <3> QED BY <2>1, <2>2, NaturalInduction
  <2>4. ASSUME NEW k \in 0 .. n PROVE run[k] \in P
    <3>1. k \in Nat /\ k <= n
      BY <1>1
    <3> HIDE DEF run, P
    <3> QED BY <2>3, <3>1
  <2> QED BY <2>4
<1>10. PutRun(x, group, run)
  <2>1. run \in [0 .. n -> P]
    BY <1>9
  <2> HIDE DEF run
  <2> QED BY <1>7, <1>8, <2>1 DEF PutRun
<1>11. run[n] = iter[S]
  BY <1>1
<1> HIDE DEF run
<1> QED BY <1>6, <1>10, <1>11

-----------------------------------------------------------------------------
(* What the four cases leave in the record.                                *)
LEMMA AcceptedFields ==
  ASSUME NEW x, NEW p \in PutRecords(x), NEW m, NEW a, a = Accepted(x, p, m)
  PROVE  /\ a.count = p.count + 1 /\ a.fatal = p.fatal /\ a.error_message = p.error_message
         /\ a.processed = Append(p.processed, [command |-> x.commands[p.offset].id, reply |-> m])
         /\ a.last_ready = IF m.type = "Ready" THEN m.tx ELSE p.last_ready
         /\ a.stop = IF After(x.commands, Place(p), m.type).offset > Len(x.commands)
                     THEN "break" ELSE "no"
<1> DEFINE q == After(x.commands, Place(p), m.type)
           d == Append(p.processed, [command |-> x.commands[p.offset].id, reply |-> m])
           r == IF m.type = "Ready" THEN m.tx ELSE p.last_ready
           t == IF q.offset > Len(x.commands) THEN "break" ELSE "no"
<1>1. a = [p EXCEPT !.count = @ + 1, !.offset = q.offset, !.step = q.step,
                    !.processed = d, !.last_ready = r, !.stop = t]
  BY DEF Accepted
<1>2. a.count = p.count + 1 /\ a.fatal = p.fatal /\ a.error_message = p.error_message
      /\ a.processed = d /\ a.last_ready = r /\ a.stop = t
  <2> HIDE DEF q, d, r, t
  <2> QED BY <1>1 DEF PutRecords
<1> QED BY <1>2

LEMMA SkippedFields ==
  ASSUME NEW x, NEW p \in PutRecords(x), NEW m, NEW a, a = SkippedWith(x, p, m)
  PROVE  /\ a.count = p.count + 1 /\ a.fatal = NotFatal /\ a.error_message = m
         /\ a.processed = p.processed /\ a.last_ready = p.last_ready /\ a.stop = p.stop
         /\ Place(a) = At(Len(x.commands), 0)
<1> DEFINE l == Len(x.commands)
           zero == 0
<1>1. a = [p EXCEPT !.count = @ + 1, !.fatal = NotFatal, !.error_message = m,
                    !.offset = l, !.step = zero]
  BY DEF SkippedWith
<1>2. /\ a.count = p.count + 1 /\ a.fatal = NotFatal /\ a.error_message = m
      /\ a.processed = p.processed /\ a.last_ready = p.last_ready /\ a.stop = p.stop
      /\ a.offset = l /\ a.step = zero
  <2> HIDE DEF l, zero
  <2> QED BY <1>1 DEF PutRecords
<1> QED BY <1>2 DEF Place

LEMMA EndedFields ==
  ASSUME NEW x, NEW p \in PutRecords(x), NEW m, NEW a, a = EndedWith(p, m)
  PROVE  /\ a.count = p.count + 1 /\ a.fatal = Fatal /\ a.error_message = m
         /\ a.processed = p.processed /\ a.last_ready = p.last_ready /\ a.stop = "return"
         /\ Place(a) = Place(p)
BY DEF EndedWith, PutRecords, Place

LEMMA HeardFields ==
  ASSUME NEW x, NEW p \in PutRecords(x), NEW h, NEW a, a = Heard(p, h)
  PROVE  /\ a.count = p.count + 1 /\ a.fatal = p.fatal /\ a.error_message = p.error_message
         /\ a.processed = p.processed /\ a.last_ready = p.last_ready /\ a.stop = p.stop
         /\ Place(a) = Place(p) /\ a.heard = h
BY DEF Heard, PutRecords, Place

\* Where a COPY FROM STDIN waits for its data.
CopyPlace(c, p) ==
  /\ p.offset <= Len(c)
  /\ \/ c[p.offset].type = "Query" /\ p.step = 1
     \/ c[p.offset].type = "Execute" /\ p.step = 3
RowPlace(c, p) ==
  /\ p.offset <= Len(c)
  /\ \/ c[p.offset].type = "Query" /\ p.step \in {0, 3}
     \/ c[p.offset].type = "Execute" /\ p.step = 1
DataPlace(c, p) ==
  /\ p.offset <= Len(c)
  /\ \/ c[p.offset].type = "Query" /\ p.step \in {0, 2}
     \/ c[p.offset].type = "Execute" /\ p.step = 2
Elsewhere(c, p) == p.offset > Len(c) \/ c[p.offset].type \notin {"Query", "Execute"}

(* After k messages of a group that goes along at, standard_put has come   *)
(* to r.                                                                   *)
GoesAlong(x, at, r, k) ==
  /\ r.count \in 0 .. k /\ (r.stop = "no" => r.count = k)
  /\ Place(r) = at[r.count]
  /\ (r.stop = "break") = (r.offset > Len(x.commands))
EndsAlong(x, group, r) ==
  /\ r.stop = "break" =>
       r.count >= 1 /\ group[r.count].type = "Ready" /\ r.last_ready = group[r.count].tx
  /\ r.stop = "return" =>
       r.count >= 1 /\ group[r.count].type = "FatalError" /\ r.fatal = Fatal
FailsAlong(x, group, r) ==
  /\ r.fatal = Fatal => x.fatal = Fatal \/ r.stop = "return"
  /\ r.fatal = None => x.fatal = None /\ \A j \in 1 .. r.count : group[j].type # "Error"
  /\ r.error_message = x.error_message
       \/ (r.error_message.type = "Error" => r.error_message.of[1] = x.number)
MatchesAlong(r) ==
  \A j \in 1 .. Len(r.processed) : r.processed[j].reply.of = r.processed[j].command
SwitchesAlong(x, group, r) ==
  r.processed # <<>> =>
    LET last == Last(r.processed).reply.type
    IN  /\ last = "Tuple" => RowPlace(x.commands, r) \/ Elsewhere(x.commands, r)
        /\ last \in {"CopyData", "CopyToBegin"} => DataPlace(x.commands, r) \/ Elsewhere(x.commands, r)
        /\ last = "CopyFromBegin" => \E j \in 1 .. r.count : group[j].type = "CopyFromBegin"
CopiesAlong(x, group, r) ==
  \A j \in 1 .. r.count :
    group[j].type = "CopyFromBegin" /\ (\A l \in j + 1 .. r.count : Aside(group[l])) =>
      /\ r.processed # <<>> /\ Last(r.processed).reply.type = "CopyFromBegin"
      /\ CopyPlace(x.commands, r)
Along(x, group, at, r, k) ==
  /\ GoesAlong(x, at, r, k) /\ EndsAlong(x, group, r) /\ FailsAlong(x, group, r)
  /\ MatchesAlong(r) /\ SwitchesAlong(x, group, r) /\ CopiesAlong(x, group, r)

LEMMA LastOfAppend ==
  ASSUME NEW S, NEW s \in Seq(S), NEW e \in S
  PROVE  Last(Append(s, e)) = e /\ Append(s, e) # <<>>
<1>1. Append(s, e) # <<>> /\ Len(Append(s, e)) = Len(s) + 1 /\ Append(s, e)[Len(s) + 1] = e
  BY AppendProperties
<1> QED BY <1>1 DEF Last

-----------------------------------------------------------------------------
(* A reply and where it takes the transaction.                             *)
LEMMA AnswerGoes ==
  ASSUME NEW c, NEW n, CommandsOf(c, n), NEW p \in Places(c), NEW m, Answers1(c, p, m)
  PROVE  /\ m.type \in Replies /\ ~ Aside(m) /\ m.type # "Error"
         /\ (After(c, p, m.type).offset > Len(c)) = (m.type = "Ready")
         /\ m.type = "Tuple" => RowPlace(c, After(c, p, m.type))
         /\ m.type \in {"CopyData", "CopyToBegin"} => DataPlace(c, After(c, p, m.type))
         /\ m.type = "CopyFromBegin" => CopyPlace(c, After(c, p, m.type))
<1> DEFINE type == c[p.offset].type
           next == hook[c[p.offset].type][p.step + 1][m.type]
<1>1. /\ p.offset <= Len(c) /\ m.type \in DOMAIN hook[type][p.step + 1]
      /\ Len(c) \in Nat /\ p.offset \in 1 .. Len(c) /\ type \in Answered /\ p.step \in Steps(type)
  <2>1. p.offset <= Len(c) /\ m.type \in DOMAIN hook[type][p.step + 1]
    BY DEF Answers1
  <2> QED BY <2>1, PlaceType
<1>2. /\ m.type \in Replies /\ m.type \notin AsynchronousMap \cup {"Error", "FatalError"}
      /\ next \in {End} \cup Steps(type)
      /\ type \in {"Query", "Synchronize"} => (m.type = "Ready") = (next = End)
      /\ type \in Extended => m.type # "Ready"
      /\ m.type = "Tuple" => (type = "Query" /\ next = 3) \/ (type = "Execute" /\ next = 1)
      /\ m.type \in {"CopyData", "CopyToBegin"} => type \in {"Query", "Execute"} /\ next = 2
      /\ m.type = "CopyFromBegin" => (type = "Query" /\ next = 1) \/ (type = "Execute" /\ next = 3)
  <2> DEFINE t == m.type
             k == p.step
  <2>1. type \in Answered /\ k \in Steps(type) /\ t \in DOMAIN hook[type][k + 1] /\ next = hook[type][k + 1][t]
    BY <1>1
  <2> HIDE DEF t, k, type, next
  <2>2. /\ t \in Replies /\ t \notin AsynchronousMap \cup {"Error", "FatalError"}
        /\ next \in {End} \cup Steps(type)
        /\ type \in {"Query", "Synchronize"} => (t = "Ready") = (next = End)
        /\ type \in Extended => t # "Ready"
    BY ONLY <2>1, HookGoes
  <2>3. /\ t = "Tuple" => (type = "Query" /\ next = 3) \/ (type = "Execute" /\ next = 1)
        /\ t \in {"CopyData", "CopyToBegin"} => type \in {"Query", "Execute"} /\ next = 2
        /\ t = "CopyFromBegin" => (type = "Query" /\ next = 1) \/ (type = "Execute" /\ next = 3)
    BY ONLY <2>1, HookGoes
  <2> QED BY ONLY <2>2, <2>3 DEF t
<1>3. After(c, p, m.type) = IF next = End THEN At(p.offset + 1, 0) ELSE At(p.offset, next)
  BY DEF After
<1>4. p.offset = Len(c) \/ type \in Extended
  <2>1. SUFFICES ASSUME p.offset # Len(c) PROVE type \in Extended
    OBVIOUS
  <2>2. p.offset \in 1 .. Len(c) - 1
    BY <1>1, <2>1
  <2> QED BY <2>2 DEF CommandsOf
<1>5. p.offset = Len(c) => type \in {"Query", "Synchronize"}
  BY DEF CommandsOf
<1> HIDE DEF type, next
<1>6. (After(c, p, m.type).offset > Len(c)) = (m.type = "Ready")
  <2>1. CASE p.offset = Len(c)
    <3>1. CASE next = End
      BY <1>1, <1>2, <1>3, <1>5, <2>1, <3>1 DEF At
    <3>2. CASE next # End
      BY <1>1, <1>2, <1>3, <1>5, <2>1, <3>2 DEF At
    <3> QED BY <3>1, <3>2
  <2>2. CASE p.offset # Len(c)
    <3>1. p.offset + 1 <= Len(c) /\ m.type # "Ready"
      BY <1>1, <1>2, <1>4, <2>2
    <3> QED BY <1>1, <1>3, <3>1 DEF At
  <2> QED BY <2>1, <2>2
<1>7. next # End => After(c, p, m.type) = At(p.offset, next)
  BY <1>3
<1>8. \A s : RowPlace(c, At(p.offset, s)) <=> (type = "Query" /\ s \in {0, 3}) \/ (type = "Execute" /\ s = 1)
  BY <1>1 DEF RowPlace, At, type
<1>9. \A s : DataPlace(c, At(p.offset, s)) <=> (type = "Query" /\ s \in {0, 2}) \/ (type = "Execute" /\ s = 2)
  BY <1>1 DEF DataPlace, At, type
<1>10. \A s : CopyPlace(c, At(p.offset, s)) <=> (type = "Query" /\ s = 1) \/ (type = "Execute" /\ s = 3)
  BY <1>1 DEF CopyPlace, At, type
<1>11. m.type = "Tuple" => RowPlace(c, After(c, p, m.type))
  BY <1>2, <1>7, <1>8 DEF End
<1>12. m.type \in {"CopyData", "CopyToBegin"} => DataPlace(c, After(c, p, m.type))
  BY <1>2, <1>7, <1>9 DEF End
<1>13. m.type = "CopyFromBegin" => CopyPlace(c, After(c, p, m.type))
  BY <1>2, <1>7, <1>10 DEF End
<1> QED BY <1>2, <1>6, <1>11, <1>12, <1>13 DEF Aside, IsAsync

\* The end of a batch, to which an error skips.
LEMMA SyncPlaces ==
  ASSUME NEW c, NEW n, CommandsOf(c, n)
  PROVE  /\ RowPlace(c, At(Len(c), 0)) \/ Elsewhere(c, At(Len(c), 0))
         /\ DataPlace(c, At(Len(c), 0)) \/ Elsewhere(c, At(Len(c), 0))
<1>1. c[Len(c)].type \in {"Query", "Synchronize"}
  BY DEF CommandsOf
<1>2. Len(c) \in Nat
  <2>1. c \in Seq([type : Answered, id : Ids])
    BY DEF CommandsOf
  <2> QED BY <2>1, LenProperties
<1> QED BY <1>1, <1>2 DEF RowPlace, DataPlace, Elsewhere, At

LEMMA PlacesAgree ==
  ASSUME NEW c, NEW r
  PROVE  /\ RowPlace(c, Place(r)) <=> RowPlace(c, r)
         /\ DataPlace(c, Place(r)) <=> DataPlace(c, r)
         /\ CopyPlace(c, Place(r)) <=> CopyPlace(c, r)
         /\ Elsewhere(c, Place(r)) <=> Elsewhere(c, r)
         /\ Place(r).offset = r.offset /\ Place(r).step = r.step
BY DEF RowPlace, DataPlace, CopyPlace, Elsewhere, Place, At

LEMMA AlongAccepts ==
  ASSUME NEW x, WellFormed(x), NEW group \in Seq(Messages), NEW at, NEW k \in 1 .. Len(group),
         NEW r \in PutStates(x), Along(x, group, at, r, k - 1), r.stop = "no",
         Moves(x.commands, at[k - 1], group[k], at[k]),
         group[k].type \in DOMAIN Paths(x, r)
  PROVE  Along(x, group, at, PutMessage(x, r, group[k]), k)
<1> DEFINE c == x.commands
           m == group[k]
           a == Accepted(x, r, m)
           d == [command |-> c[r.offset].id, reply |-> m]
<1>1. /\ CommandsOf(c, x.number) /\ r \in PutRecords(x) /\ Place(r) \in Places(c)
      /\ r.offset <= Len(c) /\ m \in Messages /\ Len(group) \in Nat
      /\ Place(r).offset = r.offset /\ Place(r).step = r.step
  BY ElementOfSeq, LenProperties, PlacesAgree DEF WellFormed, PutStates
<1>2. r.count = k - 1 /\ Place(r) = at[k - 1]
  BY DEF Along, GoesAlong
<1>3. Answers1(c, Place(r), m) /\ at[k] = After(c, Place(r), m.type)
  <2>1. m.type \in DOMAIN hook[c[r.offset].type][r.step + 1]
    BY DEF Paths
  <2>2. m.type \in Replies /\ m.type \notin AsynchronousMap \cup {"Error", "FatalError"}
    <3>1. r.step \in Steps(c[r.offset].type) /\ c[r.offset].type \in Answered
      BY <1>1, PlaceType
    <3> QED BY <2>1, <3>1, HookGoes
  <2>3. ~ Aside(m) /\ m.type # "Error"
    BY <2>2 DEF Aside, IsAsync
  <2> QED BY <1>2, <2>3 DEF Moves
<1>4. /\ ~ Aside(m) /\ m.type # "Error" /\ m.of = c[r.offset].id
      /\ (at[k].offset > Len(c)) = (m.type = "Ready")
      /\ m.type = "Tuple" => RowPlace(c, at[k])
      /\ m.type \in {"CopyData", "CopyToBegin"} => DataPlace(c, at[k])
      /\ m.type = "CopyFromBegin" => CopyPlace(c, at[k])
  <2> HIDE DEF c, m
  <2>1. m.of = c[r.offset].id
    BY <1>1, <1>3 DEF Answers1
  <2> QED BY <1>1, <1>3, <2>1, AnswerGoes
<1>5. PutMessage(x, r, m) = a
  BY <1>1, PutAccepts
<1>6. Place(a) = at[k] /\ m.type \in Replies /\ a \in PutRecords(x)
  <2>1. Place(a) = After(c, Place(r), m.type) /\ m.type \in Replies /\ a \in PutStates(x)
    BY <1>1, AcceptedType
  <2> QED BY <1>3, <2>1 DEF PutStates
<1>7. /\ a.count = k /\ a.fatal = r.fatal /\ a.error_message = r.error_message
      /\ a.processed = Append(r.processed, d)
      /\ a.last_ready = IF m.type = "Ready" THEN m.tx ELSE r.last_ready
      /\ a.stop = IF at[k].offset > Len(c) THEN "break" ELSE "no"
  <2>1. /\ a.count = r.count + 1 /\ a.fatal = r.fatal /\ a.error_message = r.error_message
        /\ a.processed = Append(r.processed, d)
        /\ a.last_ready = IF m.type = "Ready" THEN m.tx ELSE r.last_ready
        /\ a.stop = IF After(c, Place(r), m.type).offset > Len(c) THEN "break" ELSE "no"
    <3> HIDE DEF a
    <3> QED BY <1>1, AcceptedFields DEF a
  <2> QED BY <1>2, <1>3, <2>1
<1>8. r.processed \in Seq(Completions) /\ d \in Completions
  <2>1. r.processed \in Seq(Completions)
    BY <1>1 DEF PutRecords
  <2>2. a.processed \in Seq(Completions)
    BY <1>6 DEF PutRecords
  <2>3. Len(r.processed) \in Nat
    BY <2>1, LenProperties
  <2>4. Len(Append(r.processed, d)) = Len(r.processed) + 1 /\ Append(r.processed, d)[Len(r.processed) + 1] = d
    BY <2>1
  <2>5. d \in Completions
    <3>1. Len(r.processed) + 1 \in 1 .. Len(a.processed) /\ a.processed[Len(r.processed) + 1] = d
      BY <1>7, <2>3, <2>4
    <3> HIDE DEF d, a
    <3> QED BY <2>2, <3>1, ElementOfSeq
  <2> QED BY <2>1, <2>5
<1>9. /\ Last(a.processed) = d /\ a.processed # <<>> /\ d.reply = m /\ d.command = c[r.offset].id
      /\ Len(a.processed) = Len(r.processed) + 1 /\ a.processed[Len(r.processed) + 1] = d
      /\ \A j \in 1 .. Len(r.processed) : a.processed[j] = r.processed[j]
      /\ Len(r.processed) \in Nat
  <2>1. d.reply = m /\ d.command = c[r.offset].id
    OBVIOUS
  <2> DEFINE t == Append(r.processed, d)
  <2>2. /\ t # <<>> /\ Len(t) = Len(r.processed) + 1 /\ t[Len(r.processed) + 1] = d
        /\ \A j \in 1 .. Len(r.processed) : t[j] = r.processed[j]
    <3> HIDE DEF d
    <3> QED BY <1>8, AppendProperties
  <2>3. Last(t) = d
    <3> HIDE DEF d
    <3> QED BY <1>8, LastOfAppend
  <2>4. Len(r.processed) \in Nat
    BY <1>8, LenProperties
  <2>5. a.processed = t
    BY <1>7
  <2> HIDE DEF d, a, t
  <2> QED BY <2>1, <2>2, <2>3, <2>4, <2>5
<1>10. a.offset = at[k].offset
  BY <1>6 DEF Place, At
<1> HIDE DEF a, d, c, m
<1>11. GoesAlong(x, at, a, k)
  BY <1>6, <1>7, <1>10 DEF GoesAlong, c
<1>12. EndsAlong(x, group, a)
  BY <1>4, <1>7 DEF EndsAlong, m
<1>13. FailsAlong(x, group, a)
  <2>1. FailsAlong(x, group, r)
    BY DEF Along
  <2>2. \A j \in 1 .. k : j \in 1 .. k - 1 \/ j = k
    OBVIOUS
  <2> QED BY <1>2, <1>4, <1>7, <2>1, <2>2 DEF FailsAlong, m
<1>14. MatchesAlong(a)
  <2>1. \A j \in 1 .. Len(a.processed) : j \in 1 .. Len(r.processed) \/ j = Len(r.processed) + 1
    BY <1>9
  <2> QED BY <1>4, <1>9, <2>1 DEF Along, MatchesAlong
<1>15. SwitchesAlong(x, group, a)
  <2>1. m.type = "CopyFromBegin" => \E j \in 1 .. a.count : group[j].type = "CopyFromBegin"
    BY <1>1, <1>7 DEF m
  <2>2. m.type = "Tuple" => RowPlace(c, a)
    BY <1>4, <1>6, PlacesAgree
  <2>3. m.type \in {"CopyData", "CopyToBegin"} => DataPlace(c, a)
    BY <1>4, <1>6, PlacesAgree
  <2> QED BY <1>9, <2>1, <2>2, <2>3 DEF SwitchesAlong, c
<1>16. CopiesAlong(x, group, a)
  <2>1. SUFFICES ASSUME NEW j \in 1 .. k, group[j].type = "CopyFromBegin",
                        \A l \in j + 1 .. k : Aside(group[l])
                 PROVE  /\ a.processed # <<>> /\ Last(a.processed).reply.type = "CopyFromBegin"
                        /\ CopyPlace(c, a)
    BY <1>7 DEF CopiesAlong, c
  <2>2. j = k
    BY <1>4, <2>1 DEF m
  <2> QED BY <1>4, <1>6, <1>9, <2>1, <2>2, PlacesAgree DEF m
<1> QED BY <1>5, <1>11, <1>12, <1>13, <1>14, <1>15, <1>16 DEF Along, m

LEMMA AlongFails ==
  ASSUME NEW x, WellFormed(x), NEW group \in Seq(Messages), NEW at, NEW k \in 1 .. Len(group),
         NEW r \in PutStates(x), Along(x, group, at, r, k - 1), r.stop = "no",
         Moves(x.commands, at[k - 1], group[k], at[k]), group[k].type = "Error"
  PROVE  Along(x, group, at, PutMessage(x, r, group[k]), k)
<1> DEFINE c == x.commands
           m == group[k]
           a == SkippedWith(x, r, m)
<1>1. /\ CommandsOf(c, x.number) /\ r \in PutRecords(x) /\ Place(r) \in Places(c)
      /\ r.offset <= Len(c) /\ m \in Messages /\ Len(group) \in Nat
      /\ Place(r).offset = r.offset /\ Place(r).step = r.step
  BY ElementOfSeq, LenProperties, PlacesAgree DEF WellFormed, PutStates
<1>2. r.count = k - 1 /\ Place(r) = at[k - 1]
  BY DEF Along, GoesAlong
<1>3. ~ Aside(m) /\ ~ Answers1(c, Place(r), m)
  <2>1. ~ Aside(m)
    BY DEF Aside, IsAsync, AsynchronousMap
  <2>2. ASSUME Answers1(c, Place(r), m) PROVE FALSE
    <3> HIDE DEF c, m
    <3>1. m.type # "Error"
      BY <1>1, <2>2, AnswerGoes
    <3> QED BY <3>1 DEF m
  <2> QED BY <2>1, <2>2
<1>4. at[k] = At(Len(c), 0) /\ m.of[1] = x.number
  <2>1. at[k] = At(Len(c), 0) /\ \E i \in 1 .. Len(c) : m.of = c[i].id
    BY <1>2, <1>3 DEF Moves
  <2>2. \A i \in 1 .. Len(c) : c[i].id = <<x.number, i>>
    BY <1>1 DEF CommandsOf
  <2> QED BY <2>1, <2>2
<1>5. PutMessage(x, r, m) = a
  BY <1>1, PutError
<1>6. /\ a.count = k /\ a.fatal = NotFatal /\ a.error_message = m
      /\ a.processed = r.processed /\ a.last_ready = r.last_ready /\ a.stop = "no"
      /\ Place(a) = at[k]
  <2>1. /\ a.count = r.count + 1 /\ a.fatal = NotFatal /\ a.error_message = m
        /\ a.processed = r.processed /\ a.last_ready = r.last_ready /\ a.stop = r.stop
        /\ Place(a) = At(Len(c), 0)
    <3> HIDE DEF a
    <3> QED BY <1>1, SkippedFields DEF a
  <2> QED BY <1>2, <1>4, <2>1
<1>7. a.offset = Len(c) /\ Len(c) \in Nat
  <2>1. c \in Seq([type : Answered, id : Ids])
    BY <1>1 DEF CommandsOf
  <2>2. a.offset = Place(a).offset
    BY DEF Place, At
  <2> QED BY <1>4, <1>6, <2>1, <2>2, LenProperties DEF At
<1> HIDE DEF a, c
<1>11. GoesAlong(x, at, a, k)
  BY <1>6, <1>7 DEF GoesAlong, c
<1>12. EndsAlong(x, group, a)
  BY <1>6 DEF EndsAlong
<1>13. FailsAlong(x, group, a)
  BY <1>4, <1>6, NoneAssumption DEF FailsAlong, Fatal, NotFatal
<1>14. MatchesAlong(a)
  BY <1>6 DEF Along, MatchesAlong
<1>15. SwitchesAlong(x, group, a)
  <2>1. SwitchesAlong(x, group, r)
    BY DEF Along
  <2>2. /\ RowPlace(c, a) \/ Elsewhere(c, a)
        /\ DataPlace(c, a) \/ Elsewhere(c, a)
    BY <1>1, <1>4, <1>6, SyncPlaces, PlacesAgree
  <2>3. \A j \in 1 .. r.count : j \in 1 .. a.count
    BY <1>2, <1>6
  <2> QED BY <1>6, <2>1, <2>2, <2>3 DEF SwitchesAlong, c
<1>16. CopiesAlong(x, group, a)
  <2>1. SUFFICES ASSUME NEW j \in 1 .. k, group[j].type = "CopyFromBegin",
                        \A l \in j + 1 .. k : Aside(group[l])
                 PROVE  FALSE
    BY <1>6 DEF CopiesAlong
  <2>2. j = k
    BY <1>3, <2>1
  <2> QED BY <2>1, <2>2
<1> QED BY <1>5, <1>11, <1>12, <1>13, <1>14, <1>15, <1>16 DEF Along

LEMMA AlongEnds ==
  ASSUME NEW x, WellFormed(x), NEW group \in Seq(Messages), NEW at, NEW k \in 1 .. Len(group),
         NEW r \in PutStates(x), Along(x, group, at, r, k - 1), r.stop = "no",
         Moves(x.commands, at[k - 1], group[k], at[k]), Aside(group[k])
  PROVE  Along(x, group, at, PutMessage(x, r, group[k]), k)
<1> DEFINE c == x.commands
           m == group[k]
           a == PutMessage(x, r, m)
<1>1. /\ CommandsOf(c, x.number) /\ r \in PutRecords(x) /\ Place(r) \in Places(c)
      /\ r.offset <= Len(c) /\ m \in Messages /\ Len(group) \in Nat
      /\ Place(r).offset = r.offset /\ Place(r).step = r.step
  BY ElementOfSeq, LenProperties, PlacesAgree DEF WellFormed, PutStates
<1>2. r.count = k - 1 /\ Place(r) = at[k - 1]
  BY DEF Along, GoesAlong
<1>3. m.type \in AsynchronousMap \cup {"FatalError"} /\ m.type \notin {"Error", "CopyFromBegin"}
  BY DEF Aside, IsAsync, AsynchronousMap
<1>4. at[k] = Place(r)
  <2>1. ASSUME Answers1(c, Place(r), m) PROVE FALSE
    <3> HIDE DEF c, m
    <3>1. ~ Aside(m)
      BY <1>1, <2>1, AnswerGoes
    <3> QED BY <3>1 DEF m
  <2> QED BY <1>2, <1>3, <2>1 DEF Moves
<1>5. /\ a.count = k /\ a.processed = r.processed /\ a.last_ready = r.last_ready
      /\ Place(a) = at[k]
      /\ \/ /\ m.type = "FatalError" /\ a.fatal = Fatal /\ a.stop = "return"
            /\ a.error_message = m
         \/ a.fatal = r.fatal /\ a.stop = "no" /\ a.error_message = r.error_message
  <2>1. CASE m.type = "FatalError"
    <3>1. a = EndedWith(r, m)
      BY <1>1, <2>1, PutFatalError
    <3> HIDE DEF a, m
    <3> QED BY <1>1, <1>2, <1>4, <2>1, <3>1, EndedFields
  <2>2. CASE m.type # "FatalError"
    <3>1. PICK h \in Seq(Messages) : a = Heard(r, h)
      <4>1. IsAsync(m)
        BY <2>2 DEF Aside
      <4> QED BY <1>1, <4>1, PutAsynchronous
    <3> HIDE DEF a, m
    <3> QED BY <1>1, <1>2, <1>4, <2>2, <3>1, HeardFields
  <2> QED BY <2>1, <2>2
<1>6. a.offset = r.offset
  BY <1>4, <1>5 DEF Place, At
<1> HIDE DEF a, c
<1>11. GoesAlong(x, at, a, k)
  <2>1. ~ (a.offset > Len(x.commands)) /\ a.stop # "break"
    <3>1. r.offset \in 1 .. Len(c) /\ Len(c) \in Nat
      BY <1>1, PlaceType
    <3> QED BY <1>1, <1>5, <1>6, <3>1 DEF c
  <2> QED BY <1>5, <2>1 DEF GoesAlong
<1>12. EndsAlong(x, group, a)
  BY <1>5 DEF EndsAlong
<1>13. FailsAlong(x, group, a)
  <2>1. FailsAlong(x, group, r)
    BY DEF Along
  <2>2. \A j \in 1 .. k : j \in 1 .. k - 1 \/ j = k
    OBVIOUS
  <2>3. Fatal # None
    BY NoneAssumption DEF Fatal
  <2>4. m.type # "Error"
    BY <1>3
  <2>5. a.fatal = r.fatal \/ (a.fatal = Fatal /\ a.stop = "return")
    BY <1>5
  <2>6. a.fatal = Fatal => x.fatal = Fatal \/ a.stop = "return"
    BY <2>1, <2>5, <1>5 DEF FailsAlong
  <2>7. a.fatal = None => x.fatal = None /\ \A j \in 1 .. a.count : group[j].type # "Error"
    <3>1. SUFFICES ASSUME a.fatal = None
                   PROVE  x.fatal = None /\ \A j \in 1 .. k : group[j].type # "Error"
      BY <1>5
    <3>2. r.fatal = None
      BY <2>3, <2>5, <3>1
    <3>3. x.fatal = None /\ \A j \in 1 .. k - 1 : group[j].type # "Error"
      BY <1>2, <2>1, <3>2 DEF FailsAlong
    <3> QED BY <2>2, <2>4, <3>3
  <2>8. a.error_message = x.error_message
          \/ (a.error_message.type = "Error" => a.error_message.of[1] = x.number)
    BY <1>5, <2>1, <2>4 DEF FailsAlong
  <2> QED BY <2>6, <2>7, <2>8 DEF FailsAlong
<1>14. MatchesAlong(a)
  BY <1>5 DEF Along, MatchesAlong
<1>15. SwitchesAlong(x, group, a)
  <2>1. SwitchesAlong(x, group, r)
    BY DEF Along
  <2>2. /\ RowPlace(c, a) <=> RowPlace(c, r)
        /\ DataPlace(c, a) <=> DataPlace(c, r)
        /\ Elsewhere(c, a) <=> Elsewhere(c, r)
    BY <1>4, <1>5, PlacesAgree
  <2>3. \A j \in 1 .. r.count : j \in 1 .. a.count
    BY <1>2, <1>5
  <2> QED BY <1>5, <2>1, <2>2, <2>3 DEF SwitchesAlong, c
<1>16. CopiesAlong(x, group, a)
  <2>1. SUFFICES ASSUME NEW j \in 1 .. k, group[j].type = "CopyFromBegin",
                        \A l \in j + 1 .. k : Aside(group[l])
                 PROVE  /\ a.processed # <<>> /\ Last(a.processed).reply.type = "CopyFromBegin"
                        /\ CopyPlace(c, a)
    BY <1>5 DEF CopiesAlong, c
  <2>2. j # k /\ j \in 1 .. r.count /\ \A l \in j + 1 .. r.count : l \in j + 1 .. k
    BY <1>2, <1>3, <2>1
  <2>3. /\ r.processed # <<>> /\ Last(r.processed).reply.type = "CopyFromBegin"
        /\ CopyPlace(c, r)
    BY <2>1, <2>2 DEF Along, CopiesAlong, c
  <2>4. CopyPlace(c, a) <=> CopyPlace(c, r)
    BY <1>4, <1>5, PlacesAgree
  <2> QED BY <1>5, <2>3, <2>4
<1> QED BY <1>11, <1>12, <1>13, <1>14, <1>15, <1>16 DEF Along, a

(* A group that goes along a track is put without a protocol violation.    *)
LEMMA AlongTrack ==
  ASSUME NEW x \in Transactions, WellFormed(x), Place(x) \in Places(x.commands),
         x.offset <= Len(x.commands), NEW group \in Seq(Messages),
         NEW run, PutRun(x, group, run), NEW at, Track(x.commands, Place(x), group, at)
  PROVE  Along(x, group, at, run[Len(group)], Len(group))
<1> DEFINE c == x.commands
           n == Len(group)
           T == {k \in Nat : k <= n => Along(x, group, at, run[k], k)}
<1>1. /\ n \in Nat /\ run \in [0 .. n -> PutStates(x)] /\ run[0] = PutStart(x)
      /\ \A k \in 1 .. n : run[k] = PutMessage(x, run[k - 1], group[k])
      /\ at[0] = Place(x) /\ \A k \in 1 .. n : Moves(c, at[k - 1], group[k], at[k])
  BY LenProperties DEF PutRun, Track
<1>2. 0 \in T
  <2> DEFINE r == PutStart(x)
  <2>1. /\ r.count = 0 /\ r.stop = "no" /\ r.processed = <<>> /\ r.fatal = x.fatal
        /\ r.error_message = x.error_message /\ Place(r) = Place(x) /\ r.offset = x.offset
    BY DEF PutStart, Place
  <2>2. Len(c) \in Nat /\ x.offset \in 1 .. Len(c)
    <3>1. CommandsOf(c, x.number) /\ Place(x).offset <= Len(c)
      BY PlacesAgree DEF WellFormed
    <3> HIDE DEF c
    <3> QED BY <3>1, PlaceType, PlacesAgree DEF c
  <2> HIDE DEF r
  <2>3. GoesAlong(x, at, r, 0)
    BY <1>1, <2>1, <2>2 DEF GoesAlong
  <2>4. EndsAlong(x, group, r) /\ FailsAlong(x, group, r)
    BY <2>1 DEF EndsAlong, FailsAlong
  <2>5. MatchesAlong(r) /\ SwitchesAlong(x, group, r) /\ CopiesAlong(x, group, r)
    <3>1. Len(r.processed) = 0
      BY <2>1
    <3> QED BY <2>1, <3>1 DEF MatchesAlong, SwitchesAlong, CopiesAlong
  <2> QED BY <1>1, <2>3, <2>4, <2>5 DEF Along, r
<1>3. ASSUME NEW j \in Nat, j \in T PROVE j + 1 \in T
  <2> DEFINE k == j + 1
             r == run[j]
  <2>1. SUFFICES ASSUME k <= n PROVE Along(x, group, at, run[k], k)
    OBVIOUS
  <2>2. /\ k \in 1 .. n /\ k - 1 = j /\ r \in PutStates(x) /\ Along(x, group, at, r, k - 1)
        /\ run[k] = PutMessage(x, r, group[k]) /\ Moves(c, at[k - 1], group[k], at[k])
    <3>1. k \in 1 .. n /\ k - 1 = j /\ j \in 0 .. n
      BY <1>1, <2>1
    <3> QED BY <1>1, <1>3, <3>1
  <2>3. CASE r.stop # "no"
    <3>1. run[k] = r
      BY <2>2, <2>3 DEF PutMessage
    <3>2. GoesAlong(x, at, r, k)
      <4>1. GoesAlong(x, at, r, k - 1)
        BY <2>2 DEF Along
      <4> QED BY <2>2, <2>3, <4>1 DEF GoesAlong
    <3> QED BY <2>2, <3>1, <3>2 DEF Along
  <2>4. CASE r.stop = "no"
    <3> HIDE DEF k, r
    <3>1. CASE group[k].type \in DOMAIN Paths(x, r)
      BY <2>2, <2>4, <3>1, AlongAccepts
    <3>2. CASE group[k].type = "Error"
      BY <2>2, <2>4, <3>2, AlongFails
    <3>3. CASE Aside(group[k])
      BY <2>2, <2>4, <3>3, AlongEnds
    <3>4. group[k].type \in DOMAIN Paths(x, r) \/ group[k].type = "Error" \/ Aside(group[k])
      <4>1. Place(r) = at[k - 1]
        BY <2>2, <2>4 DEF Along, GoesAlong
      <4>2. Answers1(c, Place(r), group[k]) => group[k].type \in DOMAIN Paths(x, r)
        BY PlacesAgree DEF Answers1, Paths
      <4> QED BY <2>2, <4>1, <4>2 DEF Moves
    <3> QED BY <3>1, <3>2, <3>3, <3>4
  <2> QED BY <2>3, <2>4
<1>4. Nat \subseteq T
  <2> HIDE DEF T
  <2> QED BY <1>2, <1>3, NaturalInduction
<1> QED BY <1>1, <1>4

-----------------------------------------------------------------------------
(* What a put leaves in the transaction.                                   *)
Matched(x) ==
  /\ \A i \in 1 .. Len(x.completed) : x.completed[i].reply.of = x.completed[i].command
  /\ x.error_message = None
       \/ (x.error_message.type = "Error" => x.error_message.of[1] = x.number)

FastPlace(x) ==
  /\ x.state = "put_tupledata" => RowPlace(x.commands, x)
  /\ x.state = "put_copydata" => DataPlace(x.commands, x)

\* It has met the end of the server.
Lost(group, y, count) ==
  /\ y.state = "Complete" /\ y.fatal = Fatal
  /\ count >= 1 /\ group[count].type = "FatalError"

\* It has gone along at.
Went(x, group, at, y, count) ==
  /\ Place(y) = at[count]
  /\ y.state \in Receiving \cup {"Complete", "sent_from_stdin"}
  /\ (y.state = "Complete") = (y.offset > Len(y.commands))
  /\ y.state = "Complete" =>
       count >= 1 /\ group[count].type = "Ready" /\ y.last_ready = group[count].tx
  /\ FastPlace(y)
  /\ y.state = "sent_from_stdin" =>
       /\ \E j \in 1 .. count : group[j].type = "CopyFromBegin"
       /\ y.reissued = SubSeq(y.commands, y.offset + 1, Len(y.commands))
  /\ \A j \in 1 .. count :
       group[j].type = "CopyFromBegin" /\ (\A l \in j + 1 .. count : Aside(group[l])) =>
         y.state = "sent_from_stdin" /\ CopyPlace(y.commands, y)
  /\ y.fatal = Fatal => x.fatal = Fatal
  /\ y.fatal = None => x.fatal = None /\ \A j \in 1 .. count : group[j].type # "Error"

Taken(x, group, at, y, count) ==
  /\ y \in Transactions /\ count \in 0 .. Len(group) /\ Matched(y)
  /\ y.commands = x.commands /\ y.number = x.number /\ y.messages = x.messages
  /\ Lost(group, y, count) \/ Went(x, group, at, y, count)

LEMMA TransactionsAre ==
  Transactions =
    [number : Nat, commands : Seq([type : DOMAIN hook \cup {"Disconnect"}, id : Ids]),
     offset : Nat, step : 0 .. 3, completed : Seq(Completions), state : States,
     messages : MessageSets, reissued : Seq([type : DOMAIN hook, id : Ids]),
     fatal : {Fatal, NotFatal, None}, error_message : ErrorMessages,
     last_ready : Statuses \cup {None}]
<1>1. Ids = Nat \X Nat /\ Statuses \cup {None} = {"I", "T", "E", None}
  BY DEF Ids, Statuses
<1>2. Completions = [command : Nat \X Nat, reply : [type : Replies, of : Nat \X Nat, tx : {"I", "T", "E", None}]]
  BY ONLY <1>1 DEF Completions
<1>3. ErrorMessages =
        [type : {"Error", "FatalError", "ClientError"},
         of : (Nat \X Nat) \cup {<<text>> : text \in ClientErrors} \cup {None}, tx : {None}] \cup {None}
  BY ONLY <1>1 DEF ErrorMessages
<1> QED BY ONLY <1>1, <1>2, <1>3 DEF Transactions

LEMMA PutEndReturns ==
  ASSUME NEW x \in Transactions, NEW p \in PutRecords(x), p.stop = "return",
         NEW y, y = PutEnd(x, p).xact
  PROVE  /\ y \in Transactions /\ y.state = "Complete" /\ y.fatal = p.fatal
         /\ y.error_message = p.error_message /\ y.completed = x.completed
         /\ y.commands = x.commands /\ y.number = x.number /\ y.messages = x.messages
         /\ PutEnd(x, p).count = p.count /\ ~ PutEnd(x, p).raised
<1>1. y = [[x EXCEPT !.fatal = p.fatal, !.error_message = p.error_message,
                     !.last_ready = p.last_ready] EXCEPT !.state = "Complete"]
  BY DEF PutEnd, Result
<1>2. PutEnd(x, p).count = p.count /\ ~ PutEnd(x, p).raised
  BY DEF PutEnd, Result
<1>3. /\ p.fatal \in {Fatal, NotFatal, None} /\ p.error_message \in ErrorMessages
      /\ p.last_ready \in Statuses \cup {None} /\ "Complete" \in States
  BY DEF PutRecords, States
<1>4. y = [number |-> x.number, commands |-> x.commands, offset |-> x.offset, step |-> x.step,
           completed |-> x.completed, state |-> "Complete", messages |-> x.messages,
           reissued |-> x.reissued, fatal |-> p.fatal, error_message |-> p.error_message,
           last_ready |-> p.last_ready]
  <2>1. x = [number |-> x.number, commands |-> x.commands, offset |-> x.offset, step |-> x.step,
             completed |-> x.completed, state |-> x.state, messages |-> x.messages,
             reissued |-> x.reissued, fatal |-> x.fatal, error_message |-> x.error_message,
             last_ready |-> x.last_ready]
    BY DEF Transactions
  <2> QED BY ONLY <1>1, <2>1
<1>5. y \in Transactions
  BY <1>3, <1>4, TransactionsAre
<1> QED BY <1>2, <1>4, <1>5

\* y is x with what the loop put p in it.
PutWent(x, p, y) ==
  /\ y \in Transactions /\ y.state = Switched(x, p) /\ y.fatal = p.fatal
  /\ y.error_message = p.error_message /\ y.completed = x.completed \o p.processed
  /\ y.commands = x.commands /\ y.number = x.number /\ y.messages = x.messages
  /\ y.offset = p.offset /\ y.step = p.step /\ y.last_ready = p.last_ready
  /\ y.state = "sent_from_stdin" =>
       y.reissued = SubSeq(x.commands, p.offset + 1, Len(x.commands))
  /\ PutEnd(x, p).count = p.count /\ ~ PutEnd(x, p).raised

LEMMA PutEndGoesOn ==
  ASSUME NEW x \in Transactions, NEW p \in PutRecords(x), p.stop # "return",
         x.commands \in Seq([type : Answered, id : Ids]), Switched(x, p) \in States,
         NEW y, y = PutEnd(x, p).xact
  PROVE  PutWent(x, p, y)
<1> DEFINE s == Switched(x, p)
           t == SubSeq(x.commands, p.offset + 1, Len(x.commands))
           i == IF s = "sent_from_stdin" THEN t ELSE x.reissued
           c == x.completed \o p.processed
<1>1. y = [[x EXCEPT !.fatal = p.fatal, !.error_message = p.error_message,
                     !.last_ready = p.last_ready]
             EXCEPT !.offset = p.offset, !.step = p.step, !.completed = c, !.state = s,
                    !.reissued = i]
  BY DEF PutEnd, Result, Transactions
<1>2. PutEnd(x, p).count = p.count /\ ~ PutEnd(x, p).raised
  BY DEF PutEnd, Result
<1>3. /\ p.fatal \in {Fatal, NotFatal, None} /\ p.error_message \in ErrorMessages
      /\ p.last_ready \in Statuses \cup {None} /\ p.offset \in Nat /\ p.step \in 0 .. 3
      /\ p.processed \in Seq(Completions)
  <2>1. Len(x.commands) \in Nat
    BY LenProperties
  <2> QED BY <2>1 DEF PutRecords
<1>4. c \in Seq(Completions)
  <2>1. x.completed \in Seq(Completions)
    BY DEF Transactions, Completions, Ids, Statuses
  <2> QED BY <1>3, <2>1, ConcatProperties
<1>5. i \in Seq([type : DOMAIN hook, id : Ids])
  <2>1. x.reissued \in Seq([type : DOMAIN hook, id : Ids])
    BY DEF Transactions, Ids
  <2>2. t \in Seq([type : DOMAIN hook, id : Ids])
    <3>1. Len(x.commands) \in Nat /\ p.offset + 1 \in Nat /\ p.offset + 1 >= 1
      BY <1>3, LenProperties
    <3>2. \A k \in p.offset + 1 .. Len(x.commands) : x.commands[k] \in [type : DOMAIN hook, id : Ids]
      <4>1. SUFFICES ASSUME NEW k \in p.offset + 1 .. Len(x.commands)
                     PROVE  x.commands[k] \in [type : DOMAIN hook, id : Ids]
        OBVIOUS
      <4>2. k \in 1 .. Len(x.commands)
        BY <1>3, <3>1
      <4>3. x.commands[k] \in [type : Answered, id : Ids]
        BY <4>2, ElementOfSeq
      <4> QED BY <4>3, HookDomain DEF Answered, Extended
    <3>3. p.offset + 1 \in Int /\ Len(x.commands) \in Int
      BY <3>1
    <3> QED BY <3>2, <3>3, SubSeqProperties
  <2> QED BY <2>1, <2>2
<1>6. (s = "sent_from_stdin" => i = t) /\ s \in States /\ y.state = y.state
  OBVIOUS
<1> HIDE DEF s, t, i, c
<1>7. y = [number |-> x.number, commands |-> x.commands, offset |-> p.offset, step |-> p.step,
           completed |-> c, state |-> s, messages |-> x.messages,
           reissued |-> i, fatal |-> p.fatal, error_message |-> p.error_message,
           last_ready |-> p.last_ready]
  BY <1>1 DEF Transactions
<1>8. y \in Transactions
  BY <1>3, <1>4, <1>5, <1>6, <1>7, TransactionsAre
<1>9. /\ y.state = s /\ y.reissued = i /\ y.completed = c /\ y.fatal = p.fatal
      /\ y.error_message = p.error_message /\ y.commands = x.commands /\ y.number = x.number
      /\ y.messages = x.messages /\ y.offset = p.offset /\ y.step = p.step
      /\ y.last_ready = p.last_ready
  BY <1>7
<1>10. y.state = Switched(x, p) /\ y.completed = x.completed \o p.processed
  BY <1>9 DEF s, c
<1>11. y.state = "sent_from_stdin" =>
         y.reissued = SubSeq(x.commands, p.offset + 1, Len(x.commands))
  BY <1>6, <1>9 DEF t
<1> QED BY ONLY <1>2, <1>8, <1>9, <1>10, <1>11 DEF PutWent

-----------------------------------------------------------------------------

LEMMA SwitchedIs ==
  ASSUME NEW x, NEW p, NEW group, SwitchesAlong(x, group, p), x.state = "standard_put",
         p.offset \in Nat, Len(x.commands) \in Nat
  PROVE  /\ Switched(x, p) \in Receiving \cup {"Complete", "sent_from_stdin"}
         /\ (Switched(x, p) = "Complete") = (p.offset > Len(x.commands))
         /\ Switched(x, p) = "put_tupledata" => RowPlace(x.commands, p)
         /\ Switched(x, p) = "put_copydata" => DataPlace(x.commands, p)
         /\ Switched(x, p) = "sent_from_stdin" =>
              \E j \in 1 .. p.count : group[j].type = "CopyFromBegin"
         /\ CopyPlace(x.commands, p) /\ p.processed # <<>>
              /\ Last(p.processed).reply.type = "CopyFromBegin" => Switched(x, p) = "sent_from_stdin"
<1> DEFINE c == x.commands
           last == Last(p.processed).reply.type
           type == c[p.offset].type
<1>1. CASE p.offset > Len(c)
  <2>1. Switched(x, p) = "Complete"
    BY <1>1 DEF Switched
  <2>2. ~ CopyPlace(c, p)
    <3>1. CopyPlace(c, p) => p.offset <= Len(c)
      BY DEF CopyPlace
    <3>2. ~ (p.offset <= Len(c))
      BY <1>1
    <3> QED BY <3>1, <3>2
  <2> QED BY <1>1, <2>1, <2>2
<1>2. CASE ~ (p.offset > Len(c)) /\ type \notin {"Query", "Execute"}
  <2>1. Switched(x, p) = "standard_put"
    BY <1>2 DEF Switched
  <2>2. ~ CopyPlace(c, p)
    BY <1>2 DEF CopyPlace
  <2> QED BY <1>2, <2>1, <2>2 DEF Receiving
<1>3. CASE ~ (p.offset > Len(c)) /\ type \in {"Query", "Execute"} /\ p.processed = <<>>
  <2>1. Switched(x, p) = "standard_put"
    BY <1>3 DEF Switched
  <2> QED BY <1>3, <2>1 DEF Receiving
<1>4. CASE ~ (p.offset > Len(c)) /\ type \in {"Query", "Execute"} /\ p.processed # <<>>
  <2>1. Switched(x, p) = CASE last \in {"CopyData", "CopyToBegin"} -> "put_copydata"
                           [] last = "Tuple" -> "put_tupledata"
                           [] last = "CopyFromBegin" -> "sent_from_stdin"
                           [] OTHER -> "standard_put"
    BY <1>4 DEF Switched
  <2>2. ~ Elsewhere(c, p)
    BY <1>4 DEF Elsewhere
  <2>3. /\ last = "Tuple" => RowPlace(c, p)
        /\ last \in {"CopyData", "CopyToBegin"} => DataPlace(c, p)
        /\ last = "CopyFromBegin" => \E j \in 1 .. p.count : group[j].type = "CopyFromBegin"
    BY <1>4, <2>2 DEF SwitchesAlong
  <2> HIDE DEF last, c
  <2>4. CASE last = "Tuple"
    BY <1>4, <2>1, <2>3, <2>4 DEF Receiving, c, last
  <2>5. CASE last = "CopyFromBegin"
    BY <1>4, <2>1, <2>3, <2>5 DEF Receiving, c, last
  <2>6. CASE last \in {"CopyData", "CopyToBegin"}
    BY <1>4, <2>1, <2>3, <2>6 DEF Receiving, c, last
  <2>7. CASE last \notin {"Tuple", "CopyFromBegin", "CopyData", "CopyToBegin"}
    BY <1>4, <2>1, <2>7 DEF Receiving, c, last
  <2> QED BY <2>4, <2>5, <2>6, <2>7
<1> QED BY <1>1, <1>2, <1>3, <1>4

LEMMA StandardPutTakes ==
  ASSUME NEW x \in Transactions, WellFormed(x), Place(x) \in Places(x.commands),
         x.offset <= Len(x.commands), x.state = "standard_put", Matched(x),
         NEW group \in Seq(Messages), NEW at, Track(x.commands, Place(x), group, at)
  PROVE  /\ Taken(x, group, at, standard_put(x, group).xact, standard_put(x, group).count)
         /\ ~ standard_put(x, group).raised
<1> DEFINE c == x.commands
           n == Len(group)
           y == standard_put(x, group).xact
           k == standard_put(x, group).count
<1>1. PICK run : PutRun(x, group, run) /\ standard_put(x, group) = PutEnd(x, run[n])
  BY PutRuns
<1> DEFINE p == run[n]
<1>2. n \in Nat /\ p \in PutStates(x) /\ p \in PutRecords(x) /\ Along(x, group, at, p, n)
  <2>1. n \in Nat
    BY LenProperties
  <2>2. run \in [0 .. n -> PutStates(x)]
    BY <1>1 DEF PutRun
  <2>3. Along(x, group, at, run[n], n)
    BY <1>1, AlongTrack
  <2> QED BY <2>1, <2>2, <2>3 DEF PutStates
<1>3. c \in Seq([type : Answered, id : Ids]) /\ Len(c) \in Nat
  <2>1. c \in Seq([type : Answered, id : Ids])
    BY DEF WellFormed, CommandsOf
  <2> QED BY <2>1, LenProperties
<1>4. y = PutEnd(x, p).xact /\ k = PutEnd(x, p).count
  BY <1>1
<1>5. SwitchesAlong(x, group, p) /\ GoesAlong(x, at, p, n) /\ EndsAlong(x, group, p)
      /\ FailsAlong(x, group, p) /\ MatchesAlong(p) /\ CopiesAlong(x, group, p)
  BY <1>2 DEF Along
<1> HIDE DEF p, c
<1>6. p.count \in 0 .. n /\ p.stop \in {"no", "break", "return"} /\ p.processed \in Seq(Completions)
  BY <1>2, <1>5 DEF GoesAlong, PutRecords
<1>7. x.completed \in Seq(Completions)
  BY TransactionsAre
<1>8. p.error_message = None
        \/ (p.error_message.type = "Error" => p.error_message.of[1] = x.number)
  BY <1>5 DEF FailsAlong, Matched
<1>9. CASE p.stop = "return"
  <2>1. /\ y \in Transactions /\ y.state = "Complete" /\ y.fatal = p.fatal
        /\ y.error_message = p.error_message /\ y.completed = x.completed
        /\ y.commands = x.commands /\ y.number = x.number /\ y.messages = x.messages
        /\ k = p.count /\ ~ standard_put(x, group).raised
    <3> HIDE DEF y, k
    <3> QED BY <1>1, <1>2, <1>4, <1>9, PutEndReturns DEF p
  <2> HIDE DEF y, k
  <2>2. Lost(group, y, k)
    BY <1>5, <1>9, <2>1 DEF Lost, EndsAlong
  <2>3. Matched(y)
    BY <1>8, <2>1 DEF Matched
  <2> QED BY <1>6, <2>1, <2>2, <2>3 DEF Taken, y, k
<1>10. CASE p.stop # "return"
  <2>1. /\ Switched(x, p) \in Receiving \cup {"Complete", "sent_from_stdin"}
        /\ (Switched(x, p) = "Complete") = (p.offset > Len(c))
        /\ Switched(x, p) = "put_tupledata" => RowPlace(c, p)
        /\ Switched(x, p) = "put_copydata" => DataPlace(c, p)
        /\ Switched(x, p) = "sent_from_stdin" =>
             \E j \in 1 .. p.count : group[j].type = "CopyFromBegin"
        /\ CopyPlace(c, p) /\ p.processed # <<>>
             /\ Last(p.processed).reply.type = "CopyFromBegin" => Switched(x, p) = "sent_from_stdin"
    <3>1. p.offset \in Nat
      BY <1>2, <1>3 DEF PutRecords, c
    <3> QED BY <1>3, <1>5, <3>1, SwitchedIs DEF c
  <2>2. Switched(x, p) \in States
    BY <2>1 DEF States, Receiving, Sending
  <2>3. /\ y \in Transactions /\ y.state = Switched(x, p) /\ y.fatal = p.fatal
        /\ y.error_message = p.error_message /\ y.completed = x.completed \o p.processed
        /\ y.commands = x.commands /\ y.number = x.number /\ y.messages = x.messages
        /\ y.offset = p.offset /\ y.step = p.step /\ y.last_ready = p.last_ready
        /\ y.state = "sent_from_stdin" =>
             y.reissued = SubSeq(x.commands, p.offset + 1, Len(x.commands))
        /\ k = p.count /\ ~ standard_put(x, group).raised
    <3> HIDE DEF y, k
    <3>1. /\ x \in Transactions /\ p \in PutRecords(x) /\ p.stop # "return"
          /\ x.commands \in Seq([type : Answered, id : Ids])
      BY <1>2, <1>3, <1>10 DEF p, c
    <3>2. y = PutEnd(x, p).xact /\ k = PutEnd(x, p).count /\ standard_put(x, group).raised = PutEnd(x, p).raised
      BY <1>1, <1>4 DEF p, y, k
    <3> HIDE DEF p
    <3>3. PutWent(x, p, y)
      BY ONLY <2>2, <3>1, <3>2, PutEndGoesOn
    <3> QED BY ONLY <3>2, <3>3 DEF PutWent
  <2> HIDE DEF y, k
  <2>4. Matched(y)
    <3>1. /\ Len(x.completed) \in Nat /\ Len(p.processed) \in Nat
          /\ Len(y.completed) = Len(x.completed) + Len(p.processed)
          /\ \A i \in 1 .. Len(x.completed) + Len(p.processed) :
               y.completed[i] = IF i <= Len(x.completed) THEN x.completed[i]
                                ELSE p.processed[i - Len(x.completed)]
      <4> DEFINE s == x.completed
                 t == p.processed
      <4>1. s \in Seq(Completions) /\ t \in Seq(Completions) /\ y.completed = s \o t
        BY <1>6, <1>7, <2>3
      <4>2. Len(s) \in Nat /\ Len(t) \in Nat
        <5> HIDE DEF s, t
        <5> QED BY <4>1, LenProperties
      <4>3. Len(s \o t) = Len(s) + Len(t)
            /\ \A i \in 1 .. Len(s) + Len(t) :
                 (s \o t)[i] = IF i <= Len(s) THEN s[i] ELSE t[i - Len(s)]
        <5> HIDE DEF s, t
        <5> QED BY <4>1, ConcatProperties
      <4> QED BY <4>1, <4>2, <4>3
    <3> DEFINE a == Len(x.completed)
               b == Len(p.processed)
               u == x.completed
               v == p.processed
               w == y.completed
    <3>0. /\ a \in Nat /\ b \in Nat /\ Len(w) = a + b
          /\ \A i \in 1 .. a + b : w[i] = IF i <= a THEN u[i] ELSE v[i - a]
          /\ \A i \in 1 .. a : u[i].reply.of = u[i].command
          /\ \A i \in 1 .. b : v[i].reply.of = v[i].command
      BY <1>5, <3>1 DEF Matched, MatchesAlong
    <3>2. ASSUME NEW i \in 1 .. Len(y.completed)
          PROVE  y.completed[i].reply.of = y.completed[i].command
      <4>1. SUFFICES w[i].reply.of = w[i].command
        OBVIOUS
      <4>2. i \in 1 .. Len(w)
        OBVIOUS
      <4> HIDE DEF a, b, u, v, w
      <4>3. CASE i <= a
        <5>1. i \in 1 .. a /\ w[i] = u[i]
          BY <3>0, <4>2, <4>3
        <5> QED BY <3>0, <5>1
      <4>4. CASE ~ (i <= a)
        <5>1. i - a \in 1 .. b /\ w[i] = v[i - a]
          BY <3>0, <4>2, <4>4
        <5> QED BY <3>0, <5>1
      <4> QED BY <4>3, <4>4
    <3> QED BY <1>8, <2>3, <3>2 DEF Matched
  <2>5. Place(y) = at[k] /\ Place(y) = Place(p)
    BY <1>5, <2>3 DEF GoesAlong, Place
  <2>6. FastPlace(y)
    <3>1. /\ RowPlace(c, y) <=> RowPlace(c, p)
          /\ DataPlace(c, y) <=> DataPlace(c, p)
      BY <2>5, PlacesAgree
    <3> QED BY <2>1, <2>3, <3>1 DEF FastPlace, c
  <2>7. /\ (y.state = "Complete") = (y.offset > Len(y.commands))
        /\ y.state = "Complete" =>
             k >= 1 /\ group[k].type = "Ready" /\ y.last_ready = group[k].tx
        /\ y.state # "Complete" => k = Len(group)
    BY <1>5, <1>6, <1>10, <2>1, <2>3 DEF GoesAlong, EndsAlong, c
  <2>8. \A j \in 1 .. k :
          group[j].type = "CopyFromBegin" /\ (\A l \in j + 1 .. k : Aside(group[l])) =>
            y.state = "sent_from_stdin" /\ CopyPlace(y.commands, y)
    <3>1. CopyPlace(c, y) <=> CopyPlace(c, p)
      BY <2>5, PlacesAgree
    <3> QED BY <1>5, <2>1, <2>3, <3>1 DEF CopiesAlong, c
  <2>9. Went(x, group, at, y, k)
    <3>1. /\ y.fatal = Fatal => x.fatal = Fatal
          /\ y.fatal = None => x.fatal = None /\ \A j \in 1 .. k : group[j].type # "Error"
      BY <1>5, <1>10, <2>3 DEF FailsAlong
    <3>2. y.state = "sent_from_stdin" =>
            /\ \E j \in 1 .. k : group[j].type = "CopyFromBegin"
            /\ y.reissued = SubSeq(y.commands, y.offset + 1, Len(y.commands))
      BY <2>1, <2>3
    <3> QED BY <2>1, <2>3, <2>5, <2>6, <2>7, <2>8, <3>1, <3>2 DEF Went
  <2> QED BY <1>6, <2>3, <2>4, <2>9 DEF Taken, y, k
<1> QED BY <1>9, <1>10

-----------------------------------------------------------------------------
(* The fast paths.                                                         *)

FastType(c, p, type) ==
  \/ type = "Tuple" /\ RowPlace(c, p)
  \/ type = "CopyData" /\ DataPlace(c, p)

LEMMA StaysInPlace ==
  ASSUME NEW c, NEW n, CommandsOf(c, n), NEW p \in Places(c), NEW m, FastType(c, p, m.type),
         NEW q, Moves(c, p, m, q)
  PROVE  q = p /\ m.of = c[p.offset].id /\ m.type \in Replies
<1> DEFINE type == c[p.offset].type
<1>1. p.offset <= Len(c) /\ type \in {"Query", "Execute"}
      /\ (m.type = "Tuple" => p.step \in {0, 1, 3}) /\ (m.type = "CopyData" => p.step \in {0, 2})
  BY DEF FastType, RowPlace, DataPlace
<1>2. m.type \in {"Tuple", "CopyData"}
  BY DEF FastType
<1>3. Answers1(c, p, m) /\ q = After(c, p, m.type)
  BY <1>2 DEF Moves, Aside, IsAsync, AsynchronousMap
<1>4. m.of = c[p.offset].id /\ m.type \in DOMAIN hook[type][p.step + 1]
  BY <1>3 DEF Answers1
<1>5. p.step \in 0 .. 3 /\ p = At(p.offset, p.step)
  BY <1>1, PlaceType
<1>6. hook[type][p.step + 1][m.type] = p.step
  <2>1. CASE m.type = "Tuple"
    <3>1. (type = "Query" /\ p.step \in {0, 3}) \/ (type = "Execute" /\ p.step = 1)
      BY <2>1 DEF FastType, RowPlace
    <3>2. CASE type = "Query" /\ p.step = 0
      BY <1>4, <2>1, <3>2, QueryHook
    <3>3. CASE type = "Query" /\ p.step = 3
      BY <2>1, <3>3, QueryHook
    <3>4. CASE type = "Execute" /\ p.step = 1
      BY <2>1, <3>4, ExecuteHook
    <3> HIDE DEF type
    <3> QED BY <3>1, <3>2, <3>3, <3>4
  <2>2. CASE m.type = "CopyData"
    <3>1. (type = "Query" /\ p.step \in {0, 2}) \/ (type = "Execute" /\ p.step = 2)
      BY <2>2 DEF FastType, DataPlace
    <3>2. CASE type = "Query" /\ p.step = 0
      BY <1>4, <2>2, <3>2, QueryHook
    <3>3. CASE type = "Query" /\ p.step = 2
      BY <2>2, <3>3, QueryHook
    <3>4. CASE type = "Execute" /\ p.step = 2
      BY <2>2, <3>4, ExecuteHook
    <3> HIDE DEF type
    <3> QED BY <3>1, <3>2, <3>3, <3>4
  <2> QED BY <1>2, <2>1, <2>2
<1>7. q = p
  <2>1. p.step # End
    BY <1>5 DEF End
  <2> QED BY <1>3, <1>5, <1>6, <2>1 DEF After
<1>8. m.type \in Replies
  BY <1>2 DEF Replies
<1> QED BY <1>4, <1>7, <1>8

LEMMA StaysAlong ==
  ASSUME NEW c, NEW n, CommandsOf(c, n), NEW p \in Places(c), NEW s, NEW at, Track(c, p, s, at),
         NEW j \in 0 .. Len(s), Len(s) \in Nat, NEW type, FastType(c, p, type),
         \A k \in 1 .. j : s[k].type = type
  PROVE  at[j] = p /\ \A k \in 1 .. j : s[k].of = c[p.offset].id
<1> DEFINE T == {k \in Nat : k <= j => at[k] = p /\ \A l \in 1 .. k : s[l].of = c[p.offset].id}
<1>1. /\ at[0] = p /\ j \in Nat
      /\ \A k \in 1 .. Len(s) : Moves(c, at[k - 1], s[k], at[k])
  BY DEF Track
<1>2. 0 \in T
  BY <1>1
<1>3. ASSUME NEW k \in Nat, k \in T PROVE k + 1 \in T
  <2>1. SUFFICES ASSUME k + 1 <= j
                 PROVE  at[k + 1] = p /\ \A l \in 1 .. k + 1 : s[l].of = c[p.offset].id
    OBVIOUS
  <2>2. at[k] = p /\ \A l \in 1 .. k : s[l].of = c[p.offset].id
    BY <1>1, <1>3, <2>1
  <2>3. k + 1 \in 1 .. Len(s) /\ (k + 1) - 1 = k /\ k + 1 \in 1 .. j
    BY <1>1, <2>1
  <2>4. Moves(c, p, s[k + 1], at[k + 1]) /\ FastType(c, p, s[k + 1].type)
    <3>1. Moves(c, at[(k + 1) - 1], s[k + 1], at[k + 1])
      BY <1>1, <2>3
    <3> QED BY <2>2, <2>3, <3>1
  <2>5. at[k + 1] = p /\ s[k + 1].of = c[p.offset].id
    BY <2>4, StaysInPlace
  <2>6. \A l \in 1 .. k + 1 : l \in 1 .. k \/ l = k + 1
    OBVIOUS
  <2> QED BY <2>2, <2>5, <2>6
<1>4. Nat \subseteq T
  <2> HIDE DEF T
  <2> QED BY <1>2, <1>3, NaturalInduction
<1> QED BY <1>1, <1>4

LEMMA RowsAre ==
  ASSUME NEW S, NEW group \in Seq(S)
  PROVE  Rows(group) \in 0 .. Len(group) /\ \A i \in 1 .. Rows(group) : group[i].type = "Tuple"
<1> DEFINE rows == {n \in 0 .. Len(group) : \A i \in 1 .. n : group[i].type = "Tuple"}
           D == {Len(group) - n : n \in rows}
<1>1. Len(group) \in Nat
  BY LenProperties
<1>2. D \in SUBSET Nat /\ D # {}
  <2>1. 0 \in rows
    BY <1>1
  <2> QED BY <1>1, <2>1
<1>3. PICK d \in D : \A e \in D : d <= e
  <2> HIDE DEF D
  <2> QED BY <1>2, LeastNatural
<1>4. PICK n \in rows : d = Len(group) - n
  OBVIOUS
<1>5. ASSUME NEW k \in rows PROVE k <= n
  <2>1. Len(group) - k \in D
    OBVIOUS
  <2>2. d <= Len(group) - k /\ k \in Nat /\ n \in Nat
    BY <1>1, <1>3, <2>1
  <2> QED BY <1>1, <1>4, <2>2
<1>6. Rows(group) \in rows
  <2>1. Rows(group) = CHOOSE r \in rows : \A k \in rows : k <= r
    BY DEF Rows
  <2> HIDE DEF rows
  <2> QED BY <1>5, <2>1
<1> QED BY <1>6

LEMMA RecordedTakes ==
  ASSUME NEW x \in Transactions, WellFormed(x), Place(x) \in Places(x.commands),
         x.offset <= Len(x.commands), Matched(x), FastPlace(x),
         x.state \in {"put_tupledata", "put_copydata"},
         NEW group \in Seq(Messages), NEW at, Track(x.commands, Place(x), group, at),
         NEW j \in 1 .. Len(group), NEW type, FastType(x.commands, Place(x), type),
         \A k \in 1 .. j : group[k].type = type,
         NEW data, DOMAIN data = 1 .. j, \A k \in 1 .. j : data[k] = group[k]
  PROVE  Taken(x, group, at, Recorded(x, data), j)
<1> DEFINE c == x.commands
           added == [i \in 1 .. j |-> [command |-> c[x.offset].id, reply |-> group[i]]]
           y == Recorded(x, data)
           done == x.completed \o added
<1>1. Len(group) \in Nat /\ j \in Nat /\ j \in 0 .. Len(group)
  BY LenProperties
<1>2. CommandsOf(c, x.number) /\ Place(x) \in Places(c) /\ Place(x).offset = x.offset /\ Len(c) \in Nat
      /\ x.offset \in 1 .. Len(c) /\ c[x.offset].id \in Ids
  <2>1. CommandsOf(c, x.number) /\ Place(x) \in Places(c) /\ Place(x).offset = x.offset
    BY PlacesAgree DEF WellFormed
  <2> HIDE DEF c
  <2> QED BY <2>1, PlaceType DEF c
<1>3. at[j] = Place(x) /\ \A k \in 1 .. j : group[k].of = c[x.offset].id
  <2>1. \A k \in 1 .. j : group[k].of = c[Place(x).offset].id /\ at[j] = Place(x)
    <3> HIDE DEF c
    <3> QED BY <1>1, <1>2, StaysAlong DEF c
  <2> QED BY <1>1, <1>2, <2>1
<1>4. type \in Replies \ {"Error", "CopyFromBegin"}
  BY DEF FastType, Replies
<1>5. added \in Seq(Completions)
  <2>1. ASSUME NEW i \in 1 .. j PROVE [command |-> c[x.offset].id, reply |-> group[i]] \in Completions
    <3>1. group[i] \in Messages /\ group[i].type \in Replies /\ group[i].of \in Ids
      <4>1. i \in 1 .. Len(group)
        BY <1>1
      <4>2. group[i] \in Messages
        BY <4>1, ElementOfSeq
      <4> QED BY <1>2, <1>3, <1>4, <4>2
    <3>2. group[i] \in [type : Replies, of : Ids, tx : Statuses \cup {None}]
      BY <3>1 DEF Messages
    <3> QED BY <1>2, <3>2 DEF Completions
  <2> HIDE DEF c
  <2> QED BY <1>1, <2>1, IsASeq
<1>6. x.completed \in Seq(Completions)
  BY TransactionsAre
<1>7. done \in Seq(Completions) /\ Len(added) = j
  <2>1. Len(added) = j
    BY <1>1
  <2> HIDE DEF added
  <2> QED BY <1>5, <1>6, <2>1, ConcatProperties
<1>8. y = [x EXCEPT !.completed = done]
  BY DEF Recorded
<1>9. /\ y.completed = done /\ y.commands = c /\ y.number = x.number /\ y.messages = x.messages
      /\ y.state = x.state /\ y.offset = x.offset /\ y.step = x.step /\ y.fatal = x.fatal
      /\ y.error_message = x.error_message
  <2> HIDE DEF y, done
  <2> QED BY <1>8, TransactionsAre
<1>10. y \in Transactions
  <2> HIDE DEF y, done
  <2> QED BY <1>7, <1>8, TransactionsAre
<1>11. Matched(y)
  <2>1. ASSUME NEW i \in 1 .. Len(done) PROVE done[i].reply.of = done[i].command
    <3> DEFINE u == x.completed
               a == Len(x.completed)
    <3>1. u \in Seq(Completions) /\ a \in Nat /\ a = Len(u)
      BY <1>6, LenProperties
    <3>2. Len(done) = a + j /\ \A l \in 1 .. a + j : done[l] = IF l <= a THEN u[l] ELSE added[l - a]
      <4> HIDE DEF u, added
      <4>1. Len(u \o added) = Len(u) + Len(added)
            /\ \A l \in 1 .. Len(u) + Len(added) :
                 (u \o added)[l] = IF l <= Len(u) THEN u[l] ELSE added[l - Len(u)]
        BY <1>5, <3>1, ConcatProperties
      <4>2. u \o added = done
        BY DEF u
      <4> HIDE DEF done, a
      <4> QED BY <1>7, <3>1, <4>1, <4>2
    <3>3. \A l \in 1 .. a : u[l].reply.of = u[l].command
      BY DEF Matched
    <3>4. \A l \in 1 .. j : added[l].reply.of = added[l].command
      BY <1>3
    <3> HIDE DEF done, u, a, added
    <3>5. CASE i <= a
      <4>1. i \in 1 .. a /\ done[i] = u[i]
        BY <3>1, <3>2, <3>5
      <4> QED BY <3>3, <4>1
    <3>6. CASE ~ (i <= a)
      <4>1. i - a \in 1 .. j /\ done[i] = added[i - a]
        BY <1>1, <3>1, <3>2, <3>6
      <4> QED BY <3>4, <4>1
    <3> QED BY <3>5, <3>6
  <2> HIDE DEF done, y
  <2> QED BY <1>9, <2>1 DEF Matched
<1>12. Place(y) = Place(x)
  BY <1>9 DEF Place
<1>13. FastPlace(y)
  <2>1. /\ RowPlace(c, y) <=> RowPlace(c, x)
        /\ DataPlace(c, y) <=> DataPlace(c, x)
    <3> HIDE DEF y
    <3> QED BY <1>12, PlacesAgree
  <2> HIDE DEF y
  <2> QED BY <1>9, <2>1 DEF FastPlace
<1>14. Went(x, group, at, y, j)
  <2>1. y.state \in Receiving /\ y.state \notin {"Complete", "standard_put", "sent_from_stdin"}
    BY <1>9 DEF Receiving
  <2>2. ~ (y.offset > Len(y.commands))
    BY <1>2, <1>9
  <2>3. \A k \in 1 .. j : group[k].type # "CopyFromBegin" /\ group[k].type # "Error"
    BY <1>4
  <2> HIDE DEF y, c
  <2> QED BY <1>1, <1>3, <1>9, <1>12, <1>13, <2>1, <2>2, <2>3 DEF Went
<1> QED BY <1>1, <1>9, <1>10, <1>11, <1>14 DEF Taken

-----------------------------------------------------------------------------
(* put as a whole.                                                         *)

\* The transaction as the slow path takes it.
Slowed(x) == [x EXCEPT !.state = "standard_put"]

LEMMA SlowedIs ==
  ASSUME NEW x \in Transactions
  PROVE  /\ Slowed(x) \in Transactions /\ Slowed(x).state = "standard_put"
         /\ Slowed(x).commands = x.commands /\ Slowed(x).number = x.number
         /\ Slowed(x).messages = x.messages /\ Slowed(x).fatal = x.fatal
         /\ Slowed(x).offset = x.offset /\ Place(Slowed(x)) = Place(x)
         /\ Slowed(x).completed = x.completed /\ Slowed(x).error_message = x.error_message
         /\ Slowed(x).last_ready = x.last_ready
<1>1. "standard_put" \in States
  BY DEF States, Receiving
<1>2. Slowed(x) \in Transactions
  BY <1>1, TransactionsAre DEF Slowed
<1>3. /\ Slowed(x).state = "standard_put"
      /\ Slowed(x).commands = x.commands /\ Slowed(x).number = x.number
      /\ Slowed(x).messages = x.messages /\ Slowed(x).fatal = x.fatal
      /\ Slowed(x).offset = x.offset /\ Slowed(x).step = x.step
      /\ Slowed(x).completed = x.completed /\ Slowed(x).error_message = x.error_message
      /\ Slowed(x).last_ready = x.last_ready
  BY TransactionsAre DEF Slowed
<1> HIDE DEF Slowed
<1> QED BY <1>2, <1>3 DEF Place

LEMMA SlowlyTaken ==
  ASSUME NEW x \in Transactions, NEW group, NEW at, NEW y, NEW k, Taken(Slowed(x), group, at, y, k)
  PROVE  Taken(x, group, at, y, k)
BY SlowedIs DEF Taken, Went

LEMMA SlowPut ==
  ASSUME NEW x \in Transactions, WellFormed(x), Place(x) \in Places(x.commands),
         x.offset <= Len(x.commands), Matched(x),
         NEW group \in Seq(Messages), NEW at, Track(x.commands, Place(x), group, at)
  PROVE  /\ Taken(x, group, at, standard_put(Slowed(x), group).xact,
                  standard_put(Slowed(x), group).count)
         /\ ~ standard_put(Slowed(x), group).raised
<1> DEFINE z == Slowed(x)
<1>1. z \in Transactions /\ z.state = "standard_put" /\ z.commands = x.commands
      /\ z.number = x.number /\ z.offset = x.offset /\ Place(z) = Place(x)
      /\ z.completed = x.completed /\ z.error_message = x.error_message
  BY SlowedIs
<1> HIDE DEF z
<1>2. WellFormed(z) /\ Matched(z)
  BY <1>1 DEF WellFormed, Matched
<1>3. /\ Taken(z, group, at, standard_put(z, group).xact, standard_put(z, group).count)
      /\ ~ standard_put(z, group).raised
  BY <1>1, <1>2, StandardPutTakes
<1> QED BY <1>3, SlowlyTaken DEF z

LEMMA PutTakes ==
  ASSUME NEW x \in Transactions, WellFormed(x), Place(x) \in Places(x.commands),
         x.offset <= Len(x.commands), x.state \in Receiving, Matched(x), FastPlace(x),
         NEW group \in Seq(Messages), group # <<>>, NEW at, Track(x.commands, Place(x), group, at)
  PROVE  /\ Taken(x, group, at, put(x.state, x, group).xact, put(x.state, x, group).count)
         /\ ~ put(x.state, x, group).raised
<1>1. Len(group) \in Nat /\ Len(group) \in 1 .. Len(group) /\ DOMAIN group = 1 .. Len(group)
  BY LenProperties, EmptySeq
<1>2. CASE x.state = "standard_put"
  <2>1. put(x.state, x, group) = standard_put(x, group)
    BY <1>2 DEF put
  <2> QED BY <1>2, <2>1, StandardPutTakes
<1>3. CASE x.state = "put_copydata"
  <2>1. put(x.state, x, group) = put_copydata(x, group)
    BY <1>3 DEF put
  <2>2. CASE \A i \in DOMAIN group : group[i].type = "CopyData"
    <3>1. put(x.state, x, group) = Result(Recorded(x, group), Len(group), <<>>)
      BY <2>1, <2>2 DEF put_copydata
    <3>2. FastType(x.commands, Place(x), "CopyData")
      BY <1>3, PlacesAgree DEF FastType, FastPlace
    <3>3. Taken(x, group, at, Recorded(x, group), Len(group))
      BY <1>1, <1>3, <2>2, <3>2, RecordedTakes
    <3> QED BY <3>1, <3>3 DEF Result
  <2>3. CASE ~ \A i \in DOMAIN group : group[i].type = "CopyData"
    <3>1. put(x.state, x, group) = standard_put(Slowed(x), group)
      BY <2>1, <2>3 DEF put_copydata, Slowed
    <3> QED BY <3>1, SlowPut
  <2> QED BY <2>2, <2>3
<1>4. CASE x.state = "put_tupledata"
  <2> DEFINE n == Rows(group)
  <2>1. put(x.state, x, group) = put_tupledata(x, group)
    BY <1>4 DEF put
  <2>2. n \in 0 .. Len(group) /\ \A i \in 1 .. n : group[i].type = "Tuple"
    BY RowsAre
  <2>3. CASE n = 0 \/ (~ Optimized /\ n < Len(group))
    <3>1. put(x.state, x, group) = standard_put(Slowed(x), group)
      BY <2>1, <2>3 DEF put_tupledata, Slowed
    <3> QED BY <3>1, SlowPut
  <2>4. CASE ~ (n = 0 \/ (~ Optimized /\ n < Len(group)))
    <3> DEFINE data == SubSeq(group, 1, n)
    <3>1. put(x.state, x, group) = Result(Recorded(x, data), n, <<>>)
      BY <2>1, <2>4 DEF put_tupledata
    <3>2. FastType(x.commands, Place(x), "Tuple")
      BY <1>4, PlacesAgree DEF FastType, FastPlace
    <3>3. n \in 1 .. Len(group)
      BY <1>1, <2>2, <2>4
    <3> HIDE DEF n
    <3>4. DOMAIN data = 1 .. n /\ \A k \in 1 .. n : data[k] = group[k]
      BY <1>1, <3>3
    <3> HIDE DEF data
    <3>5. Taken(x, group, at, Recorded(x, data), n)
      BY <1>4, <2>2, <3>2, <3>3, <3>4, RecordedTakes DEF n
    <3> QED BY <3>1, <3>5 DEF Result
  <2> QED BY <2>3, <2>4
<1> QED BY <1>2, <1>3, <1>4 DEF Receiving

(* At the end of the stream step gives the operation nothing.              *)
LEMMA StandardPutNothing ==
  ASSUME NEW x \in Transactions, WellFormed(x), Place(x) \in Places(x.commands),
         x.offset <= Len(x.commands), Matched(x)
  PROVE  LET r == standard_put(x, <<>>)
         IN  /\ ~ r.raised /\ r.count = 0 /\ r.xact \in Transactions
             /\ r.xact.state = x.state /\ r.xact.fatal = x.fatal /\ Matched(r.xact)
             /\ r.xact.commands = x.commands /\ r.xact.number = x.number
             /\ r.xact.messages = x.messages /\ Place(r.xact) = Place(x)
             /\ r.xact.last_ready = x.last_ready
<1> DEFINE c == x.commands
           p == PutStart(x)
           y == standard_put(x, <<>>).xact
<1>1. <<>> \in Seq(Messages) /\ Len(<<>>) = 0
  BY EmptySeq
<1>2. PICK run : PutRun(x, <<>>, run) /\ standard_put(x, <<>>) = PutEnd(x, run[Len(<<>>)])
  BY <1>1, PutRuns
<1>3. standard_put(x, <<>>) = PutEnd(x, p) /\ p \in PutStates(x) /\ p \in PutRecords(x)
  BY <1>1, <1>2, PutStartType DEF PutRun, PutStates
<1>4. /\ p.stop = "no" /\ p.count = 0 /\ p.processed = <<>> /\ p.offset = x.offset /\ p.step = x.step
      /\ p.fatal = x.fatal /\ p.error_message = x.error_message /\ p.last_ready = x.last_ready
  BY DEF PutStart
<1>5. CommandsOf(c, x.number) /\ Len(c) \in Nat /\ x.offset \in 1 .. Len(c)
      /\ c \in Seq([type : Answered, id : Ids])
  <2>1. CommandsOf(c, x.number) /\ Place(x).offset = x.offset
    BY PlacesAgree DEF WellFormed
  <2> HIDE DEF c
  <2>2. Len(c) \in Nat /\ x.offset \in 1 .. Len(c)
    BY <2>1, PlaceType DEF c
  <2> QED BY <2>1, <2>2 DEF CommandsOf
<1>6. Switched(x, p) = x.state
  <2>1. ~ (p.offset > Len(c))
    BY <1>4, <1>5
  <2> QED BY <1>4, <2>1 DEF Switched
<1>7. x.state \in States /\ x.completed \in Seq(Completions)
  BY TransactionsAre
<1> HIDE DEF p
<1>8. /\ y \in Transactions /\ y.state = Switched(x, p) /\ y.fatal = p.fatal
      /\ y.error_message = p.error_message /\ y.completed = x.completed \o p.processed
      /\ y.commands = x.commands /\ y.number = x.number /\ y.messages = x.messages
      /\ y.offset = p.offset /\ y.step = p.step /\ y.last_ready = p.last_ready
      /\ PutEnd(x, p).count = p.count /\ ~ PutEnd(x, p).raised
  <2>1. y = PutEnd(x, p).xact
    BY <1>3
  <2> HIDE DEF y
  <2>2. p.stop # "return" /\ Switched(x, p) \in States
    BY <1>4, <1>6, <1>7
  <2>3. x \in Transactions /\ p \in PutRecords(x) /\ x.commands \in Seq([type : Answered, id : Ids])
    BY <1>3, <1>5
  <2>4. PutWent(x, p, y)
    BY ONLY <2>1, <2>2, <2>3, PutEndGoesOn
  <2> QED BY ONLY <2>4 DEF PutWent
<1> HIDE DEF y
<1>9. y.completed = x.completed
  BY <1>4, <1>7, <1>8, ConcatEmptySeq
<1> QED BY <1>3, <1>4, <1>6, <1>8, <1>9 DEF y, Matched, Place

LEMMA PutNothing ==
  ASSUME NEW x \in Transactions, WellFormed(x), Place(x) \in Places(x.commands),
         x.offset <= Len(x.commands), Matched(x), NEW op \in Receiving
  PROVE  LET r == put(op, x, <<>>)
         IN  /\ r.count = 0
             /\ ~ r.raised =>
                  /\ r.xact \in Transactions /\ r.xact.fatal = x.fatal /\ Matched(r.xact)
                  /\ r.xact.state = x.state \/ r.xact.state = "standard_put"
                  /\ r.xact.commands = x.commands /\ r.xact.number = x.number
                  /\ r.xact.messages = x.messages /\ Place(r.xact) = Place(x)
                  /\ r.xact.last_ready = x.last_ready
<1> DEFINE z == Slowed(x)
<1>1. CASE op = "standard_put"
  <2>1. put(op, x, <<>>) = standard_put(x, <<>>)
    BY <1>1 DEF put
  <2> QED BY <2>1, StandardPutNothing
<1>2. CASE op = "put_copydata"
  <2>1. put(op, x, <<>>) = [Result(x, 0, <<>>) EXCEPT !.raised = TRUE]
    BY <1>2 DEF put, put_copydata
  <2> QED BY <2>1 DEF Result
<1>3. CASE op = "put_tupledata" /\ ~ Optimized
  <2>1. put(op, x, <<>>) = [Result(x, 0, <<>>) EXCEPT !.raised = TRUE]
    BY <1>3 DEF put, put_tupledata
  <2> QED BY <2>1 DEF Result
<1>4. CASE op = "put_tupledata" /\ Optimized
  <2>1. Rows(<<>>) = 0
    <3>1. <<>> \in Seq(Messages) /\ Len(<<>>) = 0
      BY EmptySeq
    <3>2. Rows(<<>>) \in 0 .. 0
      BY <3>1, RowsAre
    <3> QED BY <3>2
  <2>2. put(op, x, <<>>) = standard_put(z, <<>>)
    BY <1>4, <2>1 DEF put, put_tupledata, Slowed
  <2>3. z \in Transactions /\ z.state = "standard_put" /\ z.commands = x.commands
        /\ z.number = x.number /\ z.offset = x.offset /\ Place(z) = Place(x)
        /\ z.completed = x.completed /\ z.error_message = x.error_message
        /\ z.fatal = x.fatal /\ z.messages = x.messages /\ z.last_ready = x.last_ready
    BY SlowedIs
  <2> HIDE DEF z
  <2>4. WellFormed(z) /\ Matched(z)
    BY <2>3 DEF WellFormed, Matched
  <2>5. LET r == standard_put(z, <<>>)
        IN  /\ ~ r.raised /\ r.count = 0 /\ r.xact \in Transactions
            /\ r.xact.state = z.state /\ r.xact.fatal = z.fatal /\ Matched(r.xact)
            /\ r.xact.commands = z.commands /\ r.xact.number = z.number
            /\ r.xact.messages = z.messages /\ Place(r.xact) = Place(z)
            /\ r.xact.last_ready = z.last_ready
    BY <2>3, <2>4, StandardPutNothing
  <2> QED BY <2>2, <2>3, <2>5
<1> QED BY <1>1, <1>2, <1>3, <1>4 DEF Receiving

-----------------------------------------------------------------------------
(* More about tracks.                                                      *)

LEMMA QuietStays ==
  ASSUME NEW S, NEW s \in Seq(S), Quiet(s), NEW c, NEW n, CommandsOf(c, n), NEW p \in Places(c),
         NEW e, Leads(c, p, s, e)
  PROVE  e = p
<1>1. PICK at : Track(c, p, s, at) /\ at[Len(s)] = e
  BY DEF Leads
<1>2. Len(s) \in Nat
  BY LenProperties
<1> DEFINE T == {k \in Nat : k <= Len(s) => at[k] = p}
<1>3. 0 \in T
  BY <1>1 DEF Track
<1>4. ASSUME NEW k \in Nat, k \in T PROVE k + 1 \in T
  <2>1. SUFFICES ASSUME k + 1 <= Len(s) PROVE at[k + 1] = p
    OBVIOUS
  <2>2. at[k] = p /\ k + 1 \in 1 .. Len(s) /\ (k + 1) - 1 = k
    BY <1>2, <1>4, <2>1
  <2>3. Moves(c, p, s[k + 1], at[k + 1]) /\ Aside(s[k + 1])
    BY <1>1, <2>2 DEF Track, Quiet
  <2>4. ~ Answers1(c, p, s[k + 1])
    BY <2>3, AnswerGoes
  <2>5. s[k + 1].type # "Error"
    BY <2>3 DEF Aside, IsAsync, AsynchronousMap
  <2> QED BY <2>3, <2>4, <2>5 DEF Moves
<1>5. Len(s) \in T
  <2> HIDE DEF T
  <2> QED BY <1>2, <1>3, <1>4, NaturalInduction
<1> QED BY <1>1, <1>2, <1>5

LEMMA TrackApart ==
  ASSUME NEW S, NEW s \in Seq(S), NEW c, NEW p, NEW at, Track(c, p, s, at), NEW k \in 0 .. Len(s)
  PROVE  /\ Track(c, p, SubSeq(s, 1, k), [j \in 0 .. k |-> at[j]])
         /\ Leads(c, at[k], SubSeq(s, k + 1, Len(s)), at[Len(s)])
         /\ Leads(c, p, SubSeq(s, 1, k), at[k])
         /\ at[k] \in Places(c) /\ at[Len(s)] \in Places(c)
<1> DEFINE l == SubSeq(s, 1, k)
           r == SubSeq(s, k + 1, Len(s))
<1>1. Len(s) \in Nat /\ \A j \in 1 .. Len(s) : s[j] \in S
  BY ElementOfSeq, LenProperties
<1>2. l \in Seq(S) /\ Len(l) = k
  BY <1>1, SubSeqProperties
<1>3. r \in Seq(S) /\ Len(r) = Len(s) - k
  <2>1. \A j \in k + 1 .. Len(s) : s[j] \in S
    BY <1>1
  <2> QED BY <1>1, <2>1, SubSeqProperties
<1>4. l \o r = s
  <2>1. SubSeq(s, 1, k) \o SubSeq(s, k + 1, Len(s)) = SubSeq(s, 1, Len(s))
    <3>1. 1 \in 1 .. Len(s) + 1 /\ k \in 1 - 1 .. Len(s) /\ Len(s) \in k .. Len(s)
      BY <1>1
    <3> QED BY <3>1, ConcatAdjacentSubSeq
  <2> QED BY <2>1, SubSeqFull
<1> HIDE DEF l, r
<1>5. /\ Track(c, p, l, [j \in 0 .. Len(l) |-> at[j]])
      /\ Leads(c, at[Len(l)], r, at[Len(l) + Len(r)])
      /\ at[Len(l)] \in Places(c)
  <2>1. Track(c, p, l \o r, at)
    BY <1>4
  <2>2. l \in Seq(S) /\ r \in Seq(S)
    BY <1>2, <1>3
  <2> QED BY ONLY <2>1, <2>2, LeadsApart
<1>6. Len(l) + Len(r) = Len(s)
  BY <1>1, <1>2, <1>3
<1>7. Leads(c, p, l, at[k])
  <2>1. [j \in 0 .. k |-> at[j]][k] = at[k]
    OBVIOUS
  <2> QED BY <1>2, <1>5, <2>1 DEF Leads
<1>8. at[Len(s)] \in Places(c)
  BY <1>1 DEF Track
<1> QED BY <1>2, <1>5, <1>6, <1>7, <1>8 DEF l, r

LEMMA NoReadyBefore ==
  ASSUME NEW S, NEW s \in Seq(S), NEW c, NEW n, CommandsOf(c, n), NEW p \in Places(c),
         NEW e, Leads(c, p, s, e), e.offset <= Len(c)
  PROVE  p.offset <= Len(c) /\ \A k \in 1 .. Len(s) : s[k].type # "Ready"
<1>1. PICK at : Track(c, p, s, at) /\ at[Len(s)] = e
  BY DEF Leads
<1>2. Len(s) \in Nat /\ Len(c) \in Nat
  BY LenProperties DEF CommandsOf
<1>3. ASSUME NEW q \in Places(c), NEW k \in 0 .. Len(s), at[k] = q PROVE q.offset <= Len(c)
  <2>1. SUFFICES ASSUME q.offset = Len(c) + 1 PROVE FALSE
    BY <1>2 DEF Places
  <2> DEFINE r == SubSeq(s, k + 1, Len(s))
  <2>2. Leads(c, q, r, e)
    BY <1>1, <1>3, TrackApart
  <2>3. r \in Seq(S)
    <3>1. \A j \in k + 1 .. Len(s) : s[j] \in S
      BY <1>2, ElementOfSeq
    <3> QED BY <1>2, <3>1, SubSeqProperties
  <2> HIDE DEF r
  <2>4. e = q
    BY <2>1, <2>2, <2>3, QuietAtEnd
  <2> QED BY <1>2, <2>1, <2>4
<1>4. p.offset <= Len(c)
  BY <1>1, <1>2, <1>3 DEF Track
<1>5. ASSUME NEW k \in 1 .. Len(s), s[k].type = "Ready" PROVE FALSE
  <2>1. /\ at[k - 1] \in Places(c) /\ at[k] \in Places(c) /\ Moves(c, at[k - 1], s[k], at[k])
        /\ k \in 0 .. Len(s)
    BY <1>1, <1>2 DEF Track
  <2>2. Answers1(c, at[k - 1], s[k]) /\ at[k] = After(c, at[k - 1], s[k].type)
    BY <1>5, <2>1 DEF Moves, Aside, IsAsync, AsynchronousMap
  <2>3. After(c, at[k - 1], s[k].type).offset > Len(c)
    BY <1>5, <2>1, <2>2, AnswerGoes
  <2>4. at[k].offset <= Len(c)
    BY <1>3, <2>1
  <2>5. at[k].offset \in Nat
    BY <2>1 DEF Places
  <2> QED BY <1>2, <2>2, <2>3, <2>4, <2>5
<1> QED BY <1>4, <1>5

-----------------------------------------------------------------------------
(* The invariant, of a transaction x with what has come for it but was not *)
(* processed (i), what the server has yet to read (o), the server (s) and  *)
(* the transactions an error was reported for (f).                         *)

CopyWire == {"CopyData", "CopyDone", "CopyFail"}
Sendables == [type : DOMAIN hook \cup CopyWire \cup {"Disconnect"}, id : Ids]
Servers == [mode : {"ready", "skip", "copyin", "copyin_synced", "gone"}, tx : Statuses,
            by : Sendables \cup {None}]

OnlyCopy(u) == \A k \in 1 .. Len(u) : u[k].type \in CopyWire
From(c, n) == SubSeq(c, n, Len(c))
Begun(i) == \E k \in 1 .. Len(i) : i[k].type = "CopyFromBegin"
Failing(i) == \E k \in 1 .. Len(i) : i[k].type = "Error"
CopiesLast(c) == \A k \in 1 .. Len(c) - 2 : c[k].type # "Execute"

\* A COPY FROM STDIN sends the rest of the batch again when it ends.
Unsent(x, t) == IF x.state = "sent_from_stdin" THEN <<>> ELSE t

\* The server has answered up to e, reads on from there, and then has nothing
\* to read; data of a COPY it gave up may come first.
Answering(x, i, o, s, e) ==
  /\ s.mode = "ready" /\ e.step = 0
  /\ \E u \in Seq(Sendables) : OnlyCopy(u) /\ o = u \o From(x.commands, e.offset)
  /\ e.offset > Len(x.commands) =>
       /\ \A k \in 1 .. Len(i) : i[k].type = "Ready" => i[k].tx = s.tx
       /\ x.state = "Complete" => x.last_ready = s.tx
  /\ x.state = "sent_from_stdin" => e.offset > Len(x.commands) /\ x.offset = Len(x.commands)

\* It has sent an error and skips to the Synchronize.
Skipping(x, o, s, e) ==
  /\ s.mode = "skip" /\ e = At(Len(x.commands), 0)
  /\ x.commands[Len(x.commands)].type = "Synchronize"
  /\ \E u \in Seq(Sendables) :
       /\ \A k \in 1 .. Len(u) : u[k].type \notin {"Synchronize", "Disconnect"}
       /\ o = u \o Unsent(x, << x.commands[Len(x.commands)] >>)

\* It waits for COPY data: the client has not seen the begin of the COPY, or
\* is sending, or has sent the end and the rest of the batch.
Owed(s, c, e) == IF s.mode = "copyin" THEN From(c, e.offset + 1) ELSE <<>>
Closes(x, u) == IF x.state = "sent_from_stdin"
                THEN \A k \in 1 .. Len(u) : u[k].type = "CopyData"
                ELSE \E k \in 1 .. Len(u) : u[k].type \in {"CopyDone", "CopyFail"}
Loads(x, o, s, e) ==
  \E u \in Seq(Sendables) : /\ OnlyCopy(u) /\ Closes(x, u)
    /\ o = Owed(s, x.commands, e) \o (u \o Unsent(x, From(x.commands, e.offset + 1)))
Loading(x, i, o, s, e) ==
  /\ s.mode \in CopyIn /\ CopyPlace(x.commands, e) /\ CopiesLast(x.commands)
  /\ s.by = x.commands[e.offset]
  /\ IF Begun(i) THEN o = Owed(s, x.commands, e) /\ x.state # "sent_from_stdin"
     ELSE Place(x) = e /\ Quiet(i) /\ Loads(x, o, s, e)

Working(x, i, o, s, e) == Answering(x, i, o, s, e) \/ Skipping(x, o, s, e) \/ Loading(x, i, o, s, e)

\* An error that was reported is known to the client, or will be, or is lost
\* with the end of the batch.
Known(x, i, s, f, e) ==
  x.number \in f => x.fatal # None \/ Failing(i) \/ (s.mode = "gone" /\ e.offset <= Len(x.commands))

StandsAt(x, i, o, s, f, e) ==
  /\ Leads(x.commands, Place(x), i, e)
  /\ IF s.mode = "gone" THEN o = <<>> ELSE Working(x, i, o, s, e)
  /\ Known(x, i, s, f, e)

Going(x) ==
  /\ WellFormed(x) /\ Place(x) \in Places(x.commands)
  /\ x.state \in Receiving \cup {"Complete", "sent_from_stdin"} /\ x.messages # "commands"
  /\ (x.state = "Complete") = (x.offset > Len(x.commands))
  /\ x.state = "Complete" => x.last_ready # None
  /\ FastPlace(x)
  /\ x.state = "sent_from_stdin" =>
       /\ CopyPlace(x.commands, x) /\ CopiesLast(x.commands)
       /\ x.reissued = From(x.commands, x.offset + 1)

\* Nothing but asides follow the begin of a COPY FROM STDIN.
Copied(x, i, s) ==
  /\ \A k \in 1 .. Len(i) : i[k].type = "CopyFromBegin" => \A l \in k + 1 .. Len(i) : Aside(i[l])
  /\ Begun(i) => s.mode \in CopyIn \cup {"gone"} /\ CopiesLast(x.commands)

\* A transaction begun on a connection that is gone.
Late(x, i, s) == x.fatal = Fatal => x.state \in Receiving /\ Quiet(i) /\ s.mode = "gone"

Live(x, i, o, s, f) ==
  /\ Going(x) /\ Copied(x, i, s) /\ Late(x, i, s)
  /\ \E e \in Places(x.commands) : StandsAt(x, i, o, s, f, e)

LEMMA ShorterIs ==
  ASSUME NEW S, NEW i \in Seq(S), NEW k \in 0 .. Len(i), NEW j, j = SubSeq(i, k + 1, Len(i))
  PROVE  /\ j \in Seq(S) /\ Len(j) = Len(i) - k /\ Len(i) \in Nat /\ Len(j) \in Nat
         /\ \A n \in 1 .. Len(j) : n + k \in 1 .. Len(i) /\ j[n] = i[n + k]
         /\ \A n \in k + 1 .. Len(i) : n - k \in 1 .. Len(j) /\ j[n - k] = i[n]
<1>1. Len(i) \in Nat
  BY LenProperties
<1>2. \A n \in k + 1 .. Len(i) : i[n] \in S
  BY <1>1, ElementOfSeq
<1>3. /\ j \in Seq(S) /\ Len(j) = IF k + 1 <= Len(i) THEN Len(i) - (k + 1) + 1 ELSE 0
      /\ \A n \in 1 .. Len(i) - (k + 1) + 1 : j[n] = i[(k + 1) + n - 1]
  BY <1>1, <1>2, SubSeqProperties
<1>4. Len(j) = Len(i) - k /\ Len(j) \in Nat
  BY <1>1, <1>3
<1>5. ASSUME NEW n \in 1 .. Len(j) PROVE n + k \in 1 .. Len(i) /\ j[n] = i[n + k]
  <2>1. n \in 1 .. Len(i) - (k + 1) + 1 /\ (k + 1) + n - 1 = n + k
    BY <1>1, <1>4
  <2> QED BY <1>1, <1>3, <1>4, <2>1
<1>6. ASSUME NEW n \in k + 1 .. Len(i) PROVE n - k \in 1 .. Len(j) /\ j[n - k] = i[n]
  <2>1. n - k \in 1 .. Len(j) /\ (n - k) + k = n
    BY <1>1, <1>4
  <2> QED BY <1>5, <2>1
<1> QED BY <1>1, <1>3, <1>4, <1>5, <1>6

-----------------------------------------------------------------------------
(* A live transaction takes a part of what has come.                       *)

\* What is left of i after the first k messages, and the begin of a COPY in it.
LEMMA CopyTaken ==
  ASSUME NEW x, NEW i \in Seq(Messages), NEW k \in 0 .. Len(i), NEW j, j = SubSeq(i, k + 1, Len(i)),
         NEW s, Copied(x, i, s), NEW y, NEW at, Went(x, i, at, y, k)
  PROVE  /\ Begun(j) => Begun(i)
         /\ y.state = "sent_from_stdin" =>
              Begun(i) /\ ~ Begun(j) /\ Quiet(j) /\ CopyPlace(y.commands, y)
         /\ Begun(i) /\ y.state # "sent_from_stdin" => Begun(j)
<1>1. /\ j \in Seq(Messages) /\ Len(j) = Len(i) - k /\ Len(i) \in Nat /\ Len(j) \in Nat
      /\ \A n \in 1 .. Len(j) : n + k \in 1 .. Len(i) /\ j[n] = i[n + k]
      /\ \A n \in k + 1 .. Len(i) : n - k \in 1 .. Len(j) /\ j[n - k] = i[n]
  BY ShorterIs
<1>2. Begun(j) => Begun(i)
  BY <1>1 DEF Begun
<1>3. \A n \in 1 .. Len(i) : i[n].type = "CopyFromBegin" => \A l \in n + 1 .. Len(i) : Aside(i[l])
  BY DEF Copied
<1>4. ASSUME NEW n \in 1 .. k, i[n].type = "CopyFromBegin"
      PROVE  y.state = "sent_from_stdin" /\ CopyPlace(y.commands, y) /\ Quiet(j) /\ ~ Begun(j)
  <2>1. n \in 1 .. Len(i) /\ \A l \in n + 1 .. Len(i) : Aside(i[l])
    BY <1>1, <1>3, <1>4
  <2>2. \A l \in n + 1 .. k : Aside(i[l])
    BY <1>1, <2>1
  <2>3. y.state = "sent_from_stdin" /\ CopyPlace(y.commands, y)
    BY <1>4, <2>2 DEF Went
  <2>4. Quiet(j)
    <3>1. ASSUME NEW m \in 1 .. Len(j) PROVE Aside(j[m])
      <4>1. m + k \in n + 1 .. Len(i) /\ j[m] = i[m + k]
        BY <1>1
      <4> QED BY <2>1, <4>1
    <3> QED BY <3>1 DEF Quiet
  <2>5. ~ Begun(j)
    BY <2>4 DEF Begun, Quiet, Aside, IsAsync, AsynchronousMap
  <2> QED BY <2>3, <2>4, <2>5
<1>5. y.state = "sent_from_stdin" => \E n \in 1 .. k : i[n].type = "CopyFromBegin"
  BY DEF Went
<1>6. ASSUME Begun(i), y.state # "sent_from_stdin" PROVE Begun(j)
  <2>1. PICK n \in 1 .. Len(i) : i[n].type = "CopyFromBegin"
    BY <1>6 DEF Begun
  <2>2. n \in k + 1 .. Len(i)
    BY <1>1, <1>4, <1>6, <2>1
  <2> QED BY <1>1, <2>1, <2>2 DEF Begun
<1>7. (\E n \in 1 .. k : i[n].type = "CopyFromBegin") => Begun(i)
  BY <1>1 DEF Begun
<1> QED BY <1>2, <1>4, <1>5, <1>6, <1>7

LEMMA WentGoes ==
  ASSUME NEW x, NEW y, NEW i \in Seq(Messages), NEW k \in 0 .. Len(i), NEW j, j = SubSeq(i, k + 1, Len(i)),
         NEW s, Going(x), Copied(x, i, s), Late(x, i, s),
         NEW at, Track(x.commands, Place(x), i, at), Went(x, i, at, y, k),
         y.commands = x.commands, y.number = x.number, y.messages = x.messages
  PROVE  Going(y) /\ Copied(y, j, s) /\ Late(y, j, s)
<1>1. /\ j \in Seq(Messages) /\ Len(j) = Len(i) - k /\ Len(i) \in Nat /\ Len(j) \in Nat
      /\ \A n \in 1 .. Len(j) : n + k \in 1 .. Len(i) /\ j[n] = i[n + k]
      /\ \A n \in k + 1 .. Len(i) : n - k \in 1 .. Len(j) /\ j[n - k] = i[n]
  BY ShorterIs
<1>2. /\ Begun(j) => Begun(i)
      /\ y.state = "sent_from_stdin" =>
           Begun(i) /\ ~ Begun(j) /\ Quiet(j) /\ CopyPlace(y.commands, y)
      /\ Begun(i) /\ y.state # "sent_from_stdin" => Begun(j)
  <2>1. /\ i \in Seq(Messages) /\ k \in 0 .. Len(i) /\ j = SubSeq(i, k + 1, Len(i))
        /\ Copied(x, i, s) /\ Went(x, i, at, y, k)
    OBVIOUS
  <2> QED BY ONLY <2>1, CopyTaken, ZenonT(40)
<1>3. Going(y)
  <2>1. WellFormed(y) /\ y.messages # "commands"
    BY DEF Going, WellFormed
  <2>2. Place(y) \in Places(y.commands)
    <3>1. at[k] \in Places(x.commands)
      BY TrackApart
    <3> QED BY <3>1 DEF Went
  <2>3. /\ y.state \in Receiving \cup {"Complete", "sent_from_stdin"}
        /\ (y.state = "Complete") = (y.offset > Len(y.commands)) /\ FastPlace(y)
    BY DEF Went
  <2>4. y.state = "Complete" => y.last_ready # None
    <3>1. SUFFICES ASSUME y.state = "Complete" PROVE y.last_ready # None
      OBVIOUS
    <3>2. k >= 1 /\ i[k].type = "Ready" /\ y.last_ready = i[k].tx
      BY <3>1 DEF Went
    <3>3. k \in 1 .. Len(i)
      BY <1>1, <3>2
    <3>4. i[k] \in Messages
      BY <3>3, ElementOfSeq
    <3> QED BY <3>2, <3>4 DEF Messages
  <2>5. y.state = "sent_from_stdin" =>
          /\ CopyPlace(y.commands, y) /\ CopiesLast(y.commands)
          /\ y.reissued = From(y.commands, y.offset + 1)
    BY <1>2 DEF Went, Copied, From
  <2> QED BY <2>1, <2>2, <2>3, <2>4, <2>5 DEF Going
<1>4. Copied(y, j, s)
  <2>1. ASSUME NEW m \in 1 .. Len(j), j[m].type = "CopyFromBegin", NEW l \in m + 1 .. Len(j)
        PROVE  Aside(j[l])
    <3>1. m + k \in 1 .. Len(i) /\ i[m + k].type = "CopyFromBegin"
      BY <1>1, <2>1
    <3>2. l \in 1 .. Len(j) /\ l + k \in (m + k) + 1 .. Len(i)
      BY <1>1
    <3>3. j[l] = i[l + k]
      BY <1>1, <3>2
    <3> QED BY <3>1, <3>2, <3>3 DEF Copied
  <2> QED BY <1>2, <2>1 DEF Copied
<1>5. Late(y, j, s)
  <2>1. SUFFICES ASSUME y.fatal = Fatal PROVE y.state \in Receiving /\ Quiet(j) /\ s.mode = "gone"
    BY DEF Late
  <2>2. Quiet(i) /\ s.mode = "gone"
    BY <2>1 DEF Went, Late
  <2>3. Quiet(j)
    BY <1>1, <2>2 DEF Quiet
  <2>4. y.state # "Complete"
    <3>1. SUFFICES ASSUME y.state = "Complete" PROVE FALSE
      OBVIOUS
    <3>2. k \in 1 .. Len(i) /\ i[k].type = "Ready"
      BY <1>1, <3>1 DEF Went
    <3> QED BY <2>2, <3>2 DEF Quiet, Aside, IsAsync, AsynchronousMap
  <2>5. y.state # "sent_from_stdin"
    <3>1. ~ Begun(i)
      BY <2>2 DEF Begun, Quiet, Aside, IsAsync, AsynchronousMap
    <3> QED BY <1>2, <3>1
  <2> QED BY <2>2, <2>3, <2>4, <2>5 DEF Went
<1> QED BY <1>3, <1>4, <1>5

-----------------------------------------------------------------------------

LEMMA FromBehind ==
  ASSUME NEW S, NEW c \in Seq(S)
  PROVE  From(c, Len(c) + 1) = <<>>
BY LenProperties, SubSeqEmpty DEF From

LEMMA WentStands ==
  ASSUME NEW x, NEW y, NEW i \in Seq(Messages), NEW k \in 0 .. Len(i), NEW j, j = SubSeq(i, k + 1, Len(i)),
         NEW o, NEW s, NEW f, Going(x), Copied(x, i, s), x.state \in Receiving,
         NEW at, Track(x.commands, Place(x), i, at), Went(x, i, at, y, k),
         y.commands = x.commands, y.number = x.number,
         NEW e \in Places(x.commands), StandsAt(x, i, o, s, f, e), e = at[Len(i)]
  PROVE  StandsAt(y, j, o, s, f, e)
<1> DEFINE c == x.commands
<1>1. /\ j \in Seq(Messages) /\ Len(j) = Len(i) - k /\ Len(i) \in Nat /\ Len(j) \in Nat
      /\ \A n \in 1 .. Len(j) : n + k \in 1 .. Len(i) /\ j[n] = i[n + k]
      /\ \A n \in k + 1 .. Len(i) : n - k \in 1 .. Len(j) /\ j[n - k] = i[n]
  BY ShorterIs
<1>2. /\ Begun(j) => Begun(i)
      /\ y.state = "sent_from_stdin" =>
           Begun(i) /\ ~ Begun(j) /\ Quiet(j) /\ CopyPlace(y.commands, y)
      /\ Begun(i) /\ y.state # "sent_from_stdin" => Begun(j)
  <2>1. /\ i \in Seq(Messages) /\ k \in 0 .. Len(i) /\ j = SubSeq(i, k + 1, Len(i))
        /\ Copied(x, i, s) /\ Went(x, i, at, y, k)
    OBVIOUS
  <2> QED BY ONLY <2>1, CopyTaken, ZenonT(40)
<1>3. CommandsOf(c, x.number) /\ Len(c) \in Nat /\ c \in Seq([type : Answered, id : Ids])
  <2>1. CommandsOf(c, x.number)
    BY DEF Going, WellFormed
  <2> QED BY <2>1, LenProperties DEF CommandsOf
<1> HIDE DEF c
<1>4. Place(y) = at[k] /\ at[k] \in Places(c) /\ Leads(c, at[k], j, e)
  <2>1. Place(y) = at[k]
    BY DEF Went
  <2>2. Track(c, Place(x), i, at)
    BY DEF c
  <2> QED BY <2>1, <2>2, TrackApart
<1>10. Quiet(j) => e = at[k]
  <2>1. j \in Seq(Messages) /\ CommandsOf(c, x.number) /\ at[k] \in Places(c) /\ Leads(c, at[k], j, e)
    BY <1>1, <1>3, <1>4
  <2> QED BY ONLY <2>1, QuietStays
<1>5. Known(y, j, s, f, e)
  <2>1. SUFFICES ASSUME x.number \in f, ~ (s.mode = "gone" /\ e.offset <= Len(c)), y.fatal = None
                 PROVE  Failing(j)
    BY DEF Known, c
  <2>2. x.fatal = None /\ \A n \in 1 .. k : i[n].type # "Error"
    BY <2>1 DEF Went
  <2>3. Failing(i)
    BY <2>1, <2>2 DEF StandsAt, Known, c
  <2>4. PICK n \in 1 .. Len(i) : i[n].type = "Error"
    BY <2>3 DEF Failing
  <2>5. n \in k + 1 .. Len(i)
    BY <1>1, <2>2, <2>4
  <2> QED BY <1>1, <2>4, <2>5 DEF Failing
<1>6. ASSUME Answering(x, i, o, s, e) PROVE Answering(y, j, o, s, e)
  <2>1. y.state # "sent_from_stdin"
    <3>1. ~ Begun(i)
      BY <1>6 DEF Answering, Copied, CopyIn
    <3> QED BY <1>2, <3>1
  <2>2. e.offset > Len(c) => \A n \in 1 .. Len(j) : j[n].type = "Ready" => j[n].tx = s.tx
    <3>1. SUFFICES ASSUME e.offset > Len(c), NEW n \in 1 .. Len(j), j[n].type = "Ready"
                   PROVE  j[n].tx = s.tx
      OBVIOUS
    <3>2. n + k \in 1 .. Len(i) /\ j[n] = i[n + k]
      BY <1>1
    <3> QED BY <1>6, <3>1, <3>2 DEF Answering, c
  <2>3. e.offset > Len(c) /\ y.state = "Complete" => y.last_ready = s.tx
    <3>1. SUFFICES ASSUME e.offset > Len(c), y.state = "Complete" PROVE y.last_ready = s.tx
      OBVIOUS
    <3>2. k \in 1 .. Len(i) /\ i[k].type = "Ready" /\ y.last_ready = i[k].tx
      BY <1>1, <3>1 DEF Went
    <3> QED BY <1>6, <3>1, <3>2 DEF Answering, c
  <2> QED BY <1>6, <2>1, <2>2, <2>3 DEF Answering, c
<1>7. ASSUME Skipping(x, o, s, e) PROVE Skipping(y, o, s, e)
  <2>1. y.state # "sent_from_stdin"
    <3>1. ~ Begun(i)
      BY <1>7 DEF Skipping, Copied, CopyIn
    <3> QED BY <1>2, <3>1
  <2>2. x.state # "sent_from_stdin"
    BY DEF Receiving
  <2> QED BY <1>7, <2>1, <2>2 DEF Skipping, Unsent
<1>8. ASSUME Loading(x, i, o, s, e) PROVE Loading(y, j, o, s, e)
  <2>1. CASE Begun(j)
    BY <1>2, <1>8, <2>1 DEF Loading
  <2>2. CASE ~ Begun(j) /\ Begun(i)
    <3>1. y.state = "sent_from_stdin" /\ Quiet(j)
      BY <1>2, <2>2
    <3>2. Place(y) = e
      BY <1>4, <1>10, <3>1
    <3>3. Loads(y, o, s, e)
      <4>1. o = Owed(s, c, e)
        BY <1>8, <2>2 DEF Loading, c
      <4>2. <<>> \in Seq(Sendables) /\ Len(<<>>) = 0 /\ <<>> \o <<>> = <<>>
        BY EmptySeq
      <4>3. Owed(s, c, e) \in Seq([type : Answered, id : Ids])
        <5>1. From(c, e.offset + 1) \in Seq([type : Answered, id : Ids])
          <6>1. e.offset + 1 \in Nat /\ e.offset + 1 >= 1
            BY <1>3 DEF Places, c
          <6>2. \A n \in e.offset + 1 .. Len(c) : c[n] \in [type : Answered, id : Ids]
            <7> TAKE n \in e.offset + 1 .. Len(c)
            <7>1. n \in 1 .. Len(c)
              BY <1>3, <6>1
            <7> QED BY <1>3, <7>1, ElementOfSeq
          <6> QED BY <1>3, <6>1, <6>2, SubSeqProperties DEF From
        <5> QED BY <5>1, EmptySeq DEF Owed
      <4>4. o = Owed(s, c, e) \o (<<>> \o Unsent(y, From(c, e.offset + 1)))
        <5>1. Unsent(y, From(c, e.offset + 1)) = <<>>
          BY <3>1 DEF Unsent
        <5> QED BY <4>1, <4>2, <4>3, <5>1, ConcatEmptySeq
      <4>5. OnlyCopy(<<>>) /\ Closes(y, <<>>)
        BY <3>1, <4>2 DEF OnlyCopy, Closes
      <4>6. o = Owed(s, y.commands, e) \o (<<>> \o Unsent(y, From(y.commands, e.offset + 1)))
        BY <4>4 DEF c
      <4> QED BY <4>2, <4>5, <4>6 DEF Loads
    <3> QED BY <1>8, <2>2, <3>1, <3>2, <3>3 DEF Loading, c
  <2>3. CASE ~ Begun(j) /\ ~ Begun(i)
    <3>1. y.state # "sent_from_stdin" /\ x.state # "sent_from_stdin"
      BY <1>2, <2>3 DEF Receiving
    <3>2. Quiet(i) /\ Place(x) = e /\ Loads(x, o, s, e)
      BY <1>8, <2>3 DEF Loading
    <3>3. Quiet(j)
      BY <1>1, <3>2 DEF Quiet
    <3>4. Place(y) = e
      BY <1>4, <1>10, <3>3
    <3>5. Loads(y, o, s, e)
      BY <3>1, <3>2 DEF Loads, Closes, Unsent
    <3> QED BY <1>8, <2>3, <3>3, <3>4, <3>5 DEF Loading
  <2> QED BY <2>1, <2>2, <2>3
<1>9. IF s.mode = "gone" THEN o = <<>> ELSE Working(y, j, o, s, e)
  BY <1>6, <1>7, <1>8 DEF StandsAt, Working
<1> QED BY <1>4, <1>5, <1>9 DEF StandsAt, c

-----------------------------------------------------------------------------

LEMMA WentFurther ==
  ASSUME NEW x, NEW i, NEW g, NEW group, \A n \in 1 .. g : group[n] = i[n], NEW at,
         NEW y, NEW k \in 0 .. g, g \in Nat, Went(x, group, [n \in 0 .. g |-> at[n]], y, k)
  PROVE  Went(x, i, at, y, k)
<1>1. Place(y) = at[k]
  BY DEF Went
<1>2. y.state = "Complete" => k >= 1 /\ i[k].type = "Ready" /\ y.last_ready = i[k].tx
  <2>1. SUFFICES ASSUME y.state = "Complete"
                 PROVE  k >= 1 /\ i[k].type = "Ready" /\ y.last_ready = i[k].tx
    OBVIOUS
  <2>2. k >= 1 /\ group[k].type = "Ready" /\ y.last_ready = group[k].tx
    BY <2>1 DEF Went
  <2>3. k \in 1 .. g
    BY <2>2
  <2> QED BY <2>2, <2>3
<1>3. \A n \in 1 .. k : group[n] = i[n]
  OBVIOUS
<1>4. y.state = "sent_from_stdin" =>
        /\ \E n \in 1 .. k : i[n].type = "CopyFromBegin"
        /\ y.reissued = SubSeq(y.commands, y.offset + 1, Len(y.commands))
  BY <1>3 DEF Went
<1>5. \A n \in 1 .. k : i[n].type = "CopyFromBegin" /\ (\A l \in n + 1 .. k : Aside(i[l])) =>
        y.state = "sent_from_stdin" /\ CopyPlace(y.commands, y)
  <2> TAKE n \in 1 .. k
  <2> HAVE i[n].type = "CopyFromBegin" /\ (\A l \in n + 1 .. k : Aside(i[l]))
  <2>1. group[n].type = "CopyFromBegin"
    BY <1>3
  <2>2. \A l \in n + 1 .. k : Aside(group[l])
    <3> TAKE l \in n + 1 .. k
    <3>1. l \in 1 .. k
      OBVIOUS
    <3> QED BY <1>3, <3>1
  <2> QED BY <2>1, <2>2 DEF Went
<1>6. /\ y.fatal = Fatal => x.fatal = Fatal
      /\ y.fatal = None => x.fatal = None /\ \A n \in 1 .. k : i[n].type # "Error"
  BY <1>3 DEF Went
<1>7. /\ y.state \in Receiving \cup {"Complete", "sent_from_stdin"}
      /\ (y.state = "Complete") = (y.offset > Len(y.commands)) /\ FastPlace(y)
  BY DEF Went
<1> QED BY <1>1, <1>2, <1>4, <1>5, <1>6, <1>7 DEF Went

\* Nothing comes behind a FatalError.
FatalLast(i, s) == \A n \in 1 .. Len(i) : i[n].type = "FatalError" => n = Len(i) /\ s.mode = "gone"

\* A dead end: the server is gone and there is nothing more to read.
Lastly(y, j, o, s) == y.state = "Complete" /\ y.fatal = Fatal /\ s.mode = "gone" /\ j = <<>> /\ o = <<>>

\* What the reading of a group comes to.
Starts(i) == {SubSeq(i, 1, n) : n \in 1 .. Len(i)}
Reads(x, i, o, s, f, group, r) ==
  LET j == SubSeq(i, r.count + 1, Len(i))
  IN  /\ ~ r.raised
      /\ r.xact \in Transactions /\ Matched(r.xact) /\ r.count \in 0 .. Len(group) /\ r.xact.number = x.number
      /\ Lastly(r.xact, j, o, s) \/ Live(r.xact, j, o, s, f)

LEMMA LiveReads ==
  ASSUME NEW x \in Transactions, NEW i \in Seq(Messages), NEW o, NEW s, NEW f, Live(x, i, o, s, f),
         Matched(x), x.state \in Receiving, FatalLast(i, s), NEW group \in Starts(i),
         NEW r, r = put(x.state, x, group)
  PROVE  Reads(x, i, o, s, f, group, r)
<1> DEFINE c == x.commands
           y == r.xact
           k == r.count
           j == SubSeq(i, k + 1, Len(i))
<1>0. y = put(x.state, x, group).xact /\ k = put(x.state, x, group).count
      /\ j = SubSeq(i, k + 1, Len(i))
  OBVIOUS
<1>14. PICK g \in 1 .. Len(i) : group = SubSeq(i, 1, g)
  BY DEF Starts
<1> HIDE DEF y, k, j
<1>1. PICK e \in Places(c) : StandsAt(x, i, o, s, f, e)
  BY DEF Live
<1>2. PICK at : Track(c, Place(x), i, at) /\ at[Len(i)] = e
  BY <1>1 DEF StandsAt, Leads
<1>3. Len(i) \in Nat /\ g \in 0 .. Len(i) /\ g \in Nat
  BY <1>14, LenProperties
<1>4. group \in Seq(Messages) /\ Len(group) = g /\ \A n \in 1 .. g : group[n] = i[n]
  <2>1. \A n \in 1 .. g : i[n] \in Messages
    BY <1>3, ElementOfSeq
  <2>2. /\ SubSeq(i, 1, g) \in Seq(Messages)
        /\ Len(SubSeq(i, 1, g)) = IF 1 <= g THEN g - 1 + 1 ELSE 0
        /\ \A n \in 1 .. g - 1 + 1 : SubSeq(i, 1, g)[n] = i[1 + n - 1]
    BY <1>3, <2>1, SubSeqProperties
  <2>3. \A n \in 1 .. g : n \in 1 .. g - 1 + 1 /\ 1 + n - 1 = n
    BY <1>3
  <2> QED BY <1>3, <1>14, <2>2, <2>3
<1> DEFINE a == [n \in 0 .. g |-> at[n]]
<1>5. Track(c, Place(x), group, a)
  BY <1>2, <1>3, <1>14, TrackApart
<1>6. /\ WellFormed(x) /\ Place(x) \in Places(c) /\ FastPlace(x) /\ Going(x)
      /\ Copied(x, i, s) /\ Late(x, i, s) /\ x.state # "Complete"
      /\ Len(c) \in Nat /\ x.offset \in Nat
  <2>1. Len(c) \in Nat
    BY LenProperties DEF Live, Going, WellFormed, CommandsOf
  <2>2. x.offset \in Nat
    BY TransactionsAre
  <2> QED BY <2>1, <2>2 DEF Live, Going, Receiving
<1>7. x.offset <= Len(c)
  <2>1. ~ (x.offset > Len(c))
    BY <1>6 DEF Going
  <2> QED BY <1>6, <2>1
<1>8. group # <<>>
  BY <1>3, <1>4
<1>9. ~ r.raised /\ Taken(x, group, a, y, k)
  <2> HIDE DEF a
  <2>1. /\ Taken(x, group, a, put(x.state, x, group).xact, put(x.state, x, group).count)
        /\ ~ put(x.state, x, group).raised
    BY ONLY <1>4, <1>5, <1>6, <1>7, <1>8, x \in Transactions, Matched(x), x.state \in Receiving, PutTakes DEF c
  <2> QED BY <1>0, <2>1
<1>10. /\ y \in Transactions /\ k \in 0 .. g /\ Matched(y)
       /\ y.commands = c /\ y.number = x.number /\ y.messages = x.messages
  BY <1>4, <1>9 DEF Taken
<1>11. k \in 0 .. Len(i)
  BY <1>3, <1>10
<1>15. Lastly(y, j, o, s) \/ Live(y, j, o, s, f) => Reads(x, i, o, s, f, group, r)
  BY <1>4, <1>9, <1>10 DEF Reads, y, k, j
<1>12. CASE Lost(group, y, k)
  <2>1. k \in 1 .. g /\ group[k].type = "FatalError" /\ y.state = "Complete" /\ y.fatal = Fatal
    BY <1>10, <1>12 DEF Lost
  <2>2. k \in 1 .. Len(i) /\ i[k].type = "FatalError"
    BY <1>3, <1>4, <2>1
  <2>3. k = Len(i) /\ s.mode = "gone"
    BY <2>2 DEF FatalLast
  <2>4. j = <<>>
    BY <1>0, <1>3, <2>3, SubSeqEmpty
  <2> QED BY <1>1, <1>15, <2>1, <2>3, <2>4 DEF Lastly, StandsAt
<1>13. CASE Went(x, group, a, y, k)
  <2>1. Went(x, i, at, y, k)
    BY ONLY <1>3, <1>4, <1>10, <1>13, WentFurther DEF a
  <2>2. Going(y) /\ Copied(y, j, s) /\ Late(y, j, s)
    BY ONLY <1>2, <1>6, <1>10, <1>11, <2>1, <1>0, i \in Seq(Messages), WentGoes DEF c
  <2>3. StandsAt(y, j, o, s, f, e)
    <3>1. /\ Going(x) /\ Copied(x, i, s) /\ Track(x.commands, Place(x), i, at)
          /\ y.commands = x.commands /\ y.number = x.number /\ e \in Places(x.commands)
          /\ StandsAt(x, i, o, s, f, e) /\ e = at[Len(i)]
          /\ i \in Seq(Messages) /\ j = SubSeq(i, k + 1, Len(i)) /\ x.state \in Receiving
      BY <1>0, <1>1, <1>2, <1>6, <1>10
    <3> QED BY ONLY <1>11, <2>1, <3>1, WentStands, ZenonT(40)
  <2>4. Live(y, j, o, s, f)
    BY <1>1, <1>10, <2>2, <2>3 DEF Live
  <2> QED BY <1>15, <2>4
<1> QED BY <1>9, <1>12, <1>13 DEF Taken

-----------------------------------------------------------------------------
(* The end of a transaction, and what comes from the server by itself.     *)

Settled(i, o, s) ==
  /\ (s.mode = "ready" /\ OnlyCopy(o)) \/ (s.mode = "gone" /\ o = <<>>)
  /\ Quiet(i)

LEMMA LiveHas ==
  ASSUME NEW x \in Transactions, NEW i, NEW o, NEW s, NEW f, Live(x, i, o, s, f)
  PROVE  /\ CommandsOf(x.commands, x.number) /\ Len(x.commands) \in Nat /\ Len(x.commands) >= 1
         /\ x.commands \in Seq([type : Answered, id : Ids])
         /\ Place(x) \in Places(x.commands) /\ x.offset \in Nat /\ Place(x).offset = x.offset
         /\ x.offset \in 1 .. Len(x.commands) + 1
<1>1. CommandsOf(x.commands, x.number) /\ Place(x) \in Places(x.commands)
  BY DEF Live, Going, WellFormed
<1>2. Len(x.commands) \in Nat /\ x.commands \in Seq([type : Answered, id : Ids]) /\ Len(x.commands) >= 1
  BY <1>1, LenProperties DEF CommandsOf
<1>3. x.offset \in Nat /\ Place(x).offset = x.offset
  BY TransactionsAre DEF Place, At
<1>4. x.offset \in 1 .. Len(x.commands) + 1
  BY <1>1, <1>3 DEF Places
<1> QED BY <1>1, <1>2, <1>3, <1>4

LEMMA LiveCompletes ==
  ASSUME NEW x \in Transactions, NEW i \in Seq(Messages), NEW o, NEW s, NEW f,
         Live(x, i, o, s, f), x.state = "Complete"
  PROVE  /\ x.fatal # Fatal /\ x.last_ready \in Statuses
         /\ Settled(i, o, s)
         /\ s.mode = "ready" => x.last_ready = s.tx
         /\ x.number \in f => x.fatal = NotFatal
<1> DEFINE c == x.commands
<1>1. PICK e \in Places(c) : StandsAt(x, i, o, s, f, e)
  BY DEF Live
<1>2. /\ CommandsOf(c, x.number) /\ Len(c) \in Nat /\ c \in Seq([type : Answered, id : Ids])
      /\ Place(x) \in Places(c) /\ x.offset \in 1 .. Len(c) + 1 /\ Place(x).offset = x.offset
  BY LiveHas
<1> HIDE DEF c
<1>3. Place(x).offset = Len(c) + 1
  <2>1. x.offset > Len(c)
    BY DEF Live, Going, c
  <2> QED BY <1>2, <2>1
<1>4. Quiet(i) /\ e = Place(x)
  <2>1. Leads(c, Place(x), i, e)
    BY <1>1 DEF StandsAt, c
  <2> QED BY ONLY <1>2, <1>3, <2>1, i \in Seq(Messages), QuietAtEnd
<1>5. e.offset = Len(c) + 1 /\ e.offset > Len(c) /\ ~ (e.offset <= Len(c)) /\ e.offset # Len(c)
  BY <1>2, <1>3, <1>4
<1>6. x.fatal # Fatal
  BY DEF Live, Late, Receiving
<1>7. x.last_ready \in Statuses
  <2>1. x.last_ready \in Statuses \cup {None} /\ x.last_ready # None
    BY TransactionsAre DEF Live, Going
  <2> QED BY <2>1
<1>9. x.number \in f => x.fatal = NotFatal
  <2>1. SUFFICES ASSUME x.number \in f PROVE x.fatal # None
    <3>1. x.fatal \in {Fatal, NotFatal, None}
      BY TransactionsAre
    <3> QED BY <1>6, <2>1, <3>1
  <2>2. ~ Failing(i)
    BY <1>4 DEF Failing, Quiet, Aside, IsAsync, AsynchronousMap
  <2> QED BY <1>1, <1>5, <2>1, <2>2 DEF StandsAt, Known, c
<1>8. CASE s.mode = "gone"
  <2>1. o = <<>>
    BY <1>1, <1>8 DEF StandsAt
  <2> QED BY <1>4, <1>6, <1>7, <1>8, <1>9, <2>1 DEF Settled
<1>10. CASE s.mode # "gone"
  <2>1. ~ Skipping(x, o, s, e)
    BY <1>5 DEF Skipping, At, c
  <2>2. ~ Loading(x, i, o, s, e)
    BY <1>5 DEF Loading, CopyPlace, c
  <2>3. Answering(x, i, o, s, e)
    BY <1>1, <1>10, <2>1, <2>2 DEF StandsAt, Working
  <2>4. PICK u \in Seq(Sendables) : OnlyCopy(u) /\ o = u \o From(c, e.offset)
    BY <2>3 DEF Answering, c
  <2>5. o = u
    <3>1. From(c, e.offset) = <<>>
      BY <1>2, <1>5, FromBehind
    <3> QED BY <2>4, <3>1, ConcatEmptySeq
  <2>6. s.mode = "ready" /\ x.last_ready = s.tx
    BY <1>5, <2>3 DEF Answering, c
  <2> QED BY <1>4, <1>6, <1>7, <1>9, <2>4, <2>5, <2>6 DEF Settled
<1> QED BY <1>8, <1>10

LEMMA AppendedIs ==
  ASSUME NEW S, NEW i \in Seq(S), NEW m \in S, NEW j, j = Append(i, m)
  PROVE  /\ j \in Seq(S) /\ Len(j) = Len(i) + 1 /\ Len(i) \in Nat
         /\ \A n \in 1 .. Len(i) : j[n] = i[n]
         /\ j[Len(i) + 1] = m
         /\ \A n \in 1 .. Len(j) : n \in 1 .. Len(i) \/ n = Len(i) + 1
BY AppendProperties, LenProperties

LEMMA LeadsAppended ==
  ASSUME NEW i \in Seq(Messages), NEW m \in Messages, NEW c, NEW p, NEW e \in Places(c), NEW q \in Places(c),
         Leads(c, p, i, e), Moves(c, e, m, q)
  PROVE  Leads(c, p, Append(i, m), q)
<1>1. Leads(c, e, <<m>>, q)
  BY LeadsByOne
<1>2. <<m>> \in Seq(Messages) /\ Append(i, m) = i \o <<m>>
  BY AppendIsConcat
<1> DEFINE t == <<m>>
<1> HIDE DEF t
<1>3. Leads(c, e, t, q) /\ t \in Seq(Messages) /\ Append(i, m) = i \o t
  BY <1>1, <1>2 DEF t
<1> QED BY ONLY <1>3, Leads(c, p, i, e), i \in Seq(Messages), LeadsOn

LEMMA LiveHears ==
  ASSUME NEW x \in Transactions, NEW i \in Seq(Messages), NEW o, NEW s, NEW f,
         Live(x, i, o, s, f), s.mode = "ready", NEW m \in Messages, IsAsync(m),
         NEW j, j = Append(i, m)
  PROVE  Live(x, j, o, s, f)
<1> DEFINE c == x.commands
<1>1. PICK e \in Places(c) : StandsAt(x, i, o, s, f, e)
  BY DEF Live
<1>2. /\ j \in Seq(Messages) /\ Len(j) = Len(i) + 1 /\ Len(i) \in Nat
      /\ \A n \in 1 .. Len(i) : j[n] = i[n]
      /\ j[Len(i) + 1] = m
      /\ \A n \in 1 .. Len(j) : n \in 1 .. Len(i) \/ n = Len(i) + 1
  BY AppendedIs
<1>3. Aside(m) /\ m.type \notin {"Ready", "CopyFromBegin", "Error"}
  BY DEF Aside, IsAsync, AsynchronousMap
<1> HIDE DEF c
<1>4. Leads(c, Place(x), j, e)
  <2>1. Leads(c, Place(x), i, e) /\ Moves(c, e, m, e)
    BY <1>1, <1>3 DEF StandsAt, Moves, c
  <2> QED BY <1>1, <2>1, LeadsAppended
<1>5. ~ Begun(i)
  BY DEF Live, Copied, CopyIn
<1>6. \A n \in 1 .. Len(j) : j[n].type # "CopyFromBegin"
  BY <1>2, <1>3, <1>5 DEF Begun
<1>7. Copied(x, j, s)
  BY <1>6 DEF Copied, Begun
<1>8. Late(x, j, s)
  BY DEF Live, Late
<1>9. Answering(x, j, o, s, e)
  <2>1. Answering(x, i, o, s, e)
    BY <1>1 DEF StandsAt, Working, Skipping, Loading, CopyIn
  <2>2. \A n \in 1 .. Len(j) : j[n].type = "Ready" => n \in 1 .. Len(i) /\ j[n] = i[n]
    BY <1>2, <1>3
  <2> QED BY <2>1, <2>2 DEF Answering
<1>10. Known(x, j, s, f, e)
  <2>1. Failing(i) => Failing(j)
    BY <1>2 DEF Failing
  <2> QED BY <1>1, <2>1 DEF StandsAt, Known
<1>11. StandsAt(x, j, o, s, f, e)
  BY <1>4, <1>9, <1>10 DEF StandsAt, Working, c
<1> QED BY <1>1, <1>7, <1>8, <1>11 DEF Live, c

-----------------------------------------------------------------------------
(* The server ends.                                                        *)

LEMMA LiveLoses ==
  ASSUME NEW x \in Transactions, NEW i \in Seq(Messages), NEW o, NEW s, NEW f,
         Live(x, i, o, s, f), s.mode # "gone", NEW t, t.mode = "gone",
         NEW g \in 0 .. Len(i), NEW j, j = SubSeq(i, 1, g)
  PROVE  Live(x, j, <<>>, t, f)
<1> DEFINE c == x.commands
<1>1. PICK e \in Places(c) : StandsAt(x, i, o, s, f, e)
  BY DEF Live
<1>2. /\ CommandsOf(c, x.number) /\ Len(c) \in Nat
      /\ Place(x) \in Places(c) /\ x.offset \in 1 .. Len(c) + 1 /\ Place(x).offset = x.offset
  BY LiveHas
<1> HIDE DEF c
<1>3. PICK at : Track(c, Place(x), i, at) /\ at[Len(i)] = e
  BY <1>1 DEF StandsAt, Leads, c
<1>4. /\ Leads(c, Place(x), j, at[g]) /\ at[g] \in Places(c)
      /\ Leads(c, at[g], SubSeq(i, g + 1, Len(i)), e)
  BY <1>3, TrackApart
<1>5. Len(j) = g /\ Len(i) \in Nat /\ \A n \in 1 .. g : j[n] = i[n]
  <2>1. Len(i) \in Nat /\ \A n \in 1 .. g : i[n] \in Messages
    BY LenProperties, ElementOfSeq
  <2>2. /\ Len(SubSeq(i, 1, g)) = IF 1 <= g THEN g - 1 + 1 ELSE 0
        /\ \A n \in 1 .. g - 1 + 1 : SubSeq(i, 1, g)[n] = i[1 + n - 1]
    BY <2>1, SubSeqProperties
  <2>3. \A n \in 1 .. g : n \in 1 .. g - 1 + 1 /\ 1 + n - 1 = n
    BY <2>1
  <2> QED BY <2>1, <2>2, <2>3
<1>6. Going(x) /\ x.fatal # Fatal
  BY DEF Live, Late
<1>7. Copied(x, j, t)
  <2>1. ASSUME NEW n \in 1 .. Len(j), j[n].type = "CopyFromBegin", NEW l \in n + 1 .. Len(j)
        PROVE  Aside(j[l])
    <3>1. n \in 1 .. Len(i) /\ i[n].type = "CopyFromBegin" /\ l \in n + 1 .. Len(i) /\ j[l] = i[l]
      BY <1>5, <2>1
    <3> QED BY <3>1 DEF Live, Copied
  <2>2. Begun(j) => Begun(i)
    BY <1>5 DEF Begun
  <2> QED BY <2>1, <2>2 DEF Live, Copied
<1>8. Known(x, j, t, f, at[g])
  <2>1. SUFFICES ASSUME x.number \in f, x.fatal = None, ~ Failing(j)
                 PROVE  at[g].offset <= Len(c)
    BY DEF Known, c
  <2>2. Failing(i)
    BY <1>1, <2>1 DEF StandsAt, Known
  <2>3. PICK n \in 1 .. Len(i) : i[n].type = "Error"
    BY <2>2 DEF Failing
  <2>4. n \in g + 1 .. Len(i)
    BY <1>5, <2>1, <2>3 DEF Failing
  <2>5. SUFFICES ASSUME at[g].offset = Len(c) + 1 PROVE FALSE
    BY <1>2, <1>4 DEF Places
  <2> DEFINE r == SubSeq(i, g + 1, Len(i))
  <2>6. /\ r \in Seq(Messages) /\ n - g \in 1 .. Len(r) /\ r[n - g] = i[n]
    BY <2>4, ShorterIs
  <2>7. Leads(c, at[g], r, e)
    BY <1>4
  <2> HIDE DEF r
  <2>8. Quiet(r)
    BY ONLY <1>2, <1>4, <2>5, <2>6, <2>7, QuietAtEnd
  <2> QED BY <2>3, <2>6, <2>8 DEF Quiet, Aside, IsAsync, AsynchronousMap
<1>9. StandsAt(x, j, <<>>, t, f, at[g])
  BY <1>4, <1>8 DEF StandsAt, c
<1> QED BY <1>4, <1>6, <1>7, <1>9 DEF Live, Late, c

LEMMA LiveIsTold ==
  ASSUME NEW x \in Transactions, NEW i \in Seq(Messages), NEW o, NEW s, NEW f,
         Live(x, i, o, s, f), s.mode # "gone", NEW t, t.mode = "gone",
         NEW m \in Messages, m.type = "FatalError", NEW j, j = Append(i, m)
  PROVE  Live(x, j, <<>>, t, f)
<1> DEFINE c == x.commands
<1>1. PICK e \in Places(c) : StandsAt(x, i, o, s, f, e)
  BY DEF Live
<1>2. /\ j \in Seq(Messages) /\ Len(j) = Len(i) + 1 /\ Len(i) \in Nat
      /\ \A n \in 1 .. Len(i) : j[n] = i[n]
      /\ j[Len(i) + 1] = m
      /\ \A n \in 1 .. Len(j) : n \in 1 .. Len(i) \/ n = Len(i) + 1
  BY AppendedIs
<1>3. Aside(m)
  BY DEF Aside
<1> HIDE DEF c
<1>4. Leads(c, Place(x), j, e)
  <2>1. Leads(c, Place(x), i, e) /\ Moves(c, e, m, e)
    BY <1>1, <1>3 DEF StandsAt, Moves, c
  <2> QED BY <1>1, <2>1, LeadsAppended
<1>5. Going(x) /\ x.fatal # Fatal
  BY DEF Live, Late
<1>6. Copied(x, j, t)
  <2>1. ASSUME NEW n \in 1 .. Len(j), j[n].type = "CopyFromBegin", NEW l \in n + 1 .. Len(j)
        PROVE  Aside(j[l])
    <3>1. n \in 1 .. Len(i) /\ i[n].type = "CopyFromBegin"
      BY <1>2, <2>1
    <3>2. CASE l = Len(i) + 1
      BY <1>2, <1>3, <3>2
    <3>3. CASE l # Len(i) + 1
      <4>1. l \in n + 1 .. Len(i) /\ l \in 1 .. Len(i)
        BY <1>2, <3>1, <3>3
      <4> QED BY <1>2, <3>1, <4>1 DEF Live, Copied
    <3> QED BY <3>2, <3>3
  <2>2. Begun(j) => Begun(i)
    BY <1>2 DEF Begun
  <2> QED BY <2>1, <2>2 DEF Live, Copied
<1>7. Known(x, j, t, f, e)
  <2>1. Failing(i) => Failing(j)
    BY <1>2 DEF Failing
  <2> QED BY <1>1, <2>1 DEF StandsAt, Known
<1>8. StandsAt(x, j, <<>>, t, f, e)
  BY <1>4, <1>7 DEF StandsAt, c
<1> QED BY <1>1, <1>5, <1>6, <1>8 DEF Live, Late, c

-----------------------------------------------------------------------------
(* What a COPY FROM STDIN sends.                                           *)

LEMMA FromIs ==
  ASSUME NEW S, NEW c \in Seq(S), NEW n \in 1 .. Len(c) + 1
  PROVE  /\ From(c, n) \in Seq(S) /\ Len(From(c, n)) = Len(c) + 1 - n
         /\ n <= Len(c) => /\ From(c, n) # <<>> /\ Head(From(c, n)) = c[n]
                           /\ Tail(From(c, n)) = From(c, n + 1)
         /\ n = Len(c) + 1 => From(c, n) = <<>>
         /\ n = Len(c) => From(c, n) = << c[n] >>
<1>1. Len(c) \in Nat /\ n \in Nat /\ n >= 1
  BY LenProperties
<1>2. \A k \in n .. Len(c) : c[k] \in S
  <2> TAKE k \in n .. Len(c)
  <2>1. k \in 1 .. Len(c)
    BY <1>1
  <2> QED BY <2>1, ElementOfSeq
<1>3. From(c, n) \in Seq(S) /\ Len(From(c, n)) = IF n <= Len(c) THEN Len(c) - n + 1 ELSE 0
  BY <1>1, <1>2, SubSeqProperties DEF From
<1>4. Len(From(c, n)) = Len(c) + 1 - n
  BY <1>1, <1>3
<1>5. n <= Len(c) => From(c, n) # <<>> /\ Head(From(c, n)) = c[n] /\ Tail(From(c, n)) = From(c, n + 1)
  <2>1. SUFFICES ASSUME n <= Len(c)
                 PROVE  From(c, n) # <<>> /\ Head(From(c, n)) = c[n] /\ Tail(From(c, n)) = From(c, n + 1)
    OBVIOUS
  <2>2. From(c, n) # <<>>
    BY <1>1, <1>4, <2>1, EmptySeq
  <2>3. n \in 1 .. Len(c) /\ Len(c) \in n .. Len(c)
    BY <1>1, <2>1
  <2> QED BY <2>2, <2>3, HeadTailOfSubSeq DEF From
<1>6. n = Len(c) + 1 => From(c, n) = <<>>
  BY <1>1, <1>3, <1>4, EmptySeq
<1>7. n = Len(c) => From(c, n) = << c[n] >>
  <2>1. SUFFICES ASSUME n = Len(c) PROVE From(c, n) = << c[n] >>
    OBVIOUS
  <2>2. n \in 1 .. Len(c) /\ Len(c) \in n .. Len(c)
    BY <1>1, <2>1
  <2>3. From(c, n) = << c[n] >> \o SubSeq(c, n + 1, Len(c))
    BY <2>2, SubSeqRecursiveFirst DEF From
  <2>4. SubSeq(c, n + 1, Len(c)) = <<>>
    BY <1>1, <2>1, SubSeqEmpty
  <2>5. << c[n] >> \in Seq(S)
    BY <1>2, <2>2
  <2> QED BY <2>3, <2>4, <2>5, ConcatEmptySeq
<1> QED BY <1>3, <1>4, <1>5, <1>6, <1>7

LEMMA CommandsAreSendable ==
  ASSUME NEW c \in Seq([type : Answered, id : Ids])
  PROVE  c \in Seq(Sendables)
<1>1. [type : Answered, id : Ids] \subseteq Sendables
  BY HookDomain DEF Sendables, Answered, Extended
<1> QED BY <1>1, SeqMonotonic

LEMMA CopyGrows ==
  ASSUME NEW u \in Seq(Sendables), NEW m \in Sendables, m.type \in CopyWire, OnlyCopy(u),
         NEW v, v = Append(u, m)
  PROVE  /\ v \in Seq(Sendables) /\ OnlyCopy(v) /\ Len(v) = Len(u) + 1 /\ Len(u) \in Nat
         /\ v[Len(u) + 1] = m /\ \A n \in 1 .. Len(u) : v[n] = u[n]
<1>2. /\ v \in Seq(Sendables) /\ Len(v) = Len(u) + 1 /\ Len(u) \in Nat
      /\ \A n \in 1 .. Len(u) : v[n] = u[n]
      /\ v[Len(u) + 1] = m
      /\ \A n \in 1 .. Len(v) : n \in 1 .. Len(u) \/ n = Len(u) + 1
  BY AppendedIs
<1>3. OnlyCopy(v)
  <2>1. ASSUME NEW n \in 1 .. Len(v) PROVE v[n].type \in CopyWire
    <3>1. CASE n \in 1 .. Len(u)
      BY <1>2, <3>1 DEF OnlyCopy
    <3>2. CASE n = Len(u) + 1
      BY <1>2, <3>2
    <3> QED BY <1>2, <3>1, <3>2
  <2> QED BY <2>1 DEF OnlyCopy
<1> QED BY <1>2, <1>3

\* y is x after sending m and then r behind it.
Sends(x, y, m, r) ==
  /\ y.commands = x.commands /\ y.number = x.number /\ Place(y) = Place(x) /\ y.offset = x.offset
  /\ y.step = x.step /\ y.fatal = x.fatal /\ y.messages # "commands"
  /\ \/ /\ y.state = "sent_from_stdin" /\ y.reissued = x.reissued
        /\ m.type = "CopyData" /\ r = <<>>
     \/ /\ y.state = "standard_put"
        /\ m.type \in {"CopyDone", "CopyFail"} /\ r = From(x.commands, x.offset + 1)

LEMMA SendsGoing ==
  ASSUME NEW x, NEW y, NEW i, NEW s, Going(x), Copied(x, i, s), Late(x, i, s), x.state = "sent_from_stdin",
         NEW m, NEW r, Sends(x, y, m, r)
  PROVE  Going(y) /\ Copied(y, i, s) /\ Late(y, i, s)
<1>1. WellFormed(y) /\ Place(y) \in Places(y.commands)
  BY DEF Going, WellFormed, Sends
<1>2. Copied(y, i, s)
  BY DEF Copied, Sends
<1>3. Late(y, i, s)
  BY DEF Late, Sends, Receiving
<1>4. FastPlace(y) /\ y.state # "Complete"
  BY DEF Sends, FastPlace
<1>5. ~ (y.offset > Len(y.commands))
  BY DEF Going, Sends
<1>6. y.state = "sent_from_stdin" =>
       /\ CopyPlace(y.commands, y) /\ CopiesLast(y.commands)
       /\ y.reissued = From(y.commands, y.offset + 1)
  BY DEF Going, Sends, CopyPlace
<1>7. y.state \in Receiving \cup {"Complete", "sent_from_stdin"} /\ y.messages # "commands"
  BY DEF Sends, Receiving
<1> QED BY <1>1, <1>2, <1>3, <1>4, <1>5, <1>6, <1>7 DEF Going

LEMMA LiveSends ==
  ASSUME NEW x \in Transactions, NEW i, NEW o, NEW s, NEW f, Live(x, i, o, s, f),
         x.state = "sent_from_stdin", NEW m \in Sendables, NEW r, NEW y, Sends(x, y, m, r)
  PROVE  Live(y, i, IF s.mode = "gone" THEN o ELSE o \o (<<m>> \o r), s, f)
<1> DEFINE c == x.commands
           v == <<m>>
           p == IF s.mode = "gone" THEN o ELSE o \o (v \o r)
<1>1. PICK e \in Places(c) : StandsAt(x, i, o, s, f, e)
  BY DEF Live
<1>2. /\ CommandsOf(c, x.number) /\ Len(c) \in Nat /\ c \in Seq(Sendables)
      /\ Place(x) \in Places(c) /\ x.offset \in 1 .. Len(c) + 1 /\ Place(x).offset = x.offset
  BY LiveHas, CommandsAreSendable
<1>3. Going(y) /\ Copied(y, i, s) /\ Late(y, i, s)
  BY SendsGoing DEF Live
<1>4. /\ y.commands = c /\ Place(y) = Place(x) /\ y.state # "Complete" /\ y.number = x.number /\ y.fatal = x.fatal
      /\ y.offset = x.offset
  BY DEF Sends
<1>5. v \in Seq(Sendables) /\ Len(v) = 1 /\ m.type \in CopyWire
  BY DEF Sends, CopyWire
<1>6. x.offset <= Len(c) /\ CopyPlace(c, x) /\ CopiesLast(c)
  BY DEF Live, Going, CopyPlace
<1>7. x.offset + 1 \in 1 .. Len(c) + 1
  BY <1>2, <1>6
<1>8. r \in Seq(Sendables)
  <2> HIDE DEF c
  <2>1. From(c, x.offset + 1) \in Seq(Sendables)
    BY <1>2, <1>7, FromIs
  <2>2. r = <<>> \/ r = From(c, x.offset + 1)
    BY DEF Sends, c
  <2> QED BY <2>1, <2>2, EmptySeq
<1>9. CASE s.mode = "gone"
  <2>1. StandsAt(y, i, o, s, f, e)
    BY <1>1, <1>4, <1>9 DEF StandsAt, Known
  <2> QED BY <1>1, <1>3, <1>4, <1>9, <2>1 DEF Live
<1> HIDE DEF c, v
<1>10. CASE s.mode # "gone"
  <2>1. p = o \o (v \o r)
    BY <1>10
  <2> HIDE DEF p
  <2>2. ASSUME Answering(x, i, o, s, e) PROVE Answering(y, i, p, s, e)
    <3>1. PICK u \in Seq(Sendables) : OnlyCopy(u) /\ o = u \o From(c, e.offset)
      BY <2>2 DEF Answering, c
    <3>2. e.offset > Len(c) /\ x.offset = Len(c)
      BY <2>2 DEF Answering, c
    <3>3. From(c, e.offset) = <<>>
      <4>1. e.offset = Len(c) + 1
        BY <1>2, <3>2 DEF Places
      <4> QED BY <1>2, <4>1, FromBehind
    <3>4. r = <<>>
      <4>1. From(c, x.offset + 1) = <<>>
        BY <1>2, <3>2, FromBehind
      <4> QED BY <4>1 DEF Sends, c
    <3>5. u \o v \in Seq(Sendables) /\ OnlyCopy(u \o v)
      <4>1. u \o v = Append(u, m)
        BY AppendIsConcat DEF v
      <4> QED BY <1>5, <3>1, <4>1, CopyGrows
    <3>6. p = (u \o v) \o From(c, e.offset)
      <4>1. o = u /\ v \o r = v
        BY <1>5, <3>1, <3>3, <3>4, ConcatEmptySeq
      <4> QED BY <2>1, <3>3, <3>5, <4>1, ConcatEmptySeq
    <3> QED BY <1>4, <2>2, <3>2, <3>5, <3>6 DEF Answering, c
  <2>3. ASSUME Skipping(x, o, s, e) PROVE Skipping(y, p, s, e)
    <3> DEFINE t == << c[Len(c)] >>
    <3>1. PICK u \in Seq(Sendables) :
            /\ \A k \in 1 .. Len(u) : u[k].type \notin {"Synchronize", "Disconnect"}
            /\ o = u \o <<>>
      BY <2>3 DEF Skipping, Unsent, c
    <3>2. o = u
      BY <3>1, ConcatEmptySeq
    <3>3. /\ u \o v \in Seq(Sendables)
          /\ \A k \in 1 .. Len(u \o v) : (u \o v)[k].type \notin {"Synchronize", "Disconnect"}
      <4> DEFINE w == u \o v
      <4>1. w = Append(u, m)
        BY <1>5, AppendIsConcat DEF v
      <4> HIDE DEF w
      <4>2. /\ w \in Seq(Sendables) /\ w[Len(u) + 1] = m
            /\ \A n \in 1 .. Len(u) : w[n] = u[n]
            /\ \A n \in 1 .. Len(w) : n \in 1 .. Len(u) \/ n = Len(u) + 1
        BY <4>1, AppendedIs
      <4>3. m.type \notin {"Synchronize", "Disconnect"}
        BY <1>5 DEF CopyWire
      <4>4. \A k \in 1 .. Len(w) : w[k].type \notin {"Synchronize", "Disconnect"}
        <5> TAKE k \in 1 .. Len(w)
        <5>1. CASE k \in 1 .. Len(u)
          BY <3>1, <4>2, <5>1
        <5>2. CASE k = Len(u) + 1
          BY <4>2, <4>3, <5>2
        <5> QED BY <4>2, <5>1, <5>2
      <4> QED BY <4>2, <4>4 DEF w
    <3>4. r = Unsent(y, t)
      <4>1. CASE y.state = "sent_from_stdin"
        BY <4>1 DEF Sends, Unsent
      <4>2. CASE y.state # "sent_from_stdin"
        <5>1. x.offset + 1 = Len(c)
          <6>1. c[Len(c)].type = "Synchronize"
            BY <2>3 DEF Skipping, c
          <6>2. x.offset # Len(c)
            BY <1>6, <6>1 DEF CopyPlace
          <6>3. ~ (x.offset \in 1 .. Len(c) - 2)
            <7>1. SUFFICES ASSUME x.offset \in 1 .. Len(c) - 2 PROVE FALSE
              OBVIOUS
            <7>2. c[x.offset].type = "Execute"
              <8>1. c[x.offset].type # "Query"
                <9>1. x.offset \in 1 .. Len(c) - 1
                  BY <1>2, <7>1
                <9> QED BY <1>2, <9>1 DEF CommandsOf, Extended
              <8> QED BY <1>6, <8>1 DEF CopyPlace
            <7> QED BY <1>6, <7>1, <7>2 DEF CopiesLast
          <6> QED BY <1>2, <1>6, <6>2, <6>3
        <5>2. From(c, Len(c)) = t
          <6>1. Len(c) \in 1 .. Len(c) + 1
            BY <1>2, <5>1
          <6> QED BY <1>2, <6>1, FromIs
        <5>3. r = From(c, x.offset + 1)
          BY <4>2 DEF Sends, c
        <5> QED BY <4>2, <5>1, <5>2, <5>3 DEF Unsent
      <4> QED BY <4>1, <4>2
    <3>5. p = (u \o v) \o r
      BY <1>5, <1>8, <2>1, <3>2, ConcatAssociative
    <3> QED BY <1>4, <2>3, <3>3, <3>4, <3>5 DEF Skipping, c
  <2>4. ASSUME Loading(x, i, o, s, e) PROVE Loading(y, i, p, s, e)
    <3>1. ~ Begun(i) /\ Place(x) = e /\ Quiet(i) /\ Loads(x, o, s, e)
      BY <2>4 DEF Loading
    <3> DEFINE a == Owed(s, c, e)
               t == From(c, e.offset + 1)
    <3>2. e.offset = x.offset
      BY <1>2, <3>1
    <3>3. t \in Seq(Sendables) /\ a \in Seq(Sendables)
      <4>1. From(c, e.offset + 1) \in Seq(Sendables)
        BY <1>2, <1>7, <3>2, FromIs
      <4> QED BY <4>1, EmptySeq DEF Owed
    <3>4. PICK u \in Seq(Sendables) : OnlyCopy(u) /\ Closes(x, u) /\ o = a \o (u \o <<>>)
      BY <3>1 DEF Loads, Unsent, c
    <3> HIDE DEF a, t
    <3>5. o = a \o u
      BY <3>4, ConcatEmptySeq
    <3> DEFINE w == u \o v
    <3>6. /\ w \in Seq(Sendables) /\ OnlyCopy(w) /\ Len(w) = Len(u) + 1 /\ Len(u) \in Nat
          /\ w[Len(u) + 1] = m /\ \A n \in 1 .. Len(u) : w[n] = u[n]
      <4>1. w = Append(u, m)
        BY AppendIsConcat DEF v
      <4> HIDE DEF w
      <4>2. u \in Seq(Sendables) /\ OnlyCopy(u) /\ m \in Sendables /\ m.type \in CopyWire
        BY <1>5, <3>4
      <4>3. OnlyCopy(w)
        BY <4>1, <4>2, CopyGrows
      <4>4. /\ w \in Seq(Sendables) /\ Len(w) = Len(u) + 1
            /\ Len(u) \in Nat /\ w[Len(u) + 1] = m /\ \A n \in 1 .. Len(u) : w[n] = u[n]
        BY <4>1, <4>2, AppendedIs
      <4> QED BY <4>3, <4>4
    <3>7. Closes(y, w)
      <4> HIDE DEF w
      <4>1. CASE y.state = "sent_from_stdin"
        <5>1. m.type = "CopyData"
          BY <4>1 DEF Sends
        <5>2. \A n \in 1 .. Len(u) : u[n].type = "CopyData"
          BY <3>4 DEF Closes
        <5>3. \A n \in 1 .. Len(w) : w[n].type = "CopyData"
          <6> TAKE n \in 1 .. Len(w)
          <6>1. CASE n \in 1 .. Len(u)
            BY <3>6, <5>2, <6>1
          <6>2. CASE n = Len(u) + 1
            BY <3>6, <5>1, <6>2
          <6> QED BY <3>6, <6>1, <6>2
        <5> QED BY <4>1, <5>3 DEF Closes
      <4>2. CASE y.state # "sent_from_stdin"
        <5>1. m.type \in {"CopyDone", "CopyFail"}
          BY <4>2 DEF Sends
        <5>2. Len(u) + 1 \in 1 .. Len(w)
          BY <3>6
        <5> QED BY <3>6, <4>2, <5>1, <5>2 DEF Closes
      <4> QED BY <4>1, <4>2
    <3>8. r = Unsent(y, t)
      BY <3>2 DEF Sends, Unsent, t, c
    <3>9. p = a \o (w \o r)
      <4>1. (a \o u) \o (v \o r) = a \o (u \o (v \o r))
        <5>1. v \o r \in Seq(Sendables)
          BY <1>5, <1>8, ConcatProperties
        <5> QED BY <3>3, <3>4, <5>1, ConcatAssociative, SMTT(30)
      <4>2. u \o (v \o r) = w \o r
        BY <1>5, <1>8, <3>4, ConcatAssociative
      <4> QED BY <2>1, <3>5, <4>1, <4>2
    <3>10. Loads(y, p, s, e)
      <4> HIDE DEF w
      <4>1. w \in Seq(Sendables) /\ OnlyCopy(w) /\ Closes(y, w)
            /\ p = Owed(s, y.commands, e) \o (w \o Unsent(y, From(y.commands, e.offset + 1)))
        BY <1>4, <3>6, <3>7, <3>8, <3>9 DEF a, t
      <4> QED BY <4>1 DEF Loads
    <3> QED BY <1>4, <2>4, <3>1, <3>10 DEF Loading, c
  <2>5. StandsAt(y, i, p, s, f, e)
    BY <1>1, <1>4, <1>10, <2>2, <2>3, <2>4 DEF StandsAt, Working, Known, c
  <2> QED BY <1>1, <1>3, <1>4, <1>10, <2>1, <2>5 DEF Live, v
<1> QED BY <1>9, <1>10

-----------------------------------------------------------------------------
(* A transaction begins.                                                   *)

\* The batch y was sent, or was to be sent to a server that is gone.
Begins(y, s, f) ==
  /\ WellFormed(y) /\ Place(y) = At(1, 0) /\ y.offset = 1 /\ y.state = "standard_put"
  /\ y.messages = "none" /\ y.number \notin f
  /\ y.fatal = Fatal => s.mode = "gone"

LEMMA LiveBegins ==
  ASSUME NEW y, NEW i \in Seq(Messages), NEW o \in Seq(Sendables), NEW s, NEW f, Settled(i, o, s), Begins(y, s, f)
  PROVE  Live(y, i, IF s.mode = "gone" THEN o ELSE o \o y.commands, s, f)
<1> DEFINE c == y.commands
           e == At(1, 0)
           p == IF s.mode = "gone" THEN o ELSE o \o c
<1>1. /\ CommandsOf(c, y.number) /\ Len(c) \in Nat /\ Len(c) >= 1 /\ c \in Seq(Sendables)
  <2>1. CommandsOf(c, y.number)
    BY DEF Begins, WellFormed
  <2> QED BY <2>1, LenProperties, CommandsAreSendable DEF CommandsOf
<1>2. Quiet(i)
  BY DEF Settled
<1> HIDE DEF c
<1>3. e \in Places(c)
  BY <1>1, EndPlaces
<1>4. Leads(c, e, i, e)
  <2> HIDE DEF e
  <2> QED BY <1>2, <1>3, LeadsQuietly
<1>5. Going(y)
  <2>1. y.commands = c /\ Place(y) \in Places(c)
    BY <1>3 DEF Begins, c
  <2>2. ~ (y.offset > Len(c))
    BY <1>1 DEF Begins
  <2> QED BY <2>1, <2>2 DEF Going, Begins, Receiving, FastPlace
<1>6. ~ Begun(i) /\ \A n \in 1 .. Len(i) : i[n].type \notin {"CopyFromBegin", "Ready"}
  BY <1>2 DEF Begun, Quiet, Aside, IsAsync, AsynchronousMap
<1>7. Copied(y, i, s)
  BY <1>6 DEF Copied
<1>8. Late(y, i, s)
  BY <1>2 DEF Late, Begins, Receiving
<1>9. Known(y, i, s, f, e)
  BY DEF Known, Begins
<1>10. s.mode = "gone" => p = <<>>
  BY DEF Settled
<1>11. s.mode # "gone" => Answering(y, i, p, s, e)
  <2>1. SUFFICES ASSUME s.mode # "gone" PROVE Answering(y, i, p, s, e)
    OBVIOUS
  <2>2. s.mode = "ready" /\ OnlyCopy(o)
    BY <2>1 DEF Settled
  <2>3. p = o \o From(c, e.offset)
    <3>1. From(c, 1) = c
      BY <1>1, SubSeqFull DEF From
    <3> QED BY <2>1, <3>1 DEF At
  <2>4. ~ (e.offset > Len(c)) /\ e.step = 0
    BY <1>1 DEF At
  <2> HIDE DEF p, e
  <2> QED BY <2>2, <2>3, <2>4 DEF Answering, c, Begins
<1>12. StandsAt(y, i, p, s, f, e)
  <2>1. Leads(y.commands, Place(y), i, e)
    BY <1>4 DEF Begins, c
  <2> HIDE DEF p, e
  <2> QED BY <1>9, <1>10, <1>11, <2>1 DEF StandsAt, Working
<1> QED BY <1>3, <1>5, <1>7, <1>8, <1>12 DEF Live, c

\* The caller binds messages: nothing else changes.
Binds(x, y) ==
  /\ y.commands = x.commands /\ y.number = x.number /\ y.offset = x.offset /\ y.step = x.step
  /\ y.state = x.state /\ y.fatal = x.fatal /\ y.reissued = x.reissued
  /\ y.last_ready = x.last_ready /\ y.messages # "commands"

LEMMA LiveBinds ==
  ASSUME NEW x, NEW i, NEW o, NEW s, NEW f, Live(x, i, o, s, f), NEW y, Binds(x, y)
  PROVE  Live(y, i, o, s, f)
<1>1. Place(y) = Place(x)
  BY DEF Binds, Place
<1>2. Going(y)
  <2>1. FastPlace(y)
    BY DEF Live, Going, FastPlace, Binds, RowPlace, DataPlace
  <2>2. y.state = "sent_from_stdin" =>
       /\ CopyPlace(y.commands, y) /\ CopiesLast(y.commands)
       /\ y.reissued = From(y.commands, y.offset + 1)
    BY DEF Live, Going, CopyPlace, Binds
  <2>3. WellFormed(y)
    BY DEF Live, Going, WellFormed, Binds
  <2> QED BY <1>1, <2>1, <2>2, <2>3 DEF Live, Going, Binds
<1>3. Copied(y, i, s) /\ Late(y, i, s)
  BY DEF Live, Copied, Late, Binds
<1>4. ASSUME NEW e, StandsAt(x, i, o, s, f, e) PROVE StandsAt(y, i, o, s, f, e)
  <2>1. Answering(x, i, o, s, e) => Answering(y, i, o, s, e)
    BY DEF Answering, Binds
  <2>2. Skipping(x, o, s, e) => Skipping(y, o, s, e)
    BY DEF Skipping, Unsent, Binds
  <2>3. Loads(x, o, s, e) => Loads(y, o, s, e)
    BY DEF Loads, Closes, Unsent, Binds
  <2>4. Loading(x, i, o, s, e) => Loading(y, i, o, s, e)
    BY <1>1, <2>3 DEF Loading, Binds
  <2>5. Known(x, i, s, f, e) => Known(y, i, s, f, e)
    BY DEF Known, Binds
  <2> QED BY <1>1, <1>4, <2>1, <2>2, <2>4, <2>5 DEF StandsAt, Working, Binds
<1>5. y.commands = x.commands
  BY DEF Binds
<1> QED BY <1>2, <1>3, <1>4, <1>5 DEF Live

-----------------------------------------------------------------------------
(* What the server answers to a command.                                   *)

Outs(d, types, tx) == [k \in DOMAIN types |-> Reply(d, types[k], tx)]
ReplyTypes == Replies \cup AsynchronousMap \cup {"Error"}

LEMMA ReplyIs ==
  ASSUME NEW d, d.id \in Ids, NEW type \in ReplyTypes, NEW tx \in Statuses
  PROVE  /\ Reply(d, type, tx) \in Messages
         /\ Reply(d, type, tx).type = type /\ Reply(d, type, tx).of = d.id
         /\ type = "Ready" => Reply(d, type, tx).tx = tx
<1> DEFINE m == Reply(d, type, tx)
<1>1. /\ m = [type |-> type, of |-> d.id, tx |-> IF type = "Ready" THEN tx ELSE None]
      /\ m.type = type /\ m.of = d.id /\ m.tx = IF type = "Ready" THEN tx ELSE None
  BY DEF Reply
<1>2. m \in [type : Replies \cup AsynchronousMap \cup {"Error", "FatalError"},
             of : Ids \cup Payloads \cup {None}, tx : Statuses \cup {None}]
  BY <1>1 DEF ReplyTypes
<1>3. (m.type = "Ready") = (m.tx # None)
  BY <1>1, NoneAssumption DEF Statuses
<1> HIDE DEF m
<1>4. m \in Messages
  BY <1>1, <1>2, <1>3 DEF Messages
<1> QED BY <1>1, <1>4 DEF m

LEMMA OutsAre ==
  ASSUME NEW d, d.id \in Ids, NEW types \in Seq(ReplyTypes), NEW tx \in Statuses,
         NEW out, out = Outs(d, types, tx)
  PROVE  /\ out \in Seq(Messages) /\ Len(out) = Len(types) /\ Len(types) \in Nat
         /\ \A k \in 1 .. Len(types) :
              out[k].type = types[k] /\ out[k].of = d.id /\ (types[k] = "Ready" => out[k].tx = tx)
<1>1. DOMAIN types = 1 .. Len(types) /\ Len(types) \in Nat
  BY LenProperties
<1>2. \A k \in 1 .. Len(types) : out[k] = Reply(d, types[k], tx)
  BY <1>1 DEF Outs
<1>3. ASSUME NEW k \in 1 .. Len(types)
      PROVE  /\ out[k] \in Messages /\ out[k].type = types[k] /\ out[k].of = d.id
             /\ types[k] = "Ready" => out[k].tx = tx
  <2>1. types[k] \in ReplyTypes
    BY ElementOfSeq
  <2> QED BY <1>2, <2>1, ReplyIs
<1>4. out \in [1 .. Len(types) -> Messages]
  BY <1>1, <1>3 DEF Outs
<1>5. out \in Seq(Messages)
  BY <1>1, <1>4, SeqDef
<1>6. Len(out) = Len(types)
  <2>1. DOMAIN out = 1 .. Len(types) /\ DOMAIN out = 1 .. Len(out) /\ Len(out) \in Nat
    BY <1>4, <1>5, LenProperties
  <2> QED BY <1>1, <2>1
<1> QED BY <1>1, <1>3, <1>5, <1>6

LEMMA OutsAppended ==
  ASSUME NEW d, d.id \in Ids, NEW types \in Seq(ReplyTypes), NEW tx \in Statuses, NEW type \in ReplyTypes
  PROVE  /\ Outs(d, Append(types, type), tx) = Append(Outs(d, types, tx), Reply(d, type, tx))
         /\ Append(types, type) \in Seq(ReplyTypes)
<1> DEFINE t == Append(types, type)
           a == Outs(d, t, tx)
           b == Outs(d, types, tx)
           m == Reply(d, type, tx)
           w == Append(b, m)
<1>1. /\ t \in Seq(ReplyTypes) /\ Len(t) = Len(types) + 1 /\ Len(types) \in Nat
      /\ \A n \in 1 .. Len(types) : t[n] = types[n]
      /\ t[Len(types) + 1] = type
      /\ \A n \in 1 .. Len(t) : n \in 1 .. Len(types) \/ n = Len(types) + 1
  <2> HIDE DEF t
  <2> QED BY AppendedIs DEF t
<1>2. m \in Messages
  BY ReplyIs
<1> HIDE DEF t, m
<1>3. a \in Seq(Messages) /\ Len(a) = Len(t)
  BY <1>1, OutsAre
<1>4. b \in Seq(Messages) /\ Len(b) = Len(types)
  BY OutsAre
<1>5. \A n \in 1 .. Len(t) : a[n] = Reply(d, t[n], tx)
  <2>1. DOMAIN t = 1 .. Len(t)
    BY <1>1, LenProperties
  <2> QED BY <2>1 DEF Outs
<1>6. \A n \in 1 .. Len(types) : b[n] = Reply(d, types[n], tx)
  <2>1. DOMAIN types = 1 .. Len(types)
    BY LenProperties
  <2> QED BY <2>1 DEF Outs
<1> HIDE DEF a, b
<1>7. /\ w \in Seq(Messages) /\ Len(w) = Len(b) + 1
      /\ \A n \in 1 .. Len(b) : w[n] = b[n]
      /\ w[Len(b) + 1] = m
  BY <1>2, <1>4, AppendedIs
<1> HIDE DEF w
<1>8. ASSUME NEW n \in 1 .. Len(a) PROVE a[n] = w[n]
  <2>1. CASE n \in 1 .. Len(types)
    BY <1>1, <1>3, <1>4, <1>5, <1>6, <1>7, <2>1
  <2>2. CASE n = Len(types) + 1
    BY <1>1, <1>3, <1>4, <1>5, <1>7, <2>2 DEF m
  <2> QED BY <1>1, <1>3, <2>1, <2>2
<1>9. a = w
  BY <1>1, <1>3, <1>4, <1>7, <1>8, SeqEqual
<1> QED BY <1>1, <1>9 DEF a, b, t, m, w

-----------------------------------------------------------------------------
ResultTypes == Replies \cup AsynchronousMap
LastStep(type) == IF type \in {"Query", "Synchronize"} THEN 0 ELSE End
BeginsCopy(types) == types # <<>> /\ Last(types) = "CopyFromBegin"

LEMMA ByOneStep ==
  ASSUME NEW type, NEW t \in ResultTypes, NEW next, t \in DOMAIN hook[type][1],
         hook[type][1][t] = next, next \in {End} \cup 0 .. 3, t # "CopyFromBegin"
  PROVE  << t >> \in Seq(ResultTypes) /\ CanReturn(type, << t >>, next)
<1> DEFINE types == << t >>
           step == [k \in 0 .. 1 |-> IF k = 0 THEN 0 ELSE next]
<1>1. types \in Seq(ResultTypes) /\ Len(types) = 1 /\ DOMAIN types = {1} /\ types[1] = t
  OBVIOUS
<1>2. step \in [0 .. Len(types) -> {End} \cup 0 .. 3] /\ step[0] = 0 /\ step[1] = next
  BY <1>1
<1>3. 0 # End
  BY DEF End
<1> HIDE DEF types, step
<1>4. CanReturn(type, types, next)
  BY <1>1, <1>2, <1>3 DEF CanReturn
<1> QED BY <1>1, <1>4 DEF types

LEMMA ByTwoSteps ==
  ASSUME NEW type, NEW t \in ResultTypes, NEW u \in ResultTypes, NEW next,
         t \in DOMAIN hook[type][1], hook[type][1][t] = 1, u \in DOMAIN hook[type][2],
         hook[type][2][u] = next, next \in {End} \cup 0 .. 3,
         t # "CopyFromBegin", u # "CopyFromBegin"
  PROVE  << t, u >> \in Seq(ResultTypes) /\ CanReturn(type, << t, u >>, next)
<1> DEFINE types == << t, u >>
           step == [k \in 0 .. 2 |-> IF k = 0 THEN 0 ELSE IF k = 1 THEN 1 ELSE next]
<1>1. /\ types \in Seq(ResultTypes) /\ Len(types) = 2 /\ DOMAIN types = {1, 2}
      /\ types[1] = t /\ types[2] = u
  OBVIOUS
<1>2. /\ step \in [0 .. Len(types) -> {End} \cup 0 .. 3]
      /\ step[0] = 0 /\ step[1] = 1 /\ step[2] = next
  BY <1>1
<1>3. 0 # End /\ 1 # End
  BY DEF End
<1> HIDE DEF types, step
<1>4. CanReturn(type, types, next)
  <2>1. ASSUME NEW k \in DOMAIN types
        PROVE  /\ step[k - 1] # End
               /\ types[k] \in DOMAIN hook[type][step[k - 1] + 1]
               /\ step[k] = hook[type][step[k - 1] + 1][types[k]]
               /\ types[k] # "CopyFromBegin"
    <3>1. CASE k = 1
      BY <1>1, <1>2, <1>3, <3>1
    <3>2. CASE k = 2
      BY <1>1, <1>2, <1>3, <3>2
    <3> QED BY <1>1, <3>1, <3>2
  <2> QED BY <1>1, <1>2, <2>1 DEF CanReturn
<1> QED BY <1>1, <1>4 DEF types

LEMMA ResultsReturn ==
  ASSUME NEW d, d.type \in Answered, NEW types \in Results(d)
  PROVE  /\ types \in Seq(ResultTypes) /\ CanReturn(d.type, types, LastStep(d.type))
         /\ d.type = "Synchronize" => types = <<>>
         /\ d.type = "Execute" /\ BeginsCopy(types) => CopyBegins
<1>1. CASE d.type = "Query"
  BY <1>1, ProtocolAssumption DEF Results, ResultTypes, LastStep
<1>2. CASE d.type = "Execute"
  BY <1>2, ProtocolAssumption DEF Results, ResultTypes, LastStep, BeginsCopy, CopyBegins
<1>3. CASE d.type = "Synchronize"
  <2>1. types = <<>>
    BY <1>3 DEF Results
  <2> DEFINE step == [k \in 0 .. 0 |-> 0]
  <2>2. Len(<<>>) = 0 /\ DOMAIN <<>> = {} /\ <<>> \in Seq(ResultTypes)
    OBVIOUS
  <2>3. step \in [0 .. Len(<<>>) -> {End} \cup 0 .. 3] /\ step[0] = 0
    BY <2>2
  <2> HIDE DEF step
  <2>4. CanReturn("Synchronize", <<>>, 0)
    BY <2>2, <2>3 DEF CanReturn
  <2> QED BY <1>3, <2>1, <2>2, <2>4 DEF LastStep
<1>4. CASE d.type \in {"Parse", "Bind", "Close"}
  <2> DEFINE t == IF d.type = "Parse" THEN "ParseComplete"
                  ELSE IF d.type = "Bind" THEN "BindComplete" ELSE "CloseComplete"
  <2>1. types = << t >>
    BY <1>4 DEF Results
  <2>2. t \in ResultTypes /\ t \in DOMAIN hook[d.type][1] /\ hook[d.type][1][t] = End /\ t # "CopyFromBegin"
    BY <1>4, OtherHooks DEF ResultTypes, Replies
  <2> HIDE DEF t
  <2>3. << t >> \in Seq(ResultTypes) /\ CanReturn(d.type, << t >>, End)
    BY <2>2, ByOneStep
  <2> QED BY <1>4, <2>1, <2>3 DEF LastStep
<1>5. CASE d.type = "Describe"
  <2>1. PICK u \in {"TupleDescriptor", "NoData"} : types = << "AttributeTypes", u >>
    BY <1>5 DEF Results
  <2>2. /\ "AttributeTypes" \in ResultTypes /\ u \in ResultTypes
        /\ "AttributeTypes" \in DOMAIN hook[d.type][1] /\ hook[d.type][1]["AttributeTypes"] = 1
        /\ u \in DOMAIN hook[d.type][2] /\ hook[d.type][2][u] = End /\ u # "CopyFromBegin"
    BY <1>5, OtherHooks DEF ResultTypes, Replies
  <2>3. /\ << "AttributeTypes", u >> \in Seq(ResultTypes)
        /\ CanReturn(d.type, << "AttributeTypes", u >>, End)
    BY <2>2, ByTwoSteps
  <2> QED BY <1>5, <2>1, <2>3 DEF LastStep
<1> QED BY <1>1, <1>2, <1>3, <1>4, <1>5 DEF Answered, Extended

StepPlace(n, step) == IF step = End THEN At(n + 1, 0) ELSE At(n, step)

\* A result of the n-th command goes from its first step to its last one.
LEMMA ResultTrack ==
  ASSUME NEW c, NEW number, CommandsOf(c, number), NEW n \in 1 .. Len(c),
         NEW types \in Seq(ResultTypes), NEW last, CanReturn(c[n].type, types, last),
         NEW tx \in Statuses, NEW out, out = Outs(c[n], types, tx)
  PROVE  \E at :
           /\ Track(c, At(n, 0), out, at)
           /\ \A k \in 0 .. Len(types) - 1 : at[k].offset = n
           /\ \A k \in 1 .. Len(types) : types[k] = "CopyFromBegin" => k = Len(types)
           /\ IF BeginsCopy(types) THEN CopyPlace(c, at[Len(types)]) /\ at[Len(types)].offset = n
              ELSE at[Len(types)] = StepPlace(n, last)
<1>1. /\ c[n] \in [type : Answered, id : Ids] /\ c[n].type \in Answered /\ c[n].id \in Ids
      /\ Len(c) \in Nat
  <2>1. c \in Seq([type : Answered, id : Ids]) /\ Len(c) \in Nat
    BY DEF CommandsOf
  <2>2. c[n] \in [type : Answered, id : Ids]
    BY <2>1, ElementOfSeq
  <2> QED BY <2>1, <2>2
<1>2. types \in Seq(ReplyTypes) /\ Len(types) \in Nat /\ DOMAIN types = 1 .. Len(types)
      /\ \A k \in 1 .. Len(types) : types[k] \in ResultTypes
  <2>1. ResultTypes \subseteq ReplyTypes
    BY DEF ResultTypes, ReplyTypes
  <2>2. Len(types) \in Nat /\ DOMAIN types = 1 .. Len(types) /\ types \in [1 .. Len(types) -> ResultTypes]
    BY LenProperties
  <2>3. types \in Seq(ReplyTypes)
    BY <2>1, <2>2, SeqDef
  <2> QED BY <2>2, <2>3
<1>3. /\ out \in Seq(Messages) /\ Len(out) = Len(types)
      /\ \A k \in 1 .. Len(types) : out[k].type = types[k] /\ out[k].of = c[n].id
  BY <1>1, <1>2, OutsAre
<1>4. PICK step \in [0 .. Len(types) -> {End} \cup 0 .. 3] :
        /\ step[0] = 0
        /\ \A k \in 1 .. Len(types) :
             /\ step[k - 1] # End
             /\ \/ types[k] \in AsynchronousMap /\ step[k] = step[k - 1]
                \/ /\ types[k] \in DOMAIN hook[c[n].type][step[k - 1] + 1]
                   /\ step[k] = hook[c[n].type][step[k - 1] + 1][types[k]]
             /\ types[k] = "CopyFromBegin" => k = Len(types)
        /\ step[Len(types)] = last \/ BeginsCopy(types)
  BY <1>2 DEF CanReturn, BeginsCopy
<1> DEFINE S == Steps(c[n].type)
           T == {k \in Nat : k <= Len(types) => step[k] \in {End} \cup S}
<1>5. 0 \in T
  BY <1>1, <1>4, FirstStep
<1>6. ASSUME NEW k \in Nat, k \in T PROVE k + 1 \in T
  <2>1. SUFFICES ASSUME k + 1 <= Len(types) PROVE step[k + 1] \in {End} \cup S
    OBVIOUS
  <2>2. k + 1 \in 1 .. Len(types) /\ (k + 1) - 1 = k /\ k <= Len(types)
    BY <1>2, <2>1
  <2>3. step[k] \in S
    BY <1>4, <1>6, <2>2
  <2>4. CASE step[k + 1] = step[k]
    BY <2>3, <2>4
  <2>5. CASE types[k + 1] \in DOMAIN hook[c[n].type][step[k] + 1]
               /\ step[k + 1] = hook[c[n].type][step[k] + 1][types[k + 1]]
    <3> DEFINE t == c[n].type
               m == types[k + 1]
               j == step[k]
    <3>1. t \in Answered /\ j \in Steps(t) /\ m \in DOMAIN hook[t][j + 1]
      BY <1>1, <2>3, <2>5
    <3> HIDE DEF t, m, j
    <3>2. hook[t][j + 1][m] \in {End} \cup Steps(t)
      BY ONLY <3>1, HookGoes
    <3> QED BY <2>5, <3>2 DEF t, m, j
  <2> QED BY <1>4, <2>2, <2>4, <2>5
<1>7. \A k \in 0 .. Len(types) : step[k] \in {End} \cup S
  <2>1. Nat \subseteq T
    <3> HIDE DEF T
    <3> QED BY <1>5, <1>6, NaturalInduction
  <2> QED BY <1>2, <2>1
<1> DEFINE at == [k \in 0 .. Len(types) |-> StepPlace(n, step[k])]
<1>8. ASSUME NEW k \in 0 .. Len(types) PROVE at[k] \in Places(c) /\ (step[k] # End => at[k] = At(n, step[k]))
  <2>1. CASE step[k] = End
    <3>1. n + 1 \in 1 .. Len(c) + 1
      BY <1>1
    <3> QED BY <2>1, <3>1, EndPlaces DEF StepPlace
  <2>2. CASE step[k] # End
    <3>1. step[k] \in S /\ S \subseteq 0 .. 3
      BY <1>1, <1>7, <2>2, FirstStep
    <3> QED BY <1>1, <2>2, <3>1 DEF StepPlace, Places, At
  <2> QED BY <2>1, <2>2
<1>9. at[0] = At(n, 0)
  <2>1. 0 \in 0 .. Len(types) /\ 0 # End
    BY <1>2 DEF End
  <2> QED BY <1>4, <1>8, <2>1
<1>10. \A k \in 0 .. Len(types) : at[k] = StepPlace(n, step[k])
  OBVIOUS
<1>11. at \in [0 .. Len(out) -> Places(c)]
  BY <1>3, <1>8
<1> HIDE DEF at, S, T
<1>12. ASSUME NEW k \in 1 .. Len(types)
       PROVE  /\ Moves(c, at[k - 1], out[k], at[k]) /\ at[k - 1].offset = n
              /\ types[k] = "CopyFromBegin" => CopyPlace(c, at[k]) /\ at[k].offset = n
  <2>1. k - 1 \in 0 .. Len(types) /\ k \in 0 .. Len(types)
    BY <1>2
  <2>2. step[k - 1] # End /\ step[k - 1] \in S
    BY <1>4, <1>7, <2>1
  <2>3. at[k - 1] = At(n, step[k - 1])
    BY <1>8, <2>1, <2>2
  <2>4. at[k - 1].offset = n /\ at[k - 1].step = step[k - 1]
    BY <2>3 DEF At
  <2>5. CASE types[k] \in AsynchronousMap /\ step[k] = step[k - 1]
    <3>1. Aside(out[k]) /\ at[k] = at[k - 1]
      BY <1>3, <1>10, <2>1, <2>5 DEF Aside, IsAsync
    <3> QED BY <2>4, <2>5, <3>1 DEF Moves, AsynchronousMap
  <2>6. CASE types[k] \in DOMAIN hook[c[n].type][step[k - 1] + 1]
               /\ step[k] = hook[c[n].type][step[k - 1] + 1][types[k]]
    <3>1. Answers1(c, at[k - 1], out[k])
      BY <1>1, <1>3, <2>4, <2>6 DEF Answers1
    <3>2. at[k] = After(c, at[k - 1], out[k].type)
      <4>1. out[k].type = types[k] /\ at[k] = StepPlace(n, step[k])
        BY <1>3, <1>10, <2>1
      <4>2. After(c, at[k - 1], types[k]) = StepPlace(n, step[k])
        BY ONLY <2>4, <2>6 DEF After, StepPlace
      <4> QED BY ONLY <4>1, <4>2
    <3>3. at[k - 1] \in Places(c)
      BY <1>8, <2>1
    <3>4. types[k] = "CopyFromBegin" => CopyPlace(c, at[k])
      BY <1>3, <3>1, <3>2, <3>3, AnswerGoes
    <3>5. ASSUME types[k] = "CopyFromBegin" PROVE at[k].offset = n
      <4>1. step[k] \in {1, 3}
        BY <1>1, <2>2, <2>6, <3>5, HookGoes DEF S
      <4>2. step[k] # End
        BY <4>1 DEF End
      <4>3. at[k] = StepPlace(n, step[k])
        BY <1>10, <2>1
      <4> QED BY ONLY <4>2, <4>3 DEF StepPlace, At
    <3> QED BY <2>4, <3>1, <3>2, <3>4, <3>5 DEF Moves
  <2> QED BY <1>4, <2>5, <2>6
<1>13. Track(c, At(n, 0), out, at)
  BY <1>3, <1>9, <1>11, <1>12 DEF Track
<1>14. ASSUME NEW k \in 0 .. Len(types) - 1 PROVE at[k].offset = n
  <2>1. k + 1 \in 1 .. Len(types) /\ (k + 1) - 1 = k
    BY <1>2
  <2>2. at[(k + 1) - 1].offset = n
    BY <1>12, <2>1
  <2> QED BY <2>1, <2>2
<1>15. IF BeginsCopy(types) THEN CopyPlace(c, at[Len(types)]) /\ at[Len(types)].offset = n
       ELSE at[Len(types)] = StepPlace(n, last)
  <2>1. CASE BeginsCopy(types)
    <3>1. Len(types) \in 1 .. Len(types) /\ types[Len(types)] = "CopyFromBegin"
      BY <1>2, <2>1, EmptySeq DEF BeginsCopy, Last
    <3> QED BY <1>12, <2>1, <3>1
  <2>2. CASE ~ BeginsCopy(types)
    <3>1. Len(types) \in 0 .. Len(types)
      BY <1>2
    <3>2. step[Len(types)] = last
      BY <1>4, <2>2
    <3> QED BY <1>10, <2>2, <3>1, <3>2
  <2> QED BY <2>1, <2>2
<1> QED BY <1>4, <1>13, <1>14, <1>15

-----------------------------------------------------------------------------
(* How the answer to a command ends.                                       *)

LEMMA CommandIs ==
  ASSUME NEW c, NEW number, CommandsOf(c, number), NEW n \in 1 .. Len(c)
  PROVE  /\ c[n] \in [type : Answered, id : Ids] /\ c[n].type \in Answered /\ c[n].id \in Ids
         /\ Len(c) \in Nat /\ Len(c) >= 1 /\ c[n].id = <<number, n>> /\ c[n].id[1] = number
         /\ c[n].type \in {"Query", "Synchronize"} => n = Len(c)
         /\ c[n].type = "Query" => Len(c) = 1
         /\ c[n].type \notin {"Query", "Synchronize"} => n < Len(c) /\ c[Len(c)].type = "Synchronize"
         /\ c[n].type \notin {"Function", "Flush", "Disconnect"} \cup CopyWire
<1>1. c \in Seq([type : Answered, id : Ids]) /\ Len(c) \in Nat /\ Len(c) >= 1
  BY DEF CommandsOf
<1>0. Len(c) \in Nat /\ Len(c) >= 1
  BY <1>1
<1>2. c[n] \in [type : Answered, id : Ids]
  BY <1>1, ElementOfSeq
<1>3. c[n].id = <<number, n>>
  BY DEF CommandsOf
<1>4. c[n].id[1] = number
  BY <1>3
<1>5. CASE n = Len(c)
  BY <1>1, <1>2, <1>3, <1>4, <1>5 DEF CommandsOf, CopyWire
<1>6. CASE n # Len(c)
  <2>0. n \in Int /\ 1 <= n /\ n <= Len(c)
    BY <1>0
  <2>1. n < Len(c)
    BY <1>0, <1>6, <2>0
  <2>2. n \in 1 .. Len(c) - 1
    BY <1>0, <2>0, <2>1
  <2>3. ~ (Len(c) <= 1)
    BY <1>0, <2>0, <2>1
  <2>4. Len(c) # 1
    <3> SUFFICES ASSUME Len(c) = 1 PROVE FALSE
      OBVIOUS
    <3>1. n \in 1 .. 1 /\ n < 1
      BY <2>1
    <3> QED BY <3>1
  <2>5. c[n].type \in Extended /\ c[Len(c)].type = "Synchronize"
    BY <2>2, <2>4 DEF CommandsOf
  <2> QED BY <1>1, <1>2, <1>3, <1>4, <2>1, <2>5 DEF Extended, CopyWire
<1> QED BY <1>5, <1>6

\* One more reply.
LEMMA OutsLead ==
  ASSUME NEW c, NEW number, CommandsOf(c, number), NEW n \in 1 .. Len(c),
         NEW types \in Seq(ReplyTypes), NEW tx \in Statuses, NEW p, NEW q \in Places(c),
         Leads(c, p, Outs(c[n], types, tx), q), NEW type \in ReplyTypes, NEW r \in Places(c),
         Moves(c, q, Reply(c[n], type, tx), r)
  PROVE  Leads(c, p, Outs(c[n], Append(types, type), tx), r)
<1>1. c[n].id \in Ids
  BY CommandIs
<1>2. Outs(c[n], types, tx) \in Seq(Messages)
  BY <1>1, OutsAre
<1>3. Reply(c[n], type, tx) \in Messages
  BY <1>1, ReplyIs
<1>4. Leads(c, p, Append(Outs(c[n], types, tx), Reply(c[n], type, tx)), r)
  BY <1>2, <1>3, LeadsAppended
<1>5. Outs(c[n], Append(types, type), tx) = Append(Outs(c[n], types, tx), Reply(c[n], type, tx))
  BY <1>1, OutsAppended
<1> QED BY <1>4, <1>5

\* It is over: Ready follows where no Synchronize does.
LEMMA EndedLeads ==
  ASSUME NEW c, NEW number, CommandsOf(c, number), NEW n \in 1 .. Len(c),
         NEW types \in Seq(ReplyTypes), NEW tx \in Statuses, NEW p, NEW q \in Places(c),
         Leads(c, p, Outs(c[n], types, tx), q),
         IF c[n].type \in {"Query", "Synchronize"} THEN q = At(n, 0) ELSE q = At(n + 1, 0)
  PROVE  Leads(c, p, Outs(c[n], Ended(c[n], types), tx), At(n + 1, 0))
<1>1. CASE c[n].type \in {"Query", "Synchronize"}
  <2>1. "Ready" \in ReplyTypes
    BY DEF ReplyTypes, Replies
  <2>2. Reply(c[n], "Ready", tx).type = "Ready" /\ Reply(c[n], "Ready", tx).of = c[n].id
    BY <2>1, ReplyIs, CommandIs
  <2>3. q.offset = n /\ q.step = 0 /\ n <= Len(c)
    BY <1>1 DEF At
  <2>4. /\ "Ready" \in DOMAIN hook[c[n].type][1] /\ hook[c[n].type][1]["Ready"] = End
    BY <1>1, QueryHook, OtherHooks
  <2>5. Moves(c, q, Reply(c[n], "Ready", tx), At(n + 1, 0))
    BY <2>2, <2>3, <2>4 DEF Moves, Answers1, After
  <2>6. At(n + 1, 0) \in Places(c)
    <3>1. n + 1 \in 1 .. Len(c) + 1
      BY CommandIs
    <3> QED BY <3>1, EndPlaces
  <2>7. Ended(c[n], types) = Append(types, "Ready")
    BY <1>1 DEF Ended, ImplySync
  <2>8. Leads(c, p, Outs(c[n], Append(types, "Ready"), tx), At(n + 1, 0))
    BY <2>1, <2>5, <2>6, OutsLead
  <2> QED BY <2>7, <2>8
<1>2. CASE c[n].type \notin {"Query", "Synchronize"}
  <2>1. Ended(c[n], types) = types
    BY <1>2, CommandIs DEF Ended, ImplySync
  <2> QED BY <1>2, <2>1
<1> QED BY <1>1, <1>2

\* It fails there: the next reply is the one to the Synchronize.
LEMMA FailsLead ==
  ASSUME NEW c, NEW number, CommandsOf(c, number), NEW n \in 1 .. Len(c),
         NEW types \in Seq(ReplyTypes), NEW tx \in Statuses, NEW p, NEW q \in Places(c), q.offset = n,
         Leads(c, p, Outs(c[n], types, tx), q), c[n].type # "Synchronize"
  PROVE  Leads(c, p, Outs(c[n], Ended(c[n], Append(types, "Error")), tx),
               IF c[n].type = "Query" THEN At(n + 1, 0) ELSE At(Len(c), 0))
<1>1. "Error" \in ReplyTypes
  BY DEF ReplyTypes
<1>2. /\ Reply(c[n], "Error", tx).type = "Error" /\ Reply(c[n], "Error", tx).of = c[n].id
  BY <1>1, ReplyIs, CommandIs
<1>3. Moves(c, q, Reply(c[n], "Error", tx), At(Len(c), 0))
  BY <1>2, CommandIs DEF Moves
<1>4. At(Len(c), 0) \in Places(c)
  BY EndPlaces
<1>5. Leads(c, p, Outs(c[n], Append(types, "Error"), tx), At(Len(c), 0))
  BY <1>1, <1>3, <1>4, OutsLead
<1>6. CASE c[n].type = "Query"
  <2>1. At(Len(c), 0) = At(n, 0)
    BY <1>6, CommandIs
  <2>2. Append(types, "Error") \in Seq(ReplyTypes)
    BY <1>1
  <2> DEFINE t == Append(types, "Error")
  <2> HIDE DEF t
  <2>3. Leads(c, p, Outs(c[n], Ended(c[n], t), tx), At(n + 1, 0))
    BY <1>4, <1>5, <1>6, <2>1, <2>2, EndedLeads DEF t
  <2> QED BY <1>6, <2>3 DEF t
<1>7. CASE c[n].type # "Query"
  BY <1>5, <1>7, CommandIs DEF Ended, ImplySync
<1> QED BY <1>6, <1>7

\* A part of a result.
LEMMA OutsOfPart ==
  ASSUME NEW d, d.id \in Ids, NEW types \in Seq(ReplyTypes), NEW tx \in Statuses, NEW k \in 0 .. Len(types)
  PROVE  /\ SubSeq(types, 1, k) \in Seq(ReplyTypes) /\ Len(SubSeq(types, 1, k)) = k
         /\ Outs(d, SubSeq(types, 1, k), tx) = SubSeq(Outs(d, types, tx), 1, k)
<1> DEFINE part == SubSeq(types, 1, k)
<1>1. Len(types) \in Nat /\ 1 \in 1 .. Len(types) + 1
  BY LenProperties
<1>2. part \in Seq(ReplyTypes) /\ Len(part) = k /\ \A j \in 1 .. k : part[j] = types[j]
  BY <1>1, SubSeqProperties
<1> DEFINE out == Outs(d, types, tx)
           a == Outs(d, part, tx)
           b == SubSeq(out, 1, k)
<1> HIDE DEF part
<1>3. out \in Seq(Messages) /\ Len(out) = Len(types)
  BY OutsAre
<1>4. a \in Seq(Messages) /\ Len(a) = k
  <2>1. d.id \in Ids /\ tx \in Statuses
    OBVIOUS
  <2>2. a \in Seq(Messages) /\ Len(a) = Len(part)
    BY ONLY <1>2, <2>1, OutsAre
  <2> QED BY <1>2, <2>2
<1>5. \A j \in 1 .. k : a[j] = Reply(d, part[j], tx)
  <2>1. DOMAIN part = 1 .. k
    BY <1>2, LenProperties
  <2> QED BY <2>1 DEF Outs
<1>6. \A j \in 1 .. Len(types) : out[j] = Reply(d, types[j], tx)
  <2>1. DOMAIN types = 1 .. Len(types)
    BY LenProperties
  <2> QED BY <2>1 DEF Outs
<1> HIDE DEF out, a
<1>7. b \in Seq(Messages) /\ Len(b) = k /\ \A j \in 1 .. k : b[j] = out[j]
  BY <1>1, <1>3, SubSeqProperties
<1> HIDE DEF b
<1>8. \A j \in 1 .. Len(a) : a[j] = b[j]
  BY <1>1, <1>2, <1>4, <1>5, <1>6, <1>7
<1>9. a = b
  BY <1>4, <1>7, <1>8, SeqEqual
<1> QED BY <1>2, <1>9 DEF a, b, out, part

-----------------------------------------------------------------------------
(* What the server says, and what a live transaction makes of it.          *)

Reported(f, out) == f \cup {m.of[1] : m \in {r \in ToSet(out) : r.type = "Error"}}

\* The server is about to answer command e.offset, or to end a COPY.
Heeds(x, i, s, f, e) ==
  /\ Going(x) /\ Copied(x, i, s) /\ Late(x, i, s) /\ s.mode # "gone" /\ ~ Begun(i)
  /\ e \in Places(x.commands) /\ e.offset <= Len(x.commands)
  /\ Leads(x.commands, Place(x), i, e) /\ Known(x, i, s, f, e)

\* It answers with out, which leads on to q, and is in the status tx.
Says(x, e, out, q, tx) ==
  /\ out \in Seq(Messages) /\ q \in Places(x.commands) /\ Leads(x.commands, e, out, q)
  /\ \A k \in 1 .. Len(out) : out[k].of[1] = x.number
  /\ \A k \in 1 .. Len(out) : out[k].type = "Ready" => out[k].tx = tx

LEMMA JoinIs ==
  ASSUME NEW S, NEW i \in Seq(S), NEW out \in Seq(S), NEW j, j = i \o out
  PROVE  /\ j \in Seq(S) /\ Len(i) \in Nat /\ Len(out) \in Nat /\ Len(j) = Len(i) + Len(out)
         /\ \A k \in 1 .. Len(i) : k \in 1 .. Len(j) /\ j[k] = i[k]
         /\ \A k \in 1 .. Len(out) : k + Len(i) \in 1 .. Len(j) /\ j[k + Len(i)] = out[k]
         /\ \A k \in 1 .. Len(j) : k \in 1 .. Len(i) \/ (k > Len(i) /\ k - Len(i) \in 1 .. Len(out) /\ j[k] = out[k - Len(i)])
<1>1. j \in Seq(S) /\ Len(i) \in Nat /\ Len(out) \in Nat /\ Len(j) = Len(i) + Len(out)
  BY ConcatProperties, LenProperties
<1>2. \A k \in 1 .. Len(i) + Len(out) : j[k] = IF k <= Len(i) THEN i[k] ELSE out[k - Len(i)]
  BY ConcatProperties
<1>3. ASSUME NEW k \in 1 .. Len(out) PROVE k + Len(i) \in 1 .. Len(j) /\ j[k + Len(i)] = out[k]
  <2>1. k + Len(i) \in 1 .. Len(i) + Len(out) /\ ~ (k + Len(i) <= Len(i)) /\ (k + Len(i)) - Len(i) = k
    BY <1>1
  <2>2. j[k + Len(i)] = out[(k + Len(i)) - Len(i)]
    BY <1>2, <2>1
  <2> QED BY <1>1, <2>1, <2>2
<1>4. ASSUME NEW k \in 1 .. Len(i) PROVE k \in 1 .. Len(j) /\ j[k] = i[k]
  <2>1. k \in 1 .. Len(i) + Len(out) /\ k <= Len(i)
    BY <1>1
  <2> QED BY <1>1, <1>2, <2>1
<1>5. ASSUME NEW k \in 1 .. Len(j)
      PROVE  k \in 1 .. Len(i) \/ (k > Len(i) /\ k - Len(i) \in 1 .. Len(out) /\ j[k] = out[k - Len(i)])
  <2>1. CASE k <= Len(i)
    BY <1>1, <2>1
  <2>2. CASE ~ (k <= Len(i))
    <3>1. k \in 1 .. Len(i) + Len(out) /\ k > Len(i) /\ k - Len(i) \in 1 .. Len(out)
      BY <1>1, <2>2
    <3>2. j[k] = out[k - Len(i)]
      BY <1>2, <2>2, <3>1
    <3> QED BY <3>1, <3>2
  <2> QED BY <2>1, <2>2
<1> QED BY <1>1, <1>3, <1>4, <1>5

LEMMA ReportedIs ==
  ASSUME NEW f, NEW out \in Seq(Messages), NEW number, \A k \in 1 .. Len(out) : out[k].of[1] = number
  PROVE  /\ number \in Reported(f, out) => number \in f \/ Failing(out)
         /\ \A n \in Reported(f, out) : n \in f \/ n = number
         /\ f \subseteq Reported(f, out)
<1>1. DOMAIN out = 1 .. Len(out)
  BY LenProperties
<1>2. ASSUME NEW n \in Reported(f, out), n \notin f PROVE n = number /\ Failing(out)
  <2>1. PICK m \in ToSet(out) : m.type = "Error" /\ n = m.of[1]
    BY <1>2 DEF Reported
  <2>2. PICK k \in DOMAIN out : m = out[k]
    BY DEF ToSet
  <2> QED BY <1>1, <2>1, <2>2 DEF Failing
<1> QED BY <1>2 DEF Reported

LEMMA CopiedOn ==
  ASSUME NEW x, NEW i \in Seq(Messages), ~ Begun(i), NEW out \in Seq(Messages),
         NEW j, j = i \o out, NEW t,
         \A k \in 1 .. Len(out) : out[k].type = "CopyFromBegin" =>
           k = Len(out) /\ t.mode \in CopyIn /\ CopiesLast(x.commands)
  PROVE  Copied(x, j, t) /\ (Begun(j) => Begun(out)) /\ (Begun(out) => Begun(j))
<1>1. /\ Len(i) \in Nat /\ Len(out) \in Nat /\ Len(j) = Len(i) + Len(out)
      /\ \A k \in 1 .. Len(i) : k \in 1 .. Len(j) /\ j[k] = i[k]
      /\ \A k \in 1 .. Len(out) : k + Len(i) \in 1 .. Len(j) /\ j[k + Len(i)] = out[k]
      /\ \A k \in 1 .. Len(j) : k \in 1 .. Len(i) \/ (k > Len(i) /\ k - Len(i) \in 1 .. Len(out) /\ j[k] = out[k - Len(i)])
  BY JoinIs
<1>2. ASSUME NEW k \in 1 .. Len(j), j[k].type = "CopyFromBegin"
      PROVE  k = Len(j) /\ t.mode \in CopyIn /\ CopiesLast(x.commands) /\ Begun(out)
  <2>1. k \notin 1 .. Len(i)
    BY <1>1, <1>2 DEF Begun
  <2>2. k > Len(i) /\ k - Len(i) \in 1 .. Len(out) /\ out[k - Len(i)].type = "CopyFromBegin"
    BY <1>1, <1>2, <2>1
  <2>3. k - Len(i) = Len(out) /\ t.mode \in CopyIn /\ CopiesLast(x.commands)
    BY <2>2
  <2> QED BY <1>1, <2>2, <2>3 DEF Begun
<1>3. Begun(out) => Begun(j)
  <2> SUFFICES ASSUME NEW k \in 1 .. Len(out), out[k].type = "CopyFromBegin" PROVE Begun(j)
    BY DEF Begun
  <2> QED BY <1>1 DEF Begun
<1>4. \A k \in 1 .. Len(j) : j[k].type = "CopyFromBegin" => \A l \in k + 1 .. Len(j) : Aside(j[l])
  <2> SUFFICES ASSUME NEW k \in 1 .. Len(j), j[k].type = "CopyFromBegin", NEW l \in k + 1 .. Len(j)
               PROVE  FALSE
    OBVIOUS
  <2>1. k = Len(j)
    BY <1>2
  <2> QED BY <1>1, <2>1
<1> QED BY <1>2, <1>3, <1>4 DEF Copied, Begun

ReadyWith(j, tx) == \A k \in 1 .. Len(j) : j[k].type = "Ready" => j[k].tx = tx

LEMMA SaysWhen ==
  ASSUME NEW x, NEW i \in Seq(Messages), NEW s, NEW f, NEW e, Heeds(x, i, s, f, e),
         NEW out, NEW q, NEW tx, Says(x, e, out, q, tx), NEW j, j = i \o out
  PROVE  ReadyWith(j, tx) /\ x.state # "Complete"
<1>1. Place(x) \in Places(x.commands) /\ CommandsOf(x.commands, x.number)
  BY DEF Heeds, Going, WellFormed
<1>2. Place(x).offset <= Len(x.commands) /\ \A k \in 1 .. Len(i) : i[k].type # "Ready"
  BY <1>1, NoReadyBefore DEF Heeds
<1>3. x.state # "Complete"
  BY <1>1, <1>2, PlaceType DEF Heeds, Going, Place, At
<1>4. /\ \A k \in 1 .. Len(i) : k \in 1 .. Len(j) /\ j[k] = i[k]
      /\ \A k \in 1 .. Len(j) : k \in 1 .. Len(i) \/ (k > Len(i) /\ k - Len(i) \in 1 .. Len(out) /\ j[k] = out[k - Len(i)])
  BY JoinIs DEF Says
<1>5. ASSUME NEW k \in 1 .. Len(j), j[k].type = "Ready" PROVE j[k].tx = tx
  <2>1. k \notin 1 .. Len(i)
    BY <1>2, <1>4, <1>5
  <2>2. k - Len(i) \in 1 .. Len(out) /\ j[k] = out[k - Len(i)]
    BY <1>4, <2>1
  <2> QED BY <1>5, <2>2 DEF Says
<1> QED BY <1>3, <1>5 DEF ReadyWith

LEMMA LiveSpoken ==
  ASSUME NEW x, NEW i \in Seq(Messages), NEW s, NEW f, NEW e, Heeds(x, i, s, f, e),
         NEW out, NEW q, NEW tx, Says(x, e, out, q, tx), NEW j, j = i \o out, NEW o, NEW t,
         t.mode # "gone", Copied(x, j, t), Working(x, j, o, t, q)
  PROVE  Live(x, j, o, t, Reported(f, out))
<1>1. /\ out \in Seq(Messages) /\ q \in Places(x.commands)
      /\ \A k \in 1 .. Len(out) : out[k].of[1] = x.number
  BY DEF Says
<1>2. Leads(x.commands, Place(x), j, q)
  BY LeadsOn DEF Heeds, Says
<1>3. x.number \in Reported(f, out) => x.number \in f \/ Failing(out)
  BY <1>1, ReportedIs
<1>4. Failing(i) \/ Failing(out) => Failing(j)
  <2>1. /\ \A k \in 1 .. Len(i) : k \in 1 .. Len(j) /\ j[k] = i[k]
        /\ \A k \in 1 .. Len(out) : k + Len(i) \in 1 .. Len(j) /\ j[k + Len(i)] = out[k]
    BY <1>1, JoinIs
  <2>2. ASSUME Failing(i) PROVE Failing(j)
    BY <2>1, <2>2 DEF Failing
  <2>3. ASSUME Failing(out) PROVE Failing(j)
    BY <2>1, <2>3 DEF Failing
  <2> QED BY <2>2, <2>3
<1>5. Known(x, j, t, Reported(f, out), q)
  BY <1>3, <1>4 DEF Known, Heeds
<1>6. x.fatal # Fatal
  BY DEF Heeds, Late
<1> QED BY <1>1, <1>2, <1>5, <1>6 DEF Live, Heeds, Late, StandsAt

-----------------------------------------------------------------------------

\* The server has answered the command n or ended its COPY, and is ready.
LEMMA LiveIsAnswered ==
  ASSUME NEW x, NEW i \in Seq(Messages), NEW s, NEW f, NEW e, Heeds(x, i, s, f, e),
         NEW out, NEW tx, NEW n, n = e.offset, Says(x, e, out, At(n + 1, 0), tx),
         \A k \in 1 .. Len(out) : out[k].type # "CopyFromBegin",
         NEW j, j = i \o out, NEW t, t.mode = "ready", t.tx = tx,
         NEW u \in Seq(Sendables), OnlyCopy(u), NEW o, o = u \o From(x.commands, n + 1),
         x.state = "sent_from_stdin" => n = Len(x.commands) /\ x.offset = n
  PROVE  Live(x, j, o, t, Reported(f, out))
<1>1. t.mode # "gone" /\ out \in Seq(Messages)
  BY DEF Says
<1>2. Copied(x, j, t)
  <2>1. ~ Begun(i) /\ i \in Seq(Messages) /\ j = i \o out
    BY DEF Heeds
  <2>2. \A k \in 1 .. Len(out) : out[k].type = "CopyFromBegin" =>
          k = Len(out) /\ t.mode \in CopyIn /\ CopiesLast(x.commands)
    OBVIOUS
  <2> QED BY ONLY <1>1, <2>1, <2>2, CopiedOn
<1>3. ReadyWith(j, tx) /\ x.state # "Complete"
  <2> DEFINE q == At(n + 1, 0)
  <2>1. i \in Seq(Messages)
    OBVIOUS
  <2>2. Heeds(x, i, s, f, e)
    OBVIOUS
  <2>3. Says(x, e, out, q, tx)
    OBVIOUS
  <2> HIDE DEF q
  <2>4. j = i \o out
    OBVIOUS
  <2> QED BY ONLY <2>1, <2>2, <2>3, <2>4, SaysWhen
<1>4. At(n + 1, 0).offset = n + 1 /\ At(n + 1, 0).step = 0
  BY DEF At
<1>5. x.state = "sent_from_stdin" => n + 1 > Len(x.commands) /\ x.offset = Len(x.commands)
  <2> SUFFICES ASSUME x.state = "sent_from_stdin" PROVE n + 1 > Len(x.commands) /\ x.offset = Len(x.commands)
    OBVIOUS
  <2>1. Len(x.commands) \in Nat
    BY DEF Heeds, Going, WellFormed, CommandsOf
  <2> QED BY <2>1
<1>6. Answering(x, j, o, t, At(n + 1, 0))
  BY <1>3, <1>4, <1>5 DEF Answering, ReadyWith
<1> QED BY <1>1, <1>2, <1>6, LiveSpoken DEF Working

\* It has sent an error and skips.
LEMMA LiveIsRefused ==
  ASSUME NEW x, NEW i \in Seq(Messages), NEW s, NEW f, NEW e, Heeds(x, i, s, f, e),
         NEW out, NEW tx, Says(x, e, out, At(Len(x.commands), 0), tx),
         \A k \in 1 .. Len(out) : out[k].type # "CopyFromBegin",
         x.commands[Len(x.commands)].type = "Synchronize",
         NEW j, j = i \o out, NEW t, t.mode = "skip",
         NEW u \in Seq(Sendables), \A k \in 1 .. Len(u) : u[k].type \notin {"Synchronize", "Disconnect"},
         NEW o, o = u \o Unsent(x, << x.commands[Len(x.commands)] >>)
  PROVE  Live(x, j, o, t, Reported(f, out))
<1>1. t.mode # "gone" /\ out \in Seq(Messages)
  BY DEF Says
<1>2. Copied(x, j, t)
  <2>1. ~ Begun(i) /\ i \in Seq(Messages) /\ j = i \o out
    BY DEF Heeds
  <2>2. \A k \in 1 .. Len(out) : out[k].type = "CopyFromBegin" =>
          k = Len(out) /\ t.mode \in CopyIn /\ CopiesLast(x.commands)
    OBVIOUS
  <2> QED BY ONLY <1>1, <2>1, <2>2, CopiedOn
<1>3. Skipping(x, o, t, At(Len(x.commands), 0))
  BY DEF Skipping
<1> QED BY <1>1, <1>2, <1>3, LiveSpoken DEF Working

\* It has begun a COPY FROM STDIN.
LEMMA LiveIsAskedForData ==
  ASSUME NEW x, NEW i \in Seq(Messages), NEW s, NEW f, NEW e, Heeds(x, i, s, f, e),
         x.state # "sent_from_stdin",
         NEW out, NEW q, NEW tx, Says(x, e, out, q, tx),
         \A k \in 1 .. Len(out) : out[k].type = "CopyFromBegin" => k = Len(out), Begun(out),
         CopyPlace(x.commands, q), CopiesLast(x.commands),
         NEW j, j = i \o out, NEW t, t.mode = "copyin", t.by = x.commands[q.offset],
         NEW o, o = From(x.commands, q.offset + 1)
  PROVE  Live(x, j, o, t, Reported(f, out))
<1>1. t.mode # "gone" /\ t.mode \in CopyIn /\ out \in Seq(Messages)
  BY DEF Says, CopyIn
<1>2. Copied(x, j, t) /\ Begun(j)
  BY <1>1, CopiedOn DEF Heeds
<1>3. o = Owed(t, x.commands, q)
  BY DEF Owed
<1>4. Loading(x, j, o, t, q)
  BY <1>1, <1>2, <1>3 DEF Loading
<1> QED BY <1>1, <1>2, <1>4, LiveSpoken DEF Working

(* The answers to a command, as replies.                                   *)
LEMMA AnswersOf ==
  ASSUME NEW d, NEW a \in ReadyAnswers(d)
  PROVE  \E types \in Results(d) :
           \/ a \in Succeeds(d, types)
           \/ /\ d.type # "Synchronize"
              /\ \E part \in Prefixes(types) \ {types} : a = Fails(d, part)
<1>1. CASE \E types \in Results(d) : a \in Succeeds(d, types)
  BY <1>1
<1>2. CASE ~ \E types \in Results(d) : a \in Succeeds(d, types)
  <2>1. d.type \notin {"Synchronize", "Flush"}
    BY <1>2 DEF ReadyAnswers
  <2>2. \E types \in Results(d) : a \in {Fails(d, p) : p \in Prefixes(types) \ {types}}
    BY <1>2, <2>1 DEF ReadyAnswers
  <2> QED BY <2>1, <2>2
<1> QED BY <1>1, <1>2

Spoken(a, out, mode, tx, by) == a.out = out /\ a.server = [mode |-> mode, tx |-> tx, by |-> by]

LEMMA SucceedsIs ==
  ASSUME server.tx \in Statuses, NEW d, NEW types, NEW a \in Succeeds(d, types)
  PROVE  IF BeginsCopy(types) THEN Spoken(a, Outs(d, types, server.tx), "copyin", server.tx, d)
         ELSE \E tx \in Statuses : Spoken(a, Outs(d, Ended(d, types), tx), "ready", tx, None)
<1>1. CASE BeginsCopy(types)
  <2>1. a = Answer(d, types, server.tx, "copyin", d)
    BY <1>1 DEF Succeeds, BeginsCopy
  <2> QED BY <1>1, <2>1 DEF Answer, Outs, Spoken
<1>2. CASE ~ BeginsCopy(types)
  <2>1. \E tx \in Statuses : a = Answer(d, Ended(d, types), tx, "ready", None)
    BY <1>2 DEF Succeeds, BeginsCopy, Statuses
  <2> QED BY <1>2, <2>1 DEF Answer, Outs, Spoken
<1> QED BY <1>1, <1>2

LEMMA FailsIs ==
  ASSUME server.tx \in Statuses, NEW d, NEW types, NEW a, a = Fails(d, types)
  PROVE  \E tx \in Statuses : Spoken(a, Outs(d, Ended(d, Append(types, "Error")), tx),
                                    IF d.type \in ImplySync THEN "ready" ELSE "skip", tx, None)
BY DEF Fails, Answer, Outs, Statuses, Spoken

\* Replies to the command n.
OfTypes(out, types) ==
  Len(out) = Len(types) /\ \A k \in 1 .. Len(types) : out[k].type = types[k]

LEMMA SaysOuts ==
  ASSUME NEW x, WellFormed(x), NEW n \in 1 .. Len(x.commands), NEW d, d = x.commands[n],
         NEW types \in Seq(ReplyTypes), NEW tx \in Statuses, NEW out, out = Outs(d, types, tx),
         NEW e, NEW q \in Places(x.commands), Leads(x.commands, e, out, q)
  PROVE  Says(x, e, out, q, tx) /\ OfTypes(out, types)
<1>1. d.id \in Ids /\ d.id[1] = x.number
  BY CommandIs DEF WellFormed
<1>2. /\ out \in Seq(Messages) /\ Len(out) = Len(types) /\ Len(types) \in Nat
      /\ \A k \in 1 .. Len(types) :
           out[k].type = types[k] /\ out[k].of = d.id /\ (types[k] = "Ready" => out[k].tx = tx)
  <2>1. types \in Seq(ReplyTypes) /\ tx \in Statuses /\ out = Outs(d, types, tx)
    OBVIOUS
  <2> QED BY ONLY <1>1, <2>1, OutsAre
<1>3. /\ \A k \in 1 .. Len(out) : out[k].of[1] = x.number
      /\ \A k \in 1 .. Len(out) : out[k].type = "Ready" => out[k].tx = tx
  BY <1>1, <1>2
<1>4. q \in Places(x.commands) /\ Leads(x.commands, e, out, q)
  OBVIOUS
<1> QED BY ONLY <1>2, <1>3, <1>4 DEF Says, OfTypes

LEMMA EndedIs ==
  ASSUME NEW d, NEW types \in Seq(ReplyTypes), \A k \in 1 .. Len(types) : types[k] # "CopyFromBegin"
  PROVE  /\ Ended(d, types) \in Seq(ReplyTypes)
         /\ \A k \in 1 .. Len(Ended(d, types)) : Ended(d, types)[k] # "CopyFromBegin"
<1>1. "Ready" \in ReplyTypes
  BY DEF ReplyTypes, Replies
<1> DEFINE t == Append(types, "Ready")
<1>2. /\ t \in Seq(ReplyTypes) /\ Len(t) = Len(types) + 1
      /\ \A k \in 1 .. Len(types) : t[k] = types[k]
      /\ t[Len(types) + 1] = "Ready"
      /\ \A k \in 1 .. Len(t) : k \in 1 .. Len(types) \/ k = Len(types) + 1
  <2> HIDE DEF t
  <2> QED BY <1>1, AppendedIs DEF t
<1> HIDE DEF t
<1>3. \A k \in 1 .. Len(t) : t[k] # "CopyFromBegin"
  BY <1>2
<1> QED BY <1>2, <1>3 DEF Ended, t

-----------------------------------------------------------------------------

\* What is behind a command of a batch.
LEMMA Behind ==
  ASSUME NEW c, NEW number, CommandsOf(c, number), NEW n \in 1 .. Len(c)
  PROVE  /\ From(c, n + 1) \in Seq(Sendables)
         /\ n = Len(c) => From(c, n + 1) = <<>>
         /\ n < Len(c) =>
              \E u \in Seq(Sendables) :
                /\ From(c, n + 1) = u \o << c[Len(c)] >>
                /\ \A k \in 1 .. Len(u) : u[k].type \notin {"Synchronize", "Disconnect"}
<1>1. c \in Seq([type : Answered, id : Ids]) /\ Len(c) \in Nat /\ c \in Seq(Sendables)
  <2>1. c \in Seq([type : Answered, id : Ids]) /\ Len(c) \in Nat
    BY DEF CommandsOf
  <2> QED BY ONLY <2>1, CommandsAreSendable
<1>2. n + 1 \in 1 .. Len(c) + 1
  BY <1>1
<1> DEFINE t == From(c, n + 1)
<1>3. t \in Seq(Sendables) /\ Len(t) = Len(c) - n
  <2>1. t \in Seq(Sendables) /\ Len(t) = Len(c) + 1 - (n + 1)
    BY <1>1, <1>2, FromIs
  <2> QED BY <1>1, <2>1
<1>4. ASSUME n = Len(c) PROVE t = <<>>
  BY <1>1, <1>4, FromBehind
<1>5. ASSUME n < Len(c)
      PROVE  \E u \in Seq(Sendables) :
                /\ t = u \o << c[Len(c)] >>
                /\ \A k \in 1 .. Len(u) : u[k].type \notin {"Synchronize", "Disconnect"}
  <2> DEFINE u == SubSeq(c, n + 1, Len(c) - 1)
             w == u \o << c[Len(c)] >>
             last == << c[Len(c)] >>
  <2>1. \A k \in 1 .. Len(t) : t[k] = c[k + n]
    <3>1. t = SubSeq(c, n + 1, Len(c))
      BY DEF From
    <3>2. n \in 0 .. Len(c)
      BY <1>1
    <3> HIDE DEF t
    <3> QED BY <1>1, <3>1, <3>2, ShorterIs
  <2>2. u \in Seq(Sendables) /\ Len(u) = Len(c) - 1 - n /\ \A k \in 1 .. Len(u) : u[k] = c[k + n]
    <3>1. /\ n + 1 \in Int /\ Len(c) - 1 \in Int
          /\ \A k \in n + 1 .. Len(c) - 1 : k \in 1 .. Len(c)
      BY <1>1
    <3>2. \A k \in n + 1 .. Len(c) - 1 : c[k] \in Sendables
      BY <1>1, <3>1, ElementOfSeq
    <3>3. /\ u \in Seq(Sendables)
          /\ Len(u) = IF n + 1 <= Len(c) - 1 THEN Len(c) - 1 - (n + 1) + 1 ELSE 0
          /\ \A k \in 1 .. Len(c) - 1 - (n + 1) + 1 : u[k] = c[n + 1 + k - 1]
      BY <3>1, <3>2, SubSeqProperties
    <3> HIDE DEF u
    <3>4. Len(u) = Len(c) - 1 - n
      BY <1>1, <1>5, <3>3
    <3>5. ASSUME NEW k \in 1 .. Len(u) PROVE u[k] = c[k + n]
      <4>1. k \in 1 .. Len(c) - 1 - (n + 1) + 1 /\ n + 1 + k - 1 = k + n
        BY <1>1, <3>4
      <4>2. u[k] = c[n + 1 + k - 1]
        BY <3>3, <4>1
      <4> QED BY <4>1, <4>2
    <3> QED BY <3>3, <3>4, <3>5
  <2>3. \A k \in 1 .. Len(u) : u[k].type \notin {"Synchronize", "Disconnect"}
    <3> SUFFICES ASSUME NEW k \in 1 .. Len(u) PROVE u[k].type \in Extended
      BY DEF Extended
    <3> HIDE DEF u
    <3>1. k + n \in 1 .. Len(c) - 1
      BY <1>1, <2>2
    <3>2. c[k + n].type \in Extended
      BY <3>1 DEF CommandsOf
    <3> QED BY <2>2, <3>2
  <2> HIDE DEF t, u
  <2>4. c[Len(c)] \in Sendables /\ last \in Seq(Sendables) /\ Len(last) = 1 /\ last[1] = c[Len(c)]
    <3>1. Len(c) \in 1 .. Len(c)
      BY <1>1, <1>5
    <3>2. c[Len(c)] \in Sendables
      BY <1>1, <3>1, ElementOfSeq
    <3> QED BY <3>2
  <2> HIDE DEF last
  <2>5. /\ w \in Seq(Sendables) /\ Len(w) = Len(u) + 1
        /\ \A k \in 1 .. Len(u) : w[k] = u[k]
        /\ w[Len(u) + 1] = c[Len(c)]
    <3> DEFINE v == u \o last
    <3>1. v = w
      BY DEF last
    <3>2. /\ v \in Seq(Sendables) /\ Len(u) \in Nat /\ Len(last) \in Nat /\ Len(v) = Len(u) + Len(last)
          /\ \A k \in 1 .. Len(u) : k \in 1 .. Len(v) /\ v[k] = u[k]
          /\ \A k \in 1 .. Len(last) : k + Len(u) \in 1 .. Len(v) /\ v[k + Len(u)] = last[k]
      <4>1. u \in Seq(Sendables) /\ last \in Seq(Sendables) /\ v = u \o last
        BY <2>2, <2>4
      <4> HIDE DEF v
      <4> QED BY ONLY <4>1, JoinIs
    <3> HIDE DEF v, w
    <3>3. 1 \in 1 .. Len(last) /\ 1 + Len(u) = Len(u) + 1
      BY <2>4, <3>2
    <3>4. v[1 + Len(u)] = last[1]
      BY <3>2, <3>3
    <3> QED BY <2>4, <3>1, <3>2, <3>3, <3>4
  <2> HIDE DEF w
  <2>6. ASSUME NEW k \in 1 .. Len(t) PROVE t[k] = w[k]
    <3>1. CASE k <= Len(u)
      <4>1. k \in 1 .. Len(u)
        BY <1>1, <2>2, <3>1
      <4> QED BY <2>1, <2>2, <2>5, <4>1
    <3>2. CASE ~ (k <= Len(u))
      <4>1. k = Len(u) + 1 /\ k + n = Len(c)
        <5>1. k \in Int /\ k <= Len(c) - n /\ Len(c) \in Int
          BY <1>1, <1>3
        <5>2. ~ (k <= Len(c) - 1 - n)
          BY <2>2, <3>2
        <5>3. k = Len(c) - n
          BY <5>1, <5>2
        <5> QED BY <2>2, <5>1, <5>3
      <4>2. t[k] = c[k + n] /\ w[k] = c[Len(c)]
        BY <2>1, <2>5, <4>1
      <4> QED BY <4>1, <4>2
    <3> QED BY <3>1, <3>2
  <2>7. Len(t) = Len(w)
    BY <1>1, <1>3, <2>2, <2>5
  <2>8. t = w
    BY <1>3, <2>5, <2>6, <2>7, SeqEqual
  <2> QED BY <2>2, <2>3, <2>8 DEF w
<1> QED BY <1>3, <1>4, <1>5

\* A whole result, and the first part of one.
LEMMA ResultLeads ==
  ASSUME NEW c, NEW number, CommandsOf(c, number), NEW n \in 1 .. Len(c),
         NEW types \in Results(c[n]), NEW tx \in Statuses
  PROVE  /\ types \in Seq(ReplyTypes)
         /\ \A k \in 1 .. Len(types) : types[k] = "CopyFromBegin" => k = Len(types) /\ BeginsCopy(types)
         /\ IF BeginsCopy(types)
            THEN \E q \in Places(c) : /\ Leads(c, At(n, 0), Outs(c[n], types, tx), q) /\ q.offset = n
                                      /\ CopyPlace(c, q) /\ CopiesLast(c)
            ELSE Leads(c, At(n, 0), Outs(c[n], Ended(c[n], types), tx), At(n + 1, 0))
         /\ \A part \in Prefixes(types) \ {types} :
              /\ part \in Seq(ReplyTypes) /\ \A k \in 1 .. Len(part) : part[k] # "CopyFromBegin"
              /\ \E q \in Places(c) : q.offset = n /\ Leads(c, At(n, 0), Outs(c[n], part, tx), q)
<1> DEFINE out == Outs(c[n], types, tx)
<1>1. /\ c[n].type \in Answered /\ c[n].id \in Ids /\ Len(c) \in Nat
  BY CommandIs
<1>2. /\ types \in Seq(ResultTypes) /\ CanReturn(c[n].type, types, LastStep(c[n].type))
      /\ c[n].type = "Execute" /\ BeginsCopy(types) => CopyBegins
  BY <1>1, ResultsReturn
<1>3. types \in Seq(ReplyTypes) /\ Len(types) \in Nat
  <2>1. ResultTypes \subseteq ReplyTypes
    BY DEF ResultTypes, ReplyTypes
  <2>2. Len(types) \in Nat /\ types \in [1 .. Len(types) -> ResultTypes]
    BY <1>2, LenProperties
  <2>3. types \in Seq(ReplyTypes)
    BY <2>1, <2>2, SeqDef
  <2> QED BY <2>2, <2>3
<1>4. out \in Seq(Messages) /\ Len(out) = Len(types)
  BY <1>1, <1>3, OutsAre
<1>5. PICK at :
        /\ Track(c, At(n, 0), out, at)
        /\ \A k \in 0 .. Len(types) - 1 : at[k].offset = n
        /\ \A k \in 1 .. Len(types) : types[k] = "CopyFromBegin" => k = Len(types)
        /\ IF BeginsCopy(types) THEN CopyPlace(c, at[Len(types)]) /\ at[Len(types)].offset = n
           ELSE at[Len(types)] = StepPlace(n, LastStep(c[n].type))
  <2> HIDE DEF out
  <2> QED BY <1>2, ResultTrack DEF out
<1> HIDE DEF out
<1>6. Leads(c, At(n, 0), out, at[Len(types)]) /\ at[Len(types)] \in Places(c)
  <2>1. Len(types) \in 0 .. Len(out)
    BY <1>3, <1>4
  <2> QED BY <1>4, <1>5, <2>1 DEF Leads, Track
<1>7. ASSUME NEW k \in 1 .. Len(types), types[k] = "CopyFromBegin" PROVE k = Len(types) /\ BeginsCopy(types)
  <2>1. k = Len(types) /\ types # <<>>
    BY <1>3, <1>5, <1>7, EmptySeq
  <2> QED BY <1>7, <2>1 DEF BeginsCopy, Last
<1>8. ASSUME BeginsCopy(types) PROVE CopiesLast(c)
  <2>1. c[n].type \in {"Query", "Execute"}
    BY <1>5, <1>8 DEF CopyPlace
  <2>2. CASE c[n].type = "Query"
    <3>1. Len(c) = 1
      BY <2>2, CommandIs
    <3> QED BY <3>1 DEF CopiesLast
  <2>3. CASE c[n].type = "Execute"
    <3>1. CopyBegins
      BY <1>2, <1>8, <2>3
    <3>2. \A k \in 1 .. Len(c) - 2 : c[k].type # "Execute"
      BY <3>1 DEF CommandsOf
    <3> QED BY <3>2 DEF CopiesLast
  <2> QED BY <2>1, <2>2, <2>3
<1>9. ASSUME ~ BeginsCopy(types) PROVE Leads(c, At(n, 0), Outs(c[n], Ended(c[n], types), tx), At(n + 1, 0))
  <2>1. IF c[n].type \in {"Query", "Synchronize"} THEN at[Len(types)] = At(n, 0) ELSE at[Len(types)] = At(n + 1, 0)
    BY <1>5, <1>9 DEF StepPlace, LastStep, End
  <2> QED BY <1>3, <1>6, <2>1, EndedLeads DEF out
<1>10. ASSUME NEW part \in Prefixes(types) \ {types}
       PROVE  /\ part \in Seq(ReplyTypes) /\ \A k \in 1 .. Len(part) : part[k] # "CopyFromBegin"
              /\ \E q \in Places(c) : q.offset = n /\ Leads(c, At(n, 0), Outs(c[n], part, tx), q)
  <2>1. PICK k \in 0 .. Len(types) : part = SubSeq(types, 1, k)
    BY DEF Prefixes
  <2>2. k # Len(types)
    <3>1. SubSeq(types, 1, Len(types)) = types
      BY <1>3, SubSeqFull
    <3> QED BY ONLY <1>10, <2>1, <3>1
  <2>3. /\ part \in Seq(ReplyTypes) /\ Len(part) = k
        /\ Outs(c[n], part, tx) = SubSeq(out, 1, k)
    <3> DEFINE d == c[n]
    <3>1. d.id \in Ids /\ tx \in Statuses
      BY <1>1
    <3>2. types \in Seq(ReplyTypes) /\ k \in 0 .. Len(types) /\ part = SubSeq(types, 1, k)
      BY <1>3, <2>1
    <3> HIDE DEF d
    <3>3. Outs(d, part, tx) = SubSeq(Outs(d, types, tx), 1, k) /\ part \in Seq(ReplyTypes) /\ Len(part) = k
      BY ONLY <3>1, <3>2, OutsOfPart
    <3> QED BY <3>3 DEF out, d
  <2>4. \A j \in 1 .. k : part[j] = types[j]
    <3>1. \A j \in 1 .. k : j \in 1 .. Len(types)
      BY <1>3
    <3> QED BY <1>3, <2>1, <3>1
  <2>5. ASSUME NEW j \in 1 .. Len(part) PROVE part[j] # "CopyFromBegin"
    <3>1. j \in 1 .. Len(types) /\ j # Len(types) /\ j \in 1 .. k
      BY <1>3, <2>2, <2>3
    <3> QED BY <1>7, <2>4, <3>1
  <2>6. k \in 0 .. Len(out) /\ k \in 0 .. Len(types) - 1
    BY <1>3, <1>4, <2>2
  <2>7. Leads(c, At(n, 0), SubSeq(out, 1, k), at[k]) /\ at[k] \in Places(c)
    BY <1>4, <1>5, <2>6, TrackApart
  <2>8. at[k].offset = n
    BY <1>5, <2>6
  <2> QED BY <2>3, <2>5, <2>7, <2>8
<1> QED BY <1>3, <1>5, <1>6, <1>7, <1>8, <1>9, <1>10 DEF out

-----------------------------------------------------------------------------

\* The server answers the next command of the batch.
LEMMA LiveAnswers ==
  ASSUME server.tx \in Statuses, NEW x, NEW i \in Seq(Messages), NEW s, NEW f,
         NEW n \in 1 .. Len(x.commands), Heeds(x, i, s, f, At(n, 0)), x.state # "sent_from_stdin",
         NEW a \in ReadyAnswers(x.commands[n]), NEW j, j = i \o a.out
  PROVE  /\ Live(x, j, From(x.commands, n + 1), a.server, Reported(f, a.out))
         /\ a.out \in Seq(Messages)
<1> DEFINE c == x.commands
           d == c[n]
           e == At(n, 0)
           o == From(c, n + 1)
<1>1. CommandsOf(c, x.number) /\ WellFormed(x)
  BY DEF Heeds, Going, WellFormed
<1>2. e.offset = n
  BY DEF At
<1>3. /\ d.type \in Answered /\ d.id \in Ids /\ Len(c) \in Nat /\ Len(c) >= 1
      /\ d.type = "Query" => n = Len(c)
      /\ d.type \notin {"Query", "Synchronize"} => n < Len(c) /\ c[Len(c)].type = "Synchronize"
      /\ d.type \notin {"Function", "Flush"}
  BY <1>1, CommandIs
<1>4. /\ o \in Seq(Sendables)
      /\ n < Len(c) => \E u \in Seq(Sendables) :
                         /\ o = u \o << c[Len(c)] >>
                         /\ \A k \in 1 .. Len(u) : u[k].type \notin {"Synchronize", "Disconnect"}
  BY <1>1, Behind
<1>5. At(n + 1, 0) \in Places(c) /\ At(Len(c), 0) \in Places(c)
  <2>1. n + 1 \in 1 .. Len(c) + 1
    BY <1>3
  <2> QED BY <1>1, <2>1, EndPlaces
<1>6. <<>> \in Seq(Sendables) /\ OnlyCopy(<<>>) /\ o = <<>> \o o
  <2>1. <<>> \in Seq(Sendables) /\ Len(<<>>) = 0
    OBVIOUS
  <2>2. o = <<>> \o o
    <3> HIDE DEF o
    <3> QED BY <1>4, ConcatEmptySeq
  <2> QED BY <2>1, <2>2 DEF OnlyCopy
<1>a. d = c[n]
  OBVIOUS
<1>c. n \in 1 .. Len(c)
  OBVIOUS
<1> HIDE DEF o, e, d
<1>b. a \in ReadyAnswers(d)
  BY DEF d
<1>7. PICK types \in Results(d) :
        \/ a \in Succeeds(d, types)
        \/ /\ d.type # "Synchronize"
           /\ \E part \in Prefixes(types) \ {types} : a = Fails(d, part)
  BY <1>b, AnswersOf
<1>8. ASSUME NEW tx \in Statuses
      PROVE  /\ types \in Seq(ReplyTypes)
             /\ \A k \in 1 .. Len(types) : types[k] = "CopyFromBegin" => k = Len(types) /\ BeginsCopy(types)
             /\ IF BeginsCopy(types)
                THEN \E q \in Places(c) : /\ Leads(c, e, Outs(d, types, tx), q) /\ q.offset = n
                                          /\ CopyPlace(c, q) /\ CopiesLast(c)
                ELSE Leads(c, e, Outs(d, Ended(d, types), tx), At(n + 1, 0))
             /\ \A part \in Prefixes(types) \ {types} :
                  /\ part \in Seq(ReplyTypes) /\ \A k \in 1 .. Len(part) : part[k] # "CopyFromBegin"
                  /\ \E q \in Places(c) : q.offset = n /\ Leads(c, e, Outs(d, part, tx), q)
  BY <1>1, ResultLeads DEF e, d
<1>9. CASE a \in Succeeds(d, types) /\ BeginsCopy(types)
  <2>0. Spoken(a, Outs(d, types, server.tx), "copyin", server.tx, d)
    BY <1>9, SucceedsIs
  <2>1. a.out = Outs(d, types, server.tx) /\ a.server = [mode |-> "copyin", tx |-> server.tx, by |-> d]
    BY <2>0 DEF Spoken
  <2>2. PICK q \in Places(c) : /\ Leads(c, e, Outs(d, types, server.tx), q) /\ q.offset = n
                               /\ CopyPlace(c, q) /\ CopiesLast(c)
    BY <1>8, <1>9
  <2>3. types \in Seq(ReplyTypes)
        /\ \A k \in 1 .. Len(types) : types[k] = "CopyFromBegin" => k = Len(types)
    BY <1>8
  <2>4. Says(x, e, a.out, q, server.tx) /\ OfTypes(a.out, types)
    BY ONLY <1>1, <1>a, <1>c, <2>1, <2>2, <2>3, server.tx \in Statuses, q \in Places(c), SaysOuts
  <2>5. \A k \in 1 .. Len(a.out) : a.out[k].type = "CopyFromBegin" => k = Len(a.out)
    BY <2>3, <2>4 DEF OfTypes
  <2>6. Begun(a.out)
    <3>1. Len(types) \in 1 .. Len(types) /\ types[Len(types)] = "CopyFromBegin"
      BY <1>9, <2>3, EmptySeq, LenProperties DEF BeginsCopy, Last
    <3> QED BY <2>4, <3>1 DEF Begun, OfTypes
  <2>7. a.server.mode = "copyin" /\ a.server.by = c[q.offset] /\ o = From(c, q.offset + 1)
    BY <1>a, <2>1, <2>2 DEF o
  <2>8. Live(x, j, o, a.server, Reported(f, a.out))
    BY <2>2, <2>4, <2>5, <2>6, <2>7, LiveIsAskedForData DEF e
  <2> QED BY <2>4, <2>8 DEF Says, o
<1>10. CASE a \in Succeeds(d, types) /\ ~ BeginsCopy(types)
  <2>0. PICK tx \in Statuses : Spoken(a, Outs(d, Ended(d, types), tx), "ready", tx, None)
    BY <1>10, SucceedsIs
  <2>1. /\ a.out = Outs(d, Ended(d, types), tx)
        /\ a.server = [mode |-> "ready", tx |-> tx, by |-> None]
    BY <2>0 DEF Spoken
  <2> DEFINE ended == Ended(d, types)
  <2>2. ended \in Seq(ReplyTypes) /\ \A k \in 1 .. Len(ended) : ended[k] # "CopyFromBegin"
    BY <1>8, <1>10, <2>1, EndedIs
  <2>3. Leads(c, e, Outs(d, ended, tx), At(n + 1, 0))
    BY <1>8, <1>10
  <2> HIDE DEF ended
  <2>5. a.out = Outs(d, ended, tx)
    BY <2>1 DEF ended
  <2>4. Says(x, e, a.out, At(n + 1, 0), tx) /\ OfTypes(a.out, ended)
    BY ONLY <1>1, <1>5, <1>a, <1>c, tx \in Statuses, <2>2, <2>3, <2>5, SaysOuts
  <2>6. \A k \in 1 .. Len(a.out) : a.out[k].type # "CopyFromBegin"
    BY <2>2, <2>4, <2>5 DEF OfTypes
  <2>7. a.server.mode = "ready" /\ a.server.tx = tx
    BY <2>1
  <2>8. Says(x, e, a.out, At(n + 1, 0), tx) /\ Heeds(x, i, s, f, e)
    BY <2>4, <2>5 DEF e
  <2>9. Live(x, j, o, a.server, Reported(f, a.out))
    BY <1>2, <1>6, <2>6, <2>7, <2>8, LiveIsAnswered DEF o
  <2> QED BY <2>8, <2>9 DEF Says, o
<1>11. CASE d.type # "Synchronize" /\ \E part \in Prefixes(types) \ {types} : a = Fails(d, part)
  <2>1. PICK part \in Prefixes(types) \ {types} : a = Fails(d, part)
    BY <1>11
  <2>0. PICK tx \in Statuses : Spoken(a, Outs(d, Ended(d, Append(part, "Error")), tx),
                                     IF d.type \in ImplySync THEN "ready" ELSE "skip", tx, None)
    BY <2>1, FailsIs
  <2>2. /\ a.out = Outs(d, Ended(d, Append(part, "Error")), tx)
        /\ a.server = [mode |-> IF d.type \in ImplySync THEN "ready" ELSE "skip", tx |-> tx, by |-> None]
    BY <2>0 DEF Spoken
  <2> DEFINE t == Append(part, "Error")
             ended == Ended(d, t)
  <2>3. /\ part \in Seq(ReplyTypes) /\ \A k \in 1 .. Len(part) : part[k] # "CopyFromBegin"
        /\ \E q \in Places(c) : q.offset = n /\ Leads(c, e, Outs(d, part, tx), q)
    BY <1>8
  <2>4. Leads(c, e, Outs(d, ended, tx), IF d.type = "Query" THEN At(n + 1, 0) ELSE At(Len(c), 0))
    <3>1. PICK q \in Places(c) : q.offset = n /\ Leads(c, e, Outs(d, part, tx), q)
      BY <2>3
    <3>2. d.type # "Synchronize" /\ tx \in Statuses
      BY <1>11
    <3> QED BY ONLY <1>1, <1>a, <1>c, <2>3, <3>1, <3>2, q \in Places(c), FailsLead
  <2>5. t \in Seq(ReplyTypes) /\ \A k \in 1 .. Len(t) : t[k] # "CopyFromBegin"
    <3>1. "Error" \in ReplyTypes
      BY DEF ReplyTypes
    <3>2. /\ t \in Seq(ReplyTypes) /\ Len(t) = Len(part) + 1
          /\ \A k \in 1 .. Len(part) : t[k] = part[k]
          /\ t[Len(part) + 1] = "Error"
          /\ \A k \in 1 .. Len(t) : k \in 1 .. Len(part) \/ k = Len(part) + 1
      <4> HIDE DEF t
      <4> QED BY <2>3, <3>1, AppendedIs DEF t
    <3> HIDE DEF t
    <3> QED BY <2>3, <3>2
  <2> HIDE DEF t
  <2>6. ended \in Seq(ReplyTypes) /\ \A k \in 1 .. Len(ended) : ended[k] # "CopyFromBegin"
    BY <2>5, EndedIs
  <2>7. a.out = Outs(d, ended, tx)
    BY <2>2 DEF t
  <2> HIDE DEF ended
  <2> DEFINE r == IF d.type = "Query" THEN At(n + 1, 0) ELSE At(Len(c), 0)
  <2>8. r \in Places(c)
    BY <1>5
  <2> HIDE DEF r
  <2>a. Leads(c, e, a.out, r)
    BY <2>4, <2>7 DEF r
  <2>9. Says(x, e, a.out, r, tx) /\ OfTypes(a.out, ended)
    BY ONLY <1>1, <1>a, <1>c, tx \in Statuses, <2>6, <2>7, <2>8, <2>a, SaysOuts
  <2>10. \A k \in 1 .. Len(a.out) : a.out[k].type # "CopyFromBegin"
    BY <2>6, <2>7, <2>9 DEF OfTypes
  <2>11. Says(x, e, a.out, r, tx) /\ Heeds(x, i, s, f, e)
    BY <2>7, <2>9 DEF e
  <2>12. CASE d.type = "Query"
    <3>1. Says(x, e, a.out, At(n + 1, 0), tx) /\ a.server.mode = "ready" /\ a.server.tx = tx
      BY <2>2, <2>11, <2>12 DEF r, ImplySync
    <3>2. Live(x, j, o, a.server, Reported(f, a.out))
      BY <1>2, <1>6, <2>10, <2>11, <3>1, LiveIsAnswered DEF o
    <3> QED BY <2>11, <3>2 DEF Says, o
  <2>13. CASE d.type # "Query"
    <3>1. Says(x, e, a.out, At(Len(c), 0), tx) /\ a.server.mode = "skip"
      BY <1>3, <2>2, <2>11, <2>13 DEF r, ImplySync
    <3>2. n < Len(c) /\ c[Len(c)].type = "Synchronize"
      BY <1>3, <1>11, <2>13
    <3>3. PICK u \in Seq(Sendables) :
                         /\ o = u \o << c[Len(c)] >>
                         /\ \A k \in 1 .. Len(u) : u[k].type \notin {"Synchronize", "Disconnect"}
      BY <1>4, <3>2
    <3>4. o = u \o Unsent(x, << c[Len(c)] >>)
      BY <3>3 DEF Unsent
    <3>5. Live(x, j, o, a.server, Reported(f, a.out))
      BY <2>10, <2>11, <3>1, <3>2, <3>3, <3>4, LiveIsRefused
    <3> QED BY <2>11, <3>5 DEF Says, o
  <2> QED BY <2>12, <2>13
<1> QED BY <1>7, <1>9, <1>10, <1>11

-----------------------------------------------------------------------------
(* The server ends a COPY FROM STDIN.                                      *)

LEMMA CopyCommand ==
  ASSUME NEW c, NEW number, CommandsOf(c, number), NEW e \in Places(c), CopyPlace(c, e), CopiesLast(c),
         NEW n, n = e.offset
  PROVE  /\ n \in 1 .. Len(c) /\ e = At(n, e.step) /\ c[n].type \in {"Query", "Execute"} /\ Len(c) \in Nat
         /\ c[n].type = "Query" => e.step = 1 /\ n = Len(c) /\ Len(c) = 1 /\ From(c, n + 1) = <<>>
         /\ c[n].type = "Execute" => /\ e.step = 3 /\ n + 1 = Len(c) /\ c[Len(c)].type = "Synchronize"
                                     /\ From(c, n + 1) = << c[Len(c)] >>
<1>1. n \in 1 .. Len(c) /\ e = At(n, e.step) /\ Len(c) \in Nat
  BY PlaceType DEF CopyPlace
<1>2. c \in Seq([type : Answered, id : Ids])
  BY DEF CommandsOf
<1>3. CASE c[n].type = "Query" /\ e.step = 1
  <2>1. n = Len(c) /\ Len(c) = 1
    BY <1>1, <1>3, CommandIs
  <2>2. From(c, n + 1) = <<>>
    BY <1>2, <2>1, FromBehind
  <2> QED BY <1>1, <1>3, <2>1, <2>2
<1>4. CASE c[n].type = "Execute" /\ e.step = 3
  <2>1. n < Len(c) /\ c[Len(c)].type = "Synchronize"
    BY <1>1, <1>4, CommandIs
  <2>2. n \notin 1 .. Len(c) - 2
    BY <1>4 DEF CopiesLast
  <2>3. n + 1 = Len(c)
    BY <1>1, <2>1, <2>2
  <2>4. From(c, Len(c)) = << c[Len(c)] >>
    <3>1. Len(c) \in 1 .. Len(c) + 1
      BY <1>1, <2>3
    <3> QED BY <1>2, <3>1, FromIs
  <2> QED BY <1>1, <1>4, <2>1, <2>3, <2>4
<1> QED BY <1>1, <1>3, <1>4 DEF CopyPlace

LEMMA LiveIsLoaded ==
  ASSUME server.tx \in Statuses, NEW x, NEW i \in Seq(Messages), NEW s, NEW f, NEW e, Heeds(x, i, s, f, e),
         CopyPlace(x.commands, e), CopiesLast(x.commands), x.state # "sent_from_stdin",
         NEW n, n = e.offset, NEW u \in Seq(Sendables), OnlyCopy(u),
         NEW a \in Succeeds(x.commands[n], <<"Complete">>), NEW j, j = i \o a.out
  PROVE  /\ Live(x, j, u \o From(x.commands, n + 1), a.server, Reported(f, a.out))
         /\ a.out \in Seq(Messages)
<1> DEFINE c == x.commands
           d == c[n]
           types == <<"Complete">>
           r == IF d.type = "Query" THEN At(n, 0) ELSE At(n + 1, 0)
           ended == Ended(d, types)
<1>1. WellFormed(x) /\ CommandsOf(c, x.number) /\ e \in Places(c)
  BY DEF Heeds, Going, WellFormed
<1>2. /\ n \in 1 .. Len(c) /\ e = At(n, e.step) /\ d.type \in {"Query", "Execute"} /\ Len(c) \in Nat
      /\ d.type = "Query" => e.step = 1
      /\ d.type = "Execute" => e.step = 3
  BY <1>1, CopyCommand
<1>3. d = c[n] /\ d.id \in Ids
  BY <1>1, <1>2, CommandIs
<1> HIDE DEF d
<1>4. /\ types \in Seq(ReplyTypes) /\ Len(types) = 1 /\ types[1] = "Complete"
      /\ "Complete" \in ReplyTypes /\ types = Append(<<>>, "Complete") /\ <<>> \in Seq(ReplyTypes)
  BY DEF ReplyTypes, Replies
<1>5. ~ BeginsCopy(types)
  BY <1>4 DEF BeginsCopy, Last
<1> HIDE DEF types, r
<1>6. PICK tx \in Statuses : Spoken(a, Outs(d, Ended(d, types), tx), "ready", tx, None)
  BY <1>5, SucceedsIs DEF d, types
<1>7. a.out = Outs(d, ended, tx) /\ a.server.mode = "ready" /\ a.server.tx = tx
  BY <1>6 DEF Spoken
<1>8. r \in Places(c) /\ At(n + 1, 0) \in Places(c)
  <2>1. n \in 1 .. Len(c) + 1 /\ n + 1 \in 1 .. Len(c) + 1
    BY <1>2
  <2> QED BY <1>1, <2>1, EndPlaces DEF r
<1>9. Leads(c, e, Outs(d, types, tx), r)
  <2> DEFINE m == Reply(d, "Complete", tx)
  <2>1. m.type = "Complete" /\ m.of = d.id
    BY <1>3, <1>4, ReplyIs
  <2>2. Leads(c, e, Outs(d, <<>>, tx), e)
    <3>1. Outs(d, <<>>, tx) = <<>>
      BY DEF Outs
    <3> QED BY <1>1, <3>1, LeadsNowhere
  <2> HIDE DEF m
  <2>3. e.offset = n /\ n <= Len(c)
    BY <1>2
  <2>4. Moves(c, e, m, r)
    <3>1. CASE d.type = "Query"
      <4>1. "Complete" \in DOMAIN hook[d.type][e.step + 1] /\ hook[d.type][e.step + 1]["Complete"] = 0
        BY <1>2, <3>1, QueryHook
      <4> QED BY <1>2, <1>3, <2>1, <2>3, <3>1, <4>1 DEF Moves, Answers1, After, r, End, At
    <3>2. CASE d.type = "Execute"
      <4>1. "Complete" \in DOMAIN hook[d.type][e.step + 1] /\ hook[d.type][e.step + 1]["Complete"] = End
        BY <1>2, <3>2, ExecuteHook
      <4> QED BY <1>2, <1>3, <2>1, <2>3, <3>2, <4>1 DEF Moves, Answers1, After, r
    <3> QED BY <1>2, <3>1, <3>2
  <2>5. Moves(c, e, Reply(c[n], "Complete", tx), r)
    BY <1>3, <2>4 DEF m
  <2>6. Leads(c, e, Outs(c[n], Append(<<>>, "Complete"), tx), r)
    <3>1. Leads(c, e, Outs(c[n], <<>>, tx), e)
      BY <1>3, <2>2
    <3>2. n \in 1 .. Len(c) /\ <<>> \in Seq(ReplyTypes) /\ tx \in Statuses /\ e \in Places(c) /\ "Complete" \in ReplyTypes
      BY <1>1, <1>2, <1>4
    <3> QED BY ONLY <1>1, <1>8, <2>5, <3>1, <3>2, OutsLead
  <2> QED BY <1>3, <1>4, <2>6
<1>10. IF d.type \in {"Query", "Synchronize"} THEN r = At(n, 0) ELSE r = At(n + 1, 0)
  BY <1>2 DEF r
<1>11. Leads(c, e, Outs(d, ended, tx), At(n + 1, 0))
  <2>1. n \in 1 .. Len(c) /\ tx \in Statuses
    BY <1>2
  <2> QED BY ONLY <1>1, <1>3, <1>4, <1>8, <1>9, <1>10, <2>1, EndedLeads
<1>12. ended \in Seq(ReplyTypes) /\ \A k \in 1 .. Len(ended) : ended[k] # "CopyFromBegin"
  <2>1. \A k \in 1 .. Len(types) : types[k] # "CopyFromBegin"
    <3> SUFFICES ASSUME NEW k \in 1 .. Len(types) PROVE types[k] # "CopyFromBegin"
      OBVIOUS
    <3>1. k = 1
      BY <1>4
    <3> QED BY <1>4, <3>1
  <2> QED BY <1>4, <2>1, EndedIs
<1> HIDE DEF ended
<1>13. Says(x, e, a.out, At(n + 1, 0), tx) /\ OfTypes(a.out, ended)
  <2>1. n \in 1 .. Len(c) /\ tx \in Statuses /\ Leads(c, e, a.out, At(n + 1, 0))
    BY <1>2, <1>7, <1>11
  <2> QED BY ONLY <1>1, <1>3, <1>7, <1>8, <1>12, <2>1, SaysOuts
<1>14. \A k \in 1 .. Len(a.out) : a.out[k].type # "CopyFromBegin"
  BY <1>12, <1>13 DEF OfTypes
<1>15. Live(x, j, u \o From(c, n + 1), a.server, Reported(f, a.out))
  BY <1>7, <1>13, <1>14, LiveIsAnswered
<1> QED BY <1>13, <1>15 DEF Says

LEMMA LiveIsNotLoaded ==
  ASSUME server.tx \in Statuses, NEW x, NEW i \in Seq(Messages), NEW s, NEW f, NEW e, Heeds(x, i, s, f, e),
         CopyPlace(x.commands, e), CopiesLast(x.commands), x.state = "sent_from_stdin" => x.offset = e.offset,
         NEW n, n = e.offset, NEW u \in Seq(Sendables), OnlyCopy(u),
         NEW a, a = Fails(x.commands[n], <<>>), NEW j, j = i \o a.out
  PROVE  /\ Live(x, j, u \o Unsent(x, From(x.commands, n + 1)), a.server, Reported(f, a.out))
         /\ a.out \in Seq(Messages)
<1> DEFINE c == x.commands
           d == c[n]
           types == <<"Error">>
           r == IF d.type = "Query" THEN At(n + 1, 0) ELSE At(Len(c), 0)
           ended == Ended(d, types)
           o == u \o Unsent(x, From(c, n + 1))
<1>1. WellFormed(x) /\ CommandsOf(c, x.number) /\ e \in Places(c)
  BY DEF Heeds, Going, WellFormed
<1>2. /\ n \in 1 .. Len(c) /\ e = At(n, e.step) /\ d.type \in {"Query", "Execute"} /\ Len(c) \in Nat
      /\ d.type = "Query" => n = Len(c) /\ From(c, n + 1) = <<>>
      /\ d.type = "Execute" => /\ n + 1 = Len(c) /\ c[Len(c)].type = "Synchronize"
                               /\ From(c, n + 1) = << c[Len(c)] >>
  <2>1. CopyPlace(c, e) /\ CopiesLast(c) /\ n = e.offset /\ d.type = c[n].type
    OBVIOUS
  <2> HIDE DEF c, d
  <2> QED BY ONLY <1>1, <2>1, CopyCommand
<1>3. d = c[n] /\ d.id \in Ids
  BY <1>1, <1>2, CommandIs
<1>4. /\ types \in Seq(ReplyTypes) /\ Len(types) = 1 /\ types[1] = "Error"
      /\ types = Append(<<>>, "Error") /\ <<>> \in Seq(ReplyTypes)
  BY DEF ReplyTypes, Replies
<1> HIDE DEF d, types, r, o
<1>6. PICK tx \in Statuses : Spoken(a, Outs(d, Ended(d, Append(<<>>, "Error")), tx),
                                  IF d.type \in ImplySync THEN "ready" ELSE "skip", tx, None)
  BY FailsIs DEF d
<1>7. /\ a.out = Outs(d, ended, tx) /\ a.server.tx = tx
      /\ a.server.mode = IF d.type \in ImplySync THEN "ready" ELSE "skip"
  <2>1. ended = Ended(d, Append(<<>>, "Error"))
    BY ONLY <1>4
  <2> HIDE DEF ended
  <2>2. Spoken(a, Outs(d, ended, tx), IF d.type \in ImplySync THEN "ready" ELSE "skip", tx, None)
    BY ONLY <1>6, <2>1
  <2> QED BY ONLY <2>2 DEF Spoken
<1>8. r \in Places(c)
  <2>1. n + 1 \in 1 .. Len(c) + 1
    BY <1>2
  <2> QED BY <1>1, <2>1, EndPlaces DEF r
<1>9. Leads(c, e, Outs(d, <<>>, tx), e) /\ e.offset = n
  <2>1. Outs(d, <<>>, tx) = <<>>
    BY DEF Outs
  <2> QED BY <1>1, <2>1, LeadsNowhere
<1>10. Leads(c, e, Outs(d, ended, tx), r)
  <2>1. n \in 1 .. Len(c) /\ tx \in Statuses /\ d.type # "Synchronize"
    BY <1>2
  <2>2. Leads(c, e, Outs(d, Ended(d, Append(<<>>, "Error")), tx),
               IF d.type = "Query" THEN At(n + 1, 0) ELSE At(Len(c), 0))
    BY ONLY <1>1, <1>3, <1>4, <1>9, <2>1, FailsLead
  <2> QED BY <1>4, <2>2 DEF r
<1>12. ended \in Seq(ReplyTypes) /\ \A k \in 1 .. Len(ended) : ended[k] # "CopyFromBegin"
  <2>1. \A k \in 1 .. Len(types) : types[k] # "CopyFromBegin"
    <3> SUFFICES ASSUME NEW k \in 1 .. Len(types) PROVE types[k] # "CopyFromBegin"
      OBVIOUS
    <3>1. k = 1
      BY <1>4
    <3> QED BY <1>4, <3>1
  <2> QED BY <1>4, <2>1, EndedIs
<1> HIDE DEF ended
<1>13. Says(x, e, a.out, r, tx) /\ OfTypes(a.out, ended)
  <2>1. n \in 1 .. Len(c) /\ tx \in Statuses /\ Leads(c, e, a.out, r)
    BY <1>2, <1>7, <1>10
  <2> QED BY ONLY <1>1, <1>3, <1>7, <1>8, <1>12, <2>1, SaysOuts
<1>14. \A k \in 1 .. Len(a.out) : a.out[k].type # "CopyFromBegin"
  BY <1>12, <1>13 DEF OfTypes
<1>15. CASE d.type = "Query"
  <2>1. Says(x, e, a.out, At(n + 1, 0), tx) /\ a.server.mode = "ready"
    BY <1>7, <1>13, <1>15 DEF r, ImplySync
  <2>2. o = u \o From(c, n + 1)
    BY <1>2, <1>15 DEF Unsent, o
  <2>3. x.state = "sent_from_stdin" => n = Len(c) /\ x.offset = n
    BY <1>2, <1>15
  <2>4. Live(x, j, o, a.server, Reported(f, a.out))
    <3>1. /\ i \in Seq(Messages) /\ u \in Seq(Sendables) /\ Heeds(x, i, s, f, e) /\ n = e.offset
          /\ OnlyCopy(u) /\ j = i \o a.out /\ a.server.tx = tx
      BY <1>7
    <3> QED BY ONLY <1>14, <2>1, <2>2, <2>3, <3>1, LiveIsAnswered
  <2>5. a.out \in Seq(Messages)
    BY ONLY <2>1 DEF Says
  <2> QED BY ONLY <2>4, <2>5 DEF o
<1>16. CASE d.type = "Execute"
  <2>1. Says(x, e, a.out, At(Len(c), 0), tx) /\ a.server.mode = "skip"
    BY <1>7, <1>13, <1>16 DEF r, ImplySync
  <2>2. o = u \o Unsent(x, << c[Len(c)] >>) /\ c[Len(c)].type = "Synchronize"
    BY <1>2, <1>16 DEF o
  <2>3. \A k \in 1 .. Len(u) : u[k].type \notin {"Synchronize", "Disconnect"}
    BY DEF OnlyCopy, CopyWire
  <2>4. Live(x, j, o, a.server, Reported(f, a.out))
    BY <1>14, <2>1, <2>2, <2>3, LiveIsRefused
  <2>5. a.out \in Seq(Messages)
    BY ONLY <2>1 DEF Says
  <2> QED BY ONLY <2>4, <2>5 DEF o
<1> QED BY <1>2, <1>15, <1>16

-----------------------------------------------------------------------------
(* The server reads what it was sent.                                      *)

LEMMA HeadOfJoin ==
  ASSUME NEW S, NEW u \in Seq(S), NEW v \in Seq(S), NEW o, o = u \o v
  PROVE  /\ o \in Seq(S)
         /\ u = <<>> => o = v
         /\ u # <<>> => /\ o # <<>> /\ Head(o) = u[1] /\ Head(o) \in S /\ Tail(o) = Tail(u) \o v
                        /\ Tail(u) \in Seq(S) /\ Len(u) \in Nat /\ Len(Tail(u)) = Len(u) - 1 /\ 1 \in 1 .. Len(u)
                        /\ \A k \in 1 .. Len(Tail(u)) : k + 1 \in 1 .. Len(u) /\ Tail(u)[k] = u[k + 1]
<1>1. /\ o \in Seq(S) /\ Len(o) = Len(u) + Len(v) /\ Len(u) \in Nat /\ Len(v) \in Nat
      /\ \A k \in 1 .. Len(u) : k \in 1 .. Len(o) /\ o[k] = u[k]
      /\ \A k \in 1 .. Len(v) : k + Len(u) \in 1 .. Len(o) /\ o[k + Len(u)] = v[k]
      /\ \A k \in 1 .. Len(o) : k \in 1 .. Len(u) \/ (k > Len(u) /\ k - Len(u) \in 1 .. Len(v) /\ o[k] = v[k - Len(u)])
  BY JoinIs
<1>2. ASSUME u = <<>> PROVE o = v
  BY <1>2, ConcatEmptySeq
<1>3. ASSUME u # <<>>
      PROVE  /\ o # <<>> /\ Head(o) = u[1] /\ Head(o) \in S /\ Tail(o) = Tail(u) \o v
             /\ Tail(u) \in Seq(S) /\ Len(u) \in Nat /\ Len(Tail(u)) = Len(u) - 1 /\ 1 \in 1 .. Len(u)
             /\ \A k \in 1 .. Len(Tail(u)) : k + 1 \in 1 .. Len(u) /\ Tail(u)[k] = u[k + 1]
  <2>1. Len(u) > 0
    BY <1>1, <1>3, EmptySeq
  <2>2. /\ Tail(u) \in Seq(S) /\ Len(Tail(u)) = Len(u) - 1
        /\ \A k \in 1 .. Len(Tail(u)) : Tail(u)[k] = u[k + 1]
    BY <1>3, HeadTailProperties
  <2>3. o # <<>>
    BY <1>1, <2>1
  <2>4. /\ Tail(o) \in Seq(S) /\ Len(Tail(o)) = Len(o) - 1 /\ Head(o) \in S
        /\ \A k \in 1 .. Len(Tail(o)) : Tail(o)[k] = o[k + 1]
    BY <1>1, <2>3, HeadTailProperties
  <2>5. Head(o) = u[1]
    <3>1. Head(o) = o[1] /\ 1 \in 1 .. Len(u)
      BY <1>1, <2>1, <2>3
    <3> QED BY <1>1, <3>1
  <2> DEFINE t == Tail(u)
             w == t \o v
  <2>6. /\ w \in Seq(S) /\ Len(w) = Len(t) + Len(v)
        /\ \A k \in 1 .. Len(t) : k \in 1 .. Len(w) /\ w[k] = t[k]
        /\ \A k \in 1 .. Len(v) : k + Len(t) \in 1 .. Len(w) /\ w[k + Len(t)] = v[k]
    <3>1. t \in Seq(S)
      BY <2>2
    <3> HIDE DEF t
    <3> QED BY <3>1, JoinIs
  <2>7. w = Tail(o)
    <3> DEFINE r == Tail(o)
    <3>1. r \in Seq(S) /\ Len(r) = Len(w)
      BY <1>1, <2>1, <2>2, <2>4, <2>6
    <3>2. ASSUME NEW k \in 1 .. Len(w) PROVE w[k] = r[k]
      <4>1. r[k] = o[k + 1]
        BY <2>4, <3>1
      <4>2. CASE k \in 1 .. Len(t)
        <5>1. w[k] = t[k] /\ t[k] = u[k + 1] /\ k + 1 \in 1 .. Len(u)
          BY <1>1, <2>2, <2>6, <4>2
        <5> QED BY <1>1, <4>1, <5>1
      <4>3. CASE k \notin 1 .. Len(t)
        <5>1. k - Len(t) \in 1 .. Len(v) /\ k = (k - Len(t)) + Len(t) /\ k + 1 = (k - Len(t)) + Len(u)
          BY <1>1, <2>1, <2>2, <2>6, <4>3
        <5>2. w[k] = v[k - Len(t)] /\ o[k + 1] = v[k - Len(t)]
          BY <1>1, <2>6, <5>1
        <5> QED BY <4>1, <5>2
      <4> QED BY <4>2, <4>3
    <3> HIDE DEF r, w
    <3> QED BY <2>6, <3>1, <3>2, SeqEqual DEF r
  <2>8. \A k \in 1 .. Len(Tail(u)) : k + 1 \in 1 .. Len(u) /\ Tail(u)[k] = u[k + 1]
    BY <1>1, <2>2
  <2> QED BY <1>1, <2>1, <2>2, <2>3, <2>4, <2>5, <2>7, <2>8
<1> QED BY <1>1, <1>2, <1>3

LEMMA SilentlyIs ==
  ASSUME server \in Servers, NEW mode \in {"ready", "skip", "copyin", "copyin_synced", "gone"},
         NEW a, a = Silently(mode)
  PROVE  /\ a.out = <<>> /\ a.server.mode = mode /\ a.server.tx = server.tx /\ a.server.by = server.by
         /\ a.server \in Servers /\ a.out \in Seq(Messages)
         /\ \A i \in Seq(Messages) : i \o a.out = i
         /\ \A f : Reported(f, a.out) = f
<1> DEFINE s == [server EXCEPT !.mode = mode]
<1>1. a.out = <<>> /\ a.server = s
  BY DEF Silently
<1>2. s \in Servers /\ s.mode = mode /\ s.tx = server.tx /\ s.by = server.by
  BY DEF Servers
<1>3. <<>> \in Seq(Messages) /\ ToSet(<<>>) = {}
  BY EmptySeq DEF ToSet
<1>4. \A i \in Seq(Messages) : i \o <<>> = i
  BY ConcatEmptySeq
<1>5. \A f : Reported(f, <<>>) = f
  BY <1>3 DEF Reported
<1> QED BY <1>1, <1>2, <1>3, <1>4, <1>5

LEMMA AnswersAreOfServers ==
  ASSUME server \in Servers, NEW d \in Sendables
  PROVE  /\ \A a \in ReadyAnswers(d) : a.server \in Servers
         /\ \A types, a : a \in Succeeds(d, types) => a.server \in Servers
         /\ \A types : Fails(d, types).server \in Servers
<1>1. server.tx \in Statuses
  BY DEF Servers
<1>2. ASSUME NEW out, NEW mode \in {"ready", "skip", "copyin"}, NEW tx \in Statuses, NEW by \in Sendables \cup {None},
             NEW a, Spoken(a, out, mode, tx, by)
      PROVE  a.server \in Servers
  BY <1>2 DEF Spoken, Servers
<1>3. ASSUME NEW types, NEW a \in Succeeds(d, types) PROVE a.server \in Servers
  <2>1. CASE BeginsCopy(types)
    <3>1. Spoken(a, Outs(d, types, server.tx), "copyin", server.tx, d)
      BY <1>1, <1>3, <2>1, SucceedsIs
    <3> QED BY <1>1, <1>2, <3>1
  <2>2. CASE ~ BeginsCopy(types)
    <3>1. PICK tx \in Statuses : Spoken(a, Outs(d, Ended(d, types), tx), "ready", tx, None)
      BY <1>1, <1>3, <2>2, SucceedsIs
    <3> QED BY <1>2, <3>1
  <2> QED BY <2>1, <2>2
<1>4. ASSUME NEW types PROVE Fails(d, types).server \in Servers
  <2> DEFINE a == Fails(d, types)
             mode == IF d.type \in ImplySync THEN "ready" ELSE "skip"
  <2>0. a = Fails(d, types)
    OBVIOUS
  <2> HIDE DEF a
  <2>1. PICK tx \in Statuses : Spoken(a, Outs(d, Ended(d, Append(types, "Error")), tx), mode, tx, None)
    BY <1>1, <2>0, FailsIs
  <2>2. mode \in {"ready", "skip", "copyin"}
    OBVIOUS
  <2> HIDE DEF mode
  <2> QED BY <1>2, <2>0, <2>1, <2>2
<1>5. ASSUME NEW a \in ReadyAnswers(d) PROVE a.server \in Servers
  <2>1. PICK types \in Results(d) :
           \/ a \in Succeeds(d, types)
           \/ /\ d.type # "Synchronize"
              /\ \E part \in Prefixes(types) \ {types} : a = Fails(d, part)
    BY <1>5, AnswersOf
  <2> QED BY <1>3, <1>4, <2>1
<1> QED BY <1>3, <1>4, <1>5

-----------------------------------------------------------------------------

\* What the server's reading of a message makes of a live transaction.
Served(x, i, o, a, f) ==
  /\ a.server \in Servers /\ a.out \in Seq(Messages)
  /\ Live(x, i \o a.out, Tail(o), a.server, Reported(f, a.out))

LEMMA ServesSilently ==
  ASSUME server \in Servers, NEW x, NEW i \in Seq(Messages), NEW o, NEW f,
         NEW mode \in {"ready", "skip", "copyin", "copyin_synced"}, NEW a, a = Silently(mode),
         NEW s, Going(x), Copied(x, i, s), Late(x, i, s), NEW e \in Places(x.commands), StandsAt(x, i, o, s, f, e),
         s.mode # "gone", mode \in CopyIn \/ s.mode \notin CopyIn,
         Working(x, i, Tail(o), a.server, e)
  PROVE  Served(x, i, o, a, f)
<1>1. /\ a.out = <<>> /\ a.server.mode = mode /\ a.server \in Servers /\ a.out \in Seq(Messages)
      /\ i \o a.out = i /\ Reported(f, a.out) = f
  BY SilentlyIs
<1>2. Copied(x, i, a.server)
  BY <1>1 DEF Copied
<1>3. Late(x, i, a.server)
  BY DEF Late
<1>4. Leads(x.commands, Place(x), i, e) /\ Known(x, i, a.server, f, e)
  BY <1>1 DEF StandsAt, Known
<1>5. Live(x, i, Tail(o), a.server, f)
  <2>1. StandsAt(x, i, Tail(o), a.server, f, e)
    BY <1>1, <1>4 DEF StandsAt
  <2> QED BY <1>2, <1>3, <2>1 DEF Live
<1> QED BY <1>1, <1>5 DEF Served

LEMMA LiveServesReady ==
  ASSUME server \in Servers, NEW x, NEW i \in Seq(Messages), NEW o, o # <<>>, NEW f,
         Going(x), Copied(x, i, server), Late(x, i, server),
         NEW e \in Places(x.commands), StandsAt(x, i, o, server, f, e),
         Answering(x, i, o, server, e), NEW a \in Answers(Head(o))
  PROVE  Served(x, i, o, a, f)
<1> DEFINE c == x.commands
           n == e.offset
           v == From(c, n)
<1>1. CommandsOf(c, x.number) /\ WellFormed(x)
  BY DEF Going, WellFormed
<1>2. c \in Seq([type : Answered, id : Ids]) /\ Len(c) \in Nat /\ n \in 1 .. Len(c) + 1 /\ e = At(n, 0)
      /\ c \in Seq(Sendables)
  <2>1. c \in Seq([type : Answered, id : Ids]) /\ Len(c) \in Nat
    BY <1>1 DEF CommandsOf
  <2>2. n \in 1 .. Len(c) + 1 /\ e = At(n, 0)
    BY DEF Places, At, Answering
  <2>3. c \in Seq(Sendables)
    BY ONLY <2>1, CommandsAreSendable
  <2> QED BY <2>1, <2>2, <2>3
<1>3. PICK u \in Seq(Sendables) : OnlyCopy(u) /\ o = u \o v
  BY DEF Answering
<1>4. /\ v \in Seq(Sendables)
      /\ n <= Len(c) => v # <<>> /\ Head(v) = c[n] /\ Tail(v) = From(c, n + 1)
      /\ n = Len(c) + 1 => v = <<>>
  <2> HIDE DEF n, c
  <2>1. c \in Seq(Sendables) /\ n \in 1 .. Len(c) + 1
    BY <1>2
  <2>2. /\ v \in Seq(Sendables)
        /\ n <= Len(c) => v # <<>> /\ Head(v) = c[n] /\ Tail(v) = From(c, n + 1)
    BY ONLY <2>1, FromIs
  <2>3. n = Len(c) + 1 => v = <<>>
    BY ONLY <2>1, FromIs
  <2> QED BY ONLY <2>2, <2>3
<1>5. server.mode = "ready"
  BY DEF Answering
<1> HIDE DEF v, n, c
<1>6. CASE u # <<>>
  <2>1. Head(o) = u[1] /\ Tail(o) = Tail(u) \o v /\ Tail(u) \in Seq(Sendables) /\ 1 \in 1 .. Len(u)
        /\ \A k \in 1 .. Len(Tail(u)) : k + 1 \in 1 .. Len(u) /\ Tail(u)[k] = u[k + 1]
    BY <1>3, <1>4, <1>6, HeadOfJoin
  <2>2. Head(o).type \in CopyWire
    BY <1>3, <2>1 DEF OnlyCopy
  <2>3. a = Silently("ready")
    BY <1>5, <2>2 DEF Answers, CopyWire, CopyIn
  <2>4. a.server.mode = "ready" /\ a.server.tx = server.tx
    BY <2>3, SilentlyIs
  <2>5. OnlyCopy(Tail(u))
    BY <1>3, <2>1 DEF OnlyCopy
  <2>6. Answering(x, i, Tail(o), a.server, e)
    BY <2>1, <2>4, <2>5 DEF Answering, v, n, c
  <2>7. Working(x, i, Tail(o), a.server, e)
    BY <2>6 DEF Working
  <2> QED BY <1>5, <2>3, <2>7, ServesSilently DEF CopyIn
<1>7. CASE u = <<>>
  <2>1. o = v
    BY <1>3, <1>4, <1>7, HeadOfJoin
  <2>2. n \in 1 .. Len(c) /\ Head(o) = c[n] /\ Tail(o) = From(c, n + 1)
    <3>1. n # Len(c) + 1
      BY <1>4, <2>1
    <3>2. n \in 1 .. Len(c)
      BY <1>2, <3>1
    <3> QED BY <1>4, <2>1, <3>2
  <2>3. c[n].type \notin {"Function", "Flush", "Disconnect"} \cup CopyWire
    BY <1>1, <2>2, CommandIs
  <2>4. a \in ReadyAnswers(c[n])
    BY <1>5, <2>2, <2>3 DEF Answers, CopyIn, CopyWire
  <2>5. x.state # "sent_from_stdin"
    BY <1>2, <2>2 DEF Answering, n, c
  <2>6. Heeds(x, i, server, f, At(n, 0))
    <3>1. ~ Begun(i)
      BY <1>5 DEF Copied, CopyIn
    <3> QED BY <1>2, <1>5, <2>2, <3>1 DEF Heeds, StandsAt, c, n
  <2>7. server.tx \in Statuses
    BY DEF Servers
  <2> DEFINE j == i \o a.out
  <2>8. Live(x, j, From(c, n + 1), a.server, Reported(f, a.out)) /\ a.out \in Seq(Messages)
    <3>1. j = i \o a.out /\ n \in 1 .. Len(x.commands) /\ a \in ReadyAnswers(x.commands[n])
      BY <2>2, <2>4 DEF c
    <3> HIDE DEF j
    <3>2. Live(x, j, From(x.commands, n + 1), a.server, Reported(f, a.out)) /\ a.out \in Seq(Messages)
      BY <2>5, <2>6, <2>7, <3>1, LiveAnswers
    <3> QED BY <3>2 DEF c
  <2>9. c[n] \in Sendables
    BY <1>2, <2>2, ElementOfSeq
  <2>10. a.server \in Servers
    BY <2>4, <2>9, AnswersAreOfServers
  <2> QED BY <2>2, <2>8, <2>10 DEF Served
<1> QED BY <1>6, <1>7

LEMMA AnswersWhileSkipping ==
  ASSUME server.mode = "skip", NEW d, d.type # "Disconnect"
  PROVE  Answers(d) = IF d.type = "Synchronize" THEN ReadyAnswers(d) ELSE {Silently("skip")}
BY DEF Answers, CopyIn

LEMMA LiveServesSkipping ==
  ASSUME server \in Servers, NEW x, NEW i \in Seq(Messages), NEW o, o # <<>>, NEW f,
         Going(x), Copied(x, i, server), Late(x, i, server),
         NEW e \in Places(x.commands), StandsAt(x, i, o, server, f, e),
         Skipping(x, o, server, e), NEW a \in Answers(Head(o))
  PROVE  Served(x, i, o, a, f)
<1> DEFINE c == x.commands
           n == Len(c)
           v == Unsent(x, << c[n] >>)
<1>1. CommandsOf(c, x.number) /\ WellFormed(x)
  BY DEF Going, WellFormed
<1>2. c \in Seq([type : Answered, id : Ids]) /\ n \in 1 .. Len(c) /\ e = At(n, 0) /\ c[n].type = "Synchronize"
      /\ e.offset <= Len(c) /\ n \in Nat /\ c[n] \in Sendables
  <2>1. c \in Seq([type : Answered, id : Ids]) /\ n \in 1 .. Len(c) /\ n \in Nat
    BY <1>1, LenProperties DEF CommandsOf
  <2>2. e = At(n, 0) /\ c[n].type = "Synchronize"
    BY DEF Skipping
  <2>3. c \in Seq(Sendables)
    BY ONLY <2>1, CommandsAreSendable
  <2>4. c[n] \in Sendables
    BY <2>1, <2>3, ElementOfSeq
  <2> QED BY <2>1, <2>2, <2>4 DEF At
<1>3. PICK u \in Seq(Sendables) :
        /\ \A k \in 1 .. Len(u) : u[k].type \notin {"Synchronize", "Disconnect"}
        /\ o = u \o v
  BY DEF Skipping
<1>4. v \in Seq(Sendables)
  BY <1>2, EmptySeq DEF Unsent
<1>5. server.mode = "skip"
  BY DEF Skipping
<1> HIDE DEF v, n, c
<1>6. CASE u # <<>>
  <2>1. Head(o) = u[1] /\ Tail(o) = Tail(u) \o v /\ Tail(u) \in Seq(Sendables) /\ 1 \in 1 .. Len(u)
        /\ \A k \in 1 .. Len(Tail(u)) : k + 1 \in 1 .. Len(u) /\ Tail(u)[k] = u[k + 1]
    BY <1>3, <1>4, <1>6, HeadOfJoin
  <2>2. Head(o).type \notin {"Synchronize", "Disconnect"}
    BY <1>3, <2>1
  <2>3. a = Silently("skip")
    BY <1>5, <2>2, AnswersWhileSkipping
  <2>4. a.server.mode = "skip" /\ a.server.tx = server.tx
    BY <2>3, SilentlyIs
  <2>5. \A k \in 1 .. Len(Tail(u)) : Tail(u)[k].type \notin {"Synchronize", "Disconnect"}
    BY <1>3, <2>1
  <2>6. Skipping(x, Tail(o), a.server, e)
    BY <2>1, <2>4, <2>5 DEF Skipping, v, n, c
  <2>7. Working(x, i, Tail(o), a.server, e)
    BY <2>6 DEF Working
  <2> QED BY <1>5, <2>3, <2>7, ServesSilently DEF CopyIn
<1>7. CASE u = <<>>
  <2>1. o = v
    BY <1>3, <1>4, <1>7, HeadOfJoin
  <2>2. x.state # "sent_from_stdin" /\ o = << c[n] >>
    BY <2>1 DEF v, Unsent
  <2>3. Head(o) = c[n] /\ Tail(o) = <<>>
    BY <1>2, <2>2
  <2>4. a \in ReadyAnswers(c[n])
    BY <1>2, <1>5, <2>3, AnswersWhileSkipping
  <2>6. Heeds(x, i, server, f, At(n, 0))
    <3>1. ~ Begun(i)
      BY <1>5 DEF Copied, CopyIn
    <3> QED BY <1>2, <1>5, <3>1 DEF Heeds, StandsAt, c, n
  <2>7. server.tx \in Statuses
    BY DEF Servers
  <2>5. Tail(o) = From(c, n + 1)
    BY <1>2, <2>3, FromBehind DEF n
  <2> DEFINE j == i \o a.out
  <2>8. Live(x, j, From(c, n + 1), a.server, Reported(f, a.out)) /\ a.out \in Seq(Messages)
    <3>1. j = i \o a.out /\ n \in 1 .. Len(x.commands) /\ a \in ReadyAnswers(x.commands[n])
      BY <1>2, <2>4 DEF c
    <3> HIDE DEF j
    <3>2. Live(x, j, From(x.commands, n + 1), a.server, Reported(f, a.out)) /\ a.out \in Seq(Messages)
      BY <2>2, <2>6, <2>7, <3>1, LiveAnswers
    <3> QED BY <3>2 DEF c
  <2>10. a.server \in Servers
    BY <1>2, <2>4, AnswersAreOfServers
  <2> QED BY <2>5, <2>8, <2>10 DEF Served
<1> QED BY <1>6, <1>7

-----------------------------------------------------------------------------

LEMMA AnswersWhileLoading ==
  ASSUME server.mode \in CopyIn, NEW d, d.type # "Disconnect"
  PROVE  /\ d.type = "Synchronize" => Answers(d) = {Silently("copyin_synced")}
         /\ d.type = "CopyData" => Answers(d) = {Silently(server.mode), Fails(server.by, <<>>)}
         /\ d.type = "CopyDone" =>
              Answers(d) = Succeeds(server.by, <<"Complete">>) \cup {Fails(server.by, <<>>)}
         /\ d.type = "CopyFail" => Answers(d) = {Fails(server.by, <<>>)}
<1>1. server.mode # "skip" /\ server.mode \in CopyIn
  BY DEF CopyIn
<1>2. ASSUME d.type = "Synchronize" PROVE Answers(d) = {Silently("copyin_synced")}
  BY <1>1, <1>2 DEF Answers
<1>3. ASSUME d.type = "CopyData" PROVE Answers(d) = {Silently(server.mode), Fails(server.by, <<>>)}
  BY <1>1, <1>3 DEF Answers
<1>4. ASSUME d.type = "CopyDone"
      PROVE  Answers(d) = Succeeds(server.by, <<"Complete">>) \cup {Fails(server.by, <<>>)}
  BY <1>1, <1>4 DEF Answers
<1>5. ASSUME d.type = "CopyFail" PROVE Answers(d) = {Fails(server.by, <<>>)}
  BY <1>1, <1>5 DEF Answers
<1> QED BY <1>2, <1>3, <1>4, <1>5

\* The Synchronize behind an Execute that begins a COPY is ignored.
LEMMA LiveServesOwed ==
  ASSUME server \in Servers, NEW x, NEW i \in Seq(Messages), NEW o, o # <<>>, NEW f,
         Going(x), Copied(x, i, server), Late(x, i, server),
         NEW e \in Places(x.commands), StandsAt(x, i, o, server, f, e),
         Loading(x, i, o, server, e), Begun(i) \/ Owed(server, x.commands, e) # <<>>,
         NEW a \in Answers(Head(o))
  PROVE  Served(x, i, o, a, f)
<1> DEFINE c == x.commands
           n == e.offset
           owed == Owed(server, c, e)
           sync == << c[Len(c)] >>
<1>1. CommandsOf(c, x.number) /\ c \in Seq([type : Answered, id : Ids])
  BY DEF Going, WellFormed, CommandsOf
<1>2. CopyPlace(c, e) /\ CopiesLast(c) /\ server.mode \in CopyIn /\ server.by = c[n]
  BY DEF Loading
<1>3. /\ n \in 1 .. Len(c) /\ c[n].type \in {"Query", "Execute"} /\ Len(c) \in Nat
      /\ c[n].type = "Query" => From(c, n + 1) = <<>>
      /\ c[n].type = "Execute" => c[Len(c)].type = "Synchronize" /\ From(c, n + 1) = sync
  BY <1>1, <1>2, CopyCommand
<1>4. owed # <<>>
  <2>1. CASE Begun(i)
    BY <2>1 DEF Loading
  <2> QED BY <2>1
<1>5. server.mode = "copyin" /\ owed = sync /\ c[Len(c)].type = "Synchronize" /\ From(c, n + 1) = sync
  BY <1>3, <1>4 DEF Owed
<1>6. c[Len(c)] \in Sendables
  <2>1. c \in Seq(Sendables)
    BY ONLY <1>1, CommandsAreSendable
  <2> QED BY <1>3, <2>1, ElementOfSeq
<1>7. /\ sync \in Seq(Sendables) /\ sync # <<>> /\ Head(sync) = c[Len(c)] /\ Tail(sync) = <<>> /\ sync[1] = c[Len(c)]
  BY <1>6
<1> HIDE DEF owed, sync, c, n
<1>8. ASSUME Head(o) = c[Len(c)], ASSUME NEW t, t.mode = "copyin_synced", t.by = server.by
                                  PROVE  Loading(x, i, Tail(o), t, e)
      PROVE  Served(x, i, o, a, f)
  <2>1. a = Silently("copyin_synced")
    BY <1>2, <1>5, <1>8, AnswersWhileLoading
  <2>2. a.server.mode = "copyin_synced" /\ a.server.by = server.by
    BY <2>1, SilentlyIs
  <2>3. Working(x, i, Tail(o), a.server, e)
    BY <1>8, <2>2 DEF Working
  <2> QED BY <1>2, <2>1, <2>3, ServesSilently DEF CopyIn
<1>9. CASE Begun(i)
  <2>1. o = sync
    BY <1>5, <1>9 DEF Loading, owed, c
  <2>2. ASSUME NEW t, t.mode = "copyin_synced", t.by = server.by PROVE Loading(x, i, Tail(o), t, e)
    BY <1>7, <1>9, <2>1, <2>2 DEF Loading, Owed, CopyIn
  <2> QED BY <1>7, <1>8, <2>1, <2>2
<1>10. CASE ~ Begun(i)
  <2>1. PICK u \in Seq(Sendables) : /\ OnlyCopy(u) /\ Closes(x, u)
                                    /\ o = owed \o (u \o Unsent(x, From(c, e.offset + 1)))
    BY <1>10 DEF Loading, Loads, owed, c
  <2> DEFINE w == u \o Unsent(x, From(c, e.offset + 1))
  <2>2. w \in Seq(Sendables)
    <3>1. Unsent(x, From(c, e.offset + 1)) \in Seq(Sendables)
      BY <1>5, <1>7, EmptySeq DEF Unsent, n
    <3> QED BY <3>1, ConcatProperties
  <2> HIDE DEF w
  <2>3. o = owed \o w
    BY <2>1 DEF w
  <2>4. Head(o) = c[Len(c)] /\ Tail(o) = Tail(sync) \o w
    BY <1>5, <1>7, <2>2, <2>3, HeadOfJoin
  <2>5. ASSUME NEW t, t.mode = "copyin_synced", t.by = server.by PROVE Loading(x, i, Tail(o), t, e)
    <3>1. Owed(t, c, e) = Tail(sync)
      BY <1>7, <2>5 DEF Owed
    <3>2. Loads(x, Tail(o), t, e)
      BY <2>1, <2>4, <3>1 DEF Loads, w, c
    <3> QED BY <1>10, <2>5, <3>2 DEF Loading, CopyIn
  <2> QED BY <1>8, <2>4, <2>5
<1> QED BY <1>9, <1>10

\* The data of the COPY and what ends it.
LEMMA LiveServesData ==
  ASSUME server \in Servers, NEW x, NEW i \in Seq(Messages), NEW o, o # <<>>, NEW f,
         Going(x), Copied(x, i, server), Late(x, i, server),
         NEW e \in Places(x.commands), StandsAt(x, i, o, server, f, e),
         Loading(x, i, o, server, e), ~ Begun(i), Owed(server, x.commands, e) = <<>>,
         NEW a \in Answers(Head(o))
  PROVE  Served(x, i, o, a, f)
<1> DEFINE c == x.commands
           n == e.offset
           v == From(c, n + 1)
           r == Unsent(x, v)
<1>1. CommandsOf(c, x.number) /\ c \in Seq([type : Answered, id : Ids])
  BY DEF Going, WellFormed, CommandsOf
<1>2. CopyPlace(c, e) /\ CopiesLast(c) /\ server.mode \in CopyIn /\ server.by = c[n] /\ Place(x) = e
  BY DEF Loading
<1>3. n \in 1 .. Len(c)
  BY <1>1, <1>2, CopyCommand
<1>4. v \in Seq(Sendables) /\ r \in Seq(Sendables)
  <2>1. v \in Seq(Sendables)
    BY <1>1, <1>3, Behind
  <2> QED BY <2>1, EmptySeq DEF Unsent
<1>5. PICK u \in Seq(Sendables) : OnlyCopy(u) /\ Closes(x, u) /\ o = <<>> \o (u \o r)
  BY DEF Loading, Loads
<1>6. c[n] \in Sendables
  <2>1. c \in Seq(Sendables)
    BY ONLY <1>1, CommandsAreSendable
  <2> QED BY <1>3, <2>1, ElementOfSeq
<1> HIDE DEF r, v, c, n
<1>7. o = u \o r
  <2>1. u \o r \in Seq(Sendables)
    BY <1>4, ConcatProperties
  <2> QED BY <1>5, <2>1, ConcatEmptySeq
<1>8. u # <<>>
  <2>1. SUFFICES ASSUME u = <<>> PROVE FALSE
    OBVIOUS
  <2>2. x.state = "sent_from_stdin"
    BY <1>5, <2>1 DEF Closes
  <2>3. o = r /\ r = <<>>
    BY <1>4, <1>7, <2>1, <2>2, HeadOfJoin DEF r, Unsent
  <2> QED BY <2>3
<1>9. /\ Head(o) = u[1] /\ Tail(o) = Tail(u) \o r /\ Tail(u) \in Seq(Sendables) /\ 1 \in 1 .. Len(u)
      /\ Len(u) \in Nat /\ Len(Tail(u)) = Len(u) - 1
      /\ \A k \in 1 .. Len(Tail(u)) : k + 1 \in 1 .. Len(u) /\ Tail(u)[k] = u[k + 1]
  BY <1>4, <1>7, <1>8, HeadOfJoin
<1>10. OnlyCopy(Tail(u)) /\ Head(o).type \in CopyWire
  BY <1>5, <1>9 DEF OnlyCopy
<1>11. Heeds(x, i, server, f, e) /\ n = e.offset
  <2>1. e.offset <= Len(x.commands) /\ server.mode # "gone"
    BY <1>2 DEF CopyPlace, CopyIn, c
  <2> QED BY <2>1 DEF Heeds, StandsAt, n
<1>12. server.tx \in Statuses
  BY DEF Servers
<1> DEFINE j == i \o a.out
<1>13. j = i \o a.out
  OBVIOUS
<1> HIDE DEF j
<1>14. CASE a = Fails(server.by, <<>>)
  <2>1. a = Fails(x.commands[n], <<>>)
    BY <1>2, <1>14 DEF c
  <2>2. CopyPlace(x.commands, e) /\ CopiesLast(x.commands) /\ (x.state = "sent_from_stdin" => x.offset = e.offset)
    BY <1>2 DEF c, Place, At
  <2>3. Live(x, j, Tail(u) \o Unsent(x, From(x.commands, n + 1)), a.server, Reported(f, a.out)) /\ a.out \in Seq(Messages)
    BY <1>9, <1>10, <1>11, <1>12, <1>13, <2>1, <2>2, LiveIsNotLoaded
  <2>4. Live(x, j, Tail(o), a.server, Reported(f, a.out))
    BY <1>9, <2>3 DEF r, v, c
  <2>5. a.server \in Servers
    BY <1>2, <1>6, <1>14, AnswersAreOfServers
  <2> QED BY <2>3, <2>4, <2>5 DEF Served, j
<1>15. CASE Head(o).type = "CopyData" /\ a = Silently(server.mode)
  <2>1. a.server.mode = server.mode /\ a.server.by = server.by
    BY <1>15, SilentlyIs DEF Servers
  <2>2. Closes(x, Tail(u))
    <3>1. CASE x.state = "sent_from_stdin"
      BY <1>5, <1>9, <3>1 DEF Closes
    <3>2. CASE x.state # "sent_from_stdin"
      <4>1. PICK k \in 1 .. Len(u) : u[k].type \in {"CopyDone", "CopyFail"}
        BY <1>5, <3>2 DEF Closes
      <4>2. k # 1
        BY <1>9, <1>15, <4>1
      <4>3. k - 1 \in 1 .. Len(Tail(u)) /\ k = (k - 1) + 1
        BY <1>9, <4>1, <4>2
      <4>4. Tail(u)[k - 1] = u[k]
        BY <1>9, <4>3
      <4> QED BY <3>2, <4>1, <4>3, <4>4 DEF Closes
    <3> QED BY <3>1, <3>2
  <2>3. Owed(a.server, c, e) = <<>>
    BY <2>1 DEF Owed, c
  <2>4. Tail(o) = <<>> \o (Tail(u) \o r)
    <3>1. Tail(u) \o r \in Seq(Sendables)
      BY <1>4, <1>9, ConcatProperties
    <3> QED BY <1>9, <3>1, ConcatEmptySeq
  <2>5. Loads(x, Tail(o), a.server, e)
    <3>1. Tail(u) \in Seq(Sendables) /\ OnlyCopy(Tail(u)) /\ Closes(x, Tail(u))
          /\ Tail(o) = Owed(a.server, x.commands, e) \o (Tail(u) \o Unsent(x, From(x.commands, e.offset + 1)))
      BY <1>9, <1>10, <2>2, <2>3, <2>4 DEF r, v, c, n
    <3> QED BY <3>1 DEF Loads
  <2>6. Loading(x, i, Tail(o), a.server, e)
    BY <2>1, <2>5 DEF Loading
  <2>7. Working(x, i, Tail(o), a.server, e)
    BY <2>6 DEF Working
  <2>8. server.mode \in {"ready", "skip", "copyin", "copyin_synced"} /\ server.mode # "gone"
    BY <1>2 DEF CopyIn
  <2> QED BY <1>2, <1>15, <2>7, <2>8, ServesSilently
<1>16. CASE Head(o).type = "CopyDone" /\ a \in Succeeds(server.by, <<"Complete">>)
  <2>1. a \in Succeeds(x.commands[n], <<"Complete">>)
    BY <1>2, <1>16 DEF c
  <2>2. CopyPlace(x.commands, e) /\ CopiesLast(x.commands) /\ x.state # "sent_from_stdin"
    BY <1>2, <1>5, <1>9, <1>16 DEF c, Closes
  <2>3. Live(x, j, Tail(u) \o From(x.commands, n + 1), a.server, Reported(f, a.out)) /\ a.out \in Seq(Messages)
    BY <1>9, <1>10, <1>11, <1>12, <1>13, <2>1, <2>2, LiveIsLoaded
  <2>4. Live(x, j, Tail(o), a.server, Reported(f, a.out))
    BY <1>9, <2>2, <2>3 DEF r, v, c, Unsent
  <2>5. a.server \in Servers
    BY <1>2, <1>6, <1>16, AnswersAreOfServers
  <2> QED BY <2>3, <2>4, <2>5 DEF Served, j
<1>17. \/ a = Fails(server.by, <<>>)
       \/ Head(o).type = "CopyData" /\ a = Silently(server.mode)
       \/ Head(o).type = "CopyDone" /\ a \in Succeeds(server.by, <<"Complete">>)
  <2>1. Head(o).type \in {"CopyData", "CopyDone", "CopyFail"}
    BY <1>10 DEF CopyWire
  <2> QED BY <1>2, <2>1, AnswersWhileLoading
<1> QED BY <1>14, <1>15, <1>16, <1>17

LEMMA LiveServes ==
  ASSUME server \in Servers, NEW x, NEW i \in Seq(Messages), NEW o, o # <<>>, NEW f,
         Live(x, i, o, server, f), server.mode # "gone", NEW a \in Answers(Head(o))
  PROVE  Served(x, i, o, a, f)
<1>1. Going(x) /\ Copied(x, i, server) /\ Late(x, i, server)
  BY DEF Live
<1>2. PICK e \in Places(x.commands) : StandsAt(x, i, o, server, f, e)
  BY DEF Live
<1>3. CASE Answering(x, i, o, server, e)
  BY <1>1, <1>2, <1>3, LiveServesReady
<1>4. CASE Skipping(x, o, server, e)
  BY <1>1, <1>2, <1>4, LiveServesSkipping
<1>5. CASE Loading(x, i, o, server, e)
  BY <1>1, <1>2, <1>5, LiveServesOwed, LiveServesData
<1> QED BY <1>2, <1>3, <1>4, <1>5 DEF StandsAt, Working

-----------------------------------------------------------------------------
(* More about live transactions.                                           *)

LEMMA QuietReads ==
  ASSUME NEW x \in Transactions, Going(x), x.state \in Receiving, Matched(x),
         NEW group \in Seq(Messages), group # <<>>, Quiet(group),
         NEW y, y = put(x.state, x, group).xact
  PROVE  y.state \in Receiving \/ (y.state = "Complete" /\ y.fatal = Fatal)
<1> DEFINE c == x.commands
           p == Place(x)
           k == put(x.state, x, group).count
<1>1. WellFormed(x) /\ CommandsOf(c, x.number) /\ p \in Places(c) /\ FastPlace(x) /\ Len(c) \in Nat
  BY LenProperties DEF Going, WellFormed, CommandsOf
<1>2. x.offset <= Len(c) /\ x.offset \in Nat
  <2>1. x.offset \in Nat
    BY TransactionsAre
  <2>2. ~ (x.offset > Len(c))
    BY DEF Going, Receiving
  <2> QED BY <1>1, <2>1, <2>2
<1>3. Leads(c, p, group, p)
  BY <1>1, LeadsQuietly
<1>4. PICK at : Track(c, p, group, at)
  BY <1>3 DEF Leads
<1>5. Taken(x, group, at, y, k)
  <2>1. /\ Taken(x, group, at, put(x.state, x, group).xact, put(x.state, x, group).count)
        /\ ~ put(x.state, x, group).raised
    BY ONLY <1>1, <1>2, <1>4, x \in Transactions, x.state \in Receiving, Matched(x),
            group \in Seq(Messages), group # <<>>, PutTakes
  <2> QED BY <2>1
<1>6. k \in 0 .. Len(group)
  BY <1>5 DEF Taken
<1>7. at[k] = p
  <2> HIDE DEF k
  <2> DEFINE part == SubSeq(group, 1, k)
  <2>1. Leads(c, p, part, at[k])
    BY <1>4, <1>6, TrackApart
  <2>2. part \in Seq(Messages) /\ Quiet(part)
    <3>1. Len(group) \in Nat /\ \A n \in 1 .. Len(group) : group[n] \in Messages
      BY LenProperties, ElementOfSeq
    <3>2. /\ part \in Seq(Messages) /\ Len(part) = IF 1 <= k THEN k - 1 + 1 ELSE 0
          /\ \A n \in 1 .. k - 1 + 1 : part[n] = group[1 + n - 1]
      BY <1>6, <3>1, SubSeqProperties
    <3> HIDE DEF part
    <3>3. ASSUME NEW n \in 1 .. Len(part) PROVE Aside(part[n])
      <4>1. n \in 1 .. k - 1 + 1 /\ 1 + n - 1 = n /\ n \in 1 .. Len(group)
        BY <1>6, <3>1, <3>2
      <4>2. part[n] = group[n]
        BY <3>2, <4>1
      <4> QED BY <4>1, <4>2 DEF Quiet
    <3> QED BY <3>2, <3>3 DEF Quiet
  <2> HIDE DEF part
  <2> QED BY <1>1, <2>1, <2>2, QuietStays
<1> HIDE DEF k
<1>8. CASE Lost(group, y, k)
  BY <1>8 DEF Lost
<1>9. CASE Went(x, group, at, y, k)
  <2>1. y.offset = x.offset /\ y.commands = c
    <3>1. y.commands = c
      BY <1>5 DEF Taken
    <3>2. Place(y) = at[k]
      BY <1>9 DEF Went
    <3>3. Place(y) = Place(x)
      BY <1>7, <3>2
    <3> DEFINE a == Place(y)
               b == Place(x)
    <3>4. a.offset = y.offset /\ b.offset = x.offset /\ a = b
      BY <3>3 DEF Place, At
    <3> HIDE DEF a, b
    <3>5. y.offset = x.offset
      BY <3>4
    <3> QED BY <3>1, <3>5
  <2>2. y.state # "Complete"
    BY <1>1, <1>2, <1>9, <2>1 DEF Went
  <2>3. y.state # "sent_from_stdin"
    <3>1. SUFFICES ASSUME y.state = "sent_from_stdin" PROVE FALSE
      OBVIOUS
    <3>2. PICK j \in 1 .. k : group[j].type = "CopyFromBegin"
      BY <1>9, <3>1 DEF Went
    <3>3. j \in 1 .. Len(group)
      BY <1>6, <3>2, LenProperties
    <3> QED BY <3>2, <3>3 DEF Quiet, Aside, IsAsync, AsynchronousMap
  <2> QED BY <1>9, <2>2, <2>3 DEF Went
<1> QED BY <1>5, <1>8, <1>9 DEF Taken

LEMMA LiveErrors ==
  ASSUME NEW x, NEW i, NEW o, NEW s, NEW f, Live(x, i, o, s, f),
         NEW k \in 1 .. Len(i), i[k].type = "Error", Len(i) \in Nat
  PROVE  i[k].of[1] = x.number
<1> DEFINE c == x.commands
<1>1. CommandsOf(c, x.number)
  BY DEF Live, Going, WellFormed
<1>2. PICK at, e : Track(c, Place(x), i, at) /\ at[Len(i)] = e
  BY DEF Live, StandsAt, Leads
<1>3. Moves(c, at[k - 1], i[k], at[k]) /\ at[k - 1] \in Places(c)
  <2>1. k - 1 \in 0 .. Len(i)
    OBVIOUS
  <2> QED BY <1>2, <2>1 DEF Track
<1>4. ~ Aside(i[k])
  BY DEF Aside, IsAsync, AsynchronousMap
<1>5. ~ Answers1(c, at[k - 1], i[k])
  BY <1>1, <1>3, AnswerGoes
<1>6. PICK n \in 1 .. Len(c) : i[k].of = c[n].id
  BY <1>3, <1>4, <1>5 DEF Moves
<1>7. c[n].id[1] = x.number
  BY <1>1, <1>6, CommandIs
<1> QED BY <1>6, <1>7

\* A transaction begun on a connection that is gone does without what has come.
LEMMA LiveForgets ==
  ASSUME NEW x, NEW i \in Seq(Messages), NEW o, NEW s, NEW f, Live(x, i, o, s, f), x.fatal = Fatal,
         NEW j \in Seq(Messages), Quiet(j)
  PROVE  Live(x, j, o, s, f)
<1>1. Going(x) /\ x.state \in Receiving /\ Quiet(i) /\ s.mode = "gone" /\ Place(x) \in Places(x.commands)
  BY DEF Live, Late, Going
<1>2. PICK e \in Places(x.commands) : StandsAt(x, i, o, s, f, e)
  BY DEF Live
<1>3. Leads(x.commands, Place(x), j, Place(x))
  BY <1>1, LeadsQuietly
<1>4. Copied(x, j, s) /\ Late(x, j, s)
  <2>1. \A k \in 1 .. Len(j) : j[k].type # "CopyFromBegin"
    BY DEF Quiet, Aside, IsAsync, AsynchronousMap
  <2> QED BY <1>1, <2>1 DEF Copied, Begun, Late
<1>5. StandsAt(x, j, o, s, f, Place(x))
  BY <1>1, <1>2, <1>3, NoneAssumption DEF StandsAt, Known, Fatal
<1> QED BY <1>1, <1>4, <1>5 DEF Live

LEMMA ReplyTypesAre ==
  ASSUME NEW d
  PROVE  \A types \in Results(d) : types \in Seq(ReplyTypes)
<1>1. QueryResults \cup ExecuteResults \subseteq Seq(ResultTypes)
  BY ProtocolAssumption DEF ResultTypes
<1>2. ASSUME NEW types \in Seq(ResultTypes) PROVE types \in Seq(ReplyTypes)
  <2>1. ResultTypes \subseteq ReplyTypes
    BY DEF ResultTypes, ReplyTypes
  <2>2. types \in [1 .. Len(types) -> ReplyTypes] /\ Len(types) \in Nat
    <3>1. /\ Len(types) \in Nat /\ DOMAIN types = 1 .. Len(types)
          /\ \A k \in 1 .. Len(types) : types[k] \in ResultTypes
          /\ types = [k \in 1 .. Len(types) |-> types[k]]
      BY LenProperties, ElementOfSeq
    <3>2. \A k \in 1 .. Len(types) : types[k] \in ReplyTypes
      BY <2>1, <3>1
    <3> QED BY <3>1, <3>2
  <2> QED BY <2>2, SeqDef
<1>3. <<>> \in Seq(ReplyTypes) /\ <<"ParseComplete">> \in Seq(ReplyTypes) /\ <<"BindComplete">> \in Seq(ReplyTypes)
      /\ <<"AttributeTypes", "TupleDescriptor">> \in Seq(ReplyTypes) /\ <<"AttributeTypes", "NoData">> \in Seq(ReplyTypes)
      /\ <<"CloseComplete">> \in Seq(ReplyTypes) /\ <<"FunctionResult">> \in Seq(ReplyTypes)
  BY DEF ReplyTypes, Replies
<1>4. CASE d.type = "Query"
  BY <1>1, <1>2, <1>4 DEF Results
<1>5. CASE d.type = "Execute"
  BY <1>1, <1>2, <1>5 DEF Results
<1>6. CASE d.type \notin {"Query", "Execute"}
  <2>1. CASE d.type \in {"Parse", "Bind", "Describe", "Close", "Function"}
    BY <1>3, <2>1 DEF Results
  <2>2. CASE d.type \notin {"Parse", "Bind", "Describe", "Close", "Function"}
    BY <1>3, <1>6, <2>2 DEF Results
  <2> QED BY <2>1, <2>2
<1> QED BY <1>4, <1>5, <1>6

\* Only the end of the server sends a FatalError.
LEMMA AnswersAreNotFatal ==
  ASSUME server \in Servers, NEW d, NEW a \in Answers(d), NEW k \in 1 .. Len(a.out), a.out \in Seq(Messages)
  PROVE  a.out[k].type # "FatalError"
<1>1. server.tx \in Statuses
  BY DEF Servers
<1>2. ASSUME NEW c, NEW types \in Seq(ReplyTypes), NEW tx, a.out = Outs(c, types, tx)
      PROVE  a.out[k].type # "FatalError"
  <2>1. DOMAIN types = 1 .. Len(types) /\ Len(types) \in Nat /\ Len(a.out) \in Nat /\ DOMAIN a.out = 1 .. Len(a.out)
    BY LenProperties
  <2>2. k \in DOMAIN types
    BY <1>2, <2>1 DEF Outs
  <2>3. types[k] \in ReplyTypes
    BY <2>1, <2>2, ElementOfSeq
  <2>4. a.out[k].type = types[k]
    BY <1>2, <2>2 DEF Outs, Reply
  <2> QED BY <2>3, <2>4 DEF ReplyTypes, Replies, AsynchronousMap
<1>3. ASSUME NEW c, NEW types \in Seq(ReplyTypes) PROVE Ended(c, types) \in Seq(ReplyTypes)
  <2>1. "Ready" \in ReplyTypes
    BY DEF ReplyTypes, Replies
  <2> QED BY <2>1, AppendProperties DEF Ended
<1>4. ASSUME NEW c, NEW types \in Seq(ReplyTypes), a \in Succeeds(c, types) PROVE a.out[k].type # "FatalError"
  <2>1. CASE BeginsCopy(types)
    <3>1. Spoken(a, Outs(c, types, server.tx), "copyin", server.tx, c)
      BY <1>1, <1>4, <2>1, SucceedsIs
    <3> QED BY <1>2, <3>1 DEF Spoken
  <2>2. CASE ~ BeginsCopy(types)
    <3>1. PICK tx \in Statuses : Spoken(a, Outs(c, Ended(c, types), tx), "ready", tx, None)
      BY <1>1, <1>4, <2>2, SucceedsIs
    <3> QED BY <1>2, <1>3, <3>1 DEF Spoken
  <2> QED BY <2>1, <2>2
<1>5. ASSUME NEW c, NEW types \in Seq(ReplyTypes), a = Fails(c, types) PROVE a.out[k].type # "FatalError"
  <2> DEFINE mode == IF c.type \in ImplySync THEN "ready" ELSE "skip"
  <2>1. PICK tx \in Statuses : Spoken(a, Outs(c, Ended(c, Append(types, "Error")), tx), mode, tx, None)
    BY <1>1, <1>5, FailsIs
  <2>2. Append(types, "Error") \in Seq(ReplyTypes)
    <3>1. "Error" \in ReplyTypes
      BY DEF ReplyTypes
    <3> QED BY <3>1, AppendProperties
  <2> QED BY <1>2, <1>3, <2>1, <2>2 DEF Spoken
<1>6. ASSUME NEW c, a \in ReadyAnswers(c) PROVE a.out[k].type # "FatalError"
  <2>1. PICK types \in Results(c) :
           \/ a \in Succeeds(c, types)
           \/ /\ c.type # "Synchronize"
              /\ \E part \in Prefixes(types) \ {types} : a = Fails(c, part)
    BY <1>6, AnswersOf
  <2>2. types \in Seq(ReplyTypes)
    BY ReplyTypesAre
  <2>3. ASSUME NEW part \in Prefixes(types) PROVE part \in Seq(ReplyTypes)
    <3>1. PICK n \in 0 .. Len(types) : part = SubSeq(types, 1, n)
      BY <2>3 DEF Prefixes
    <3>2. \A m \in 1 .. n : types[m] \in ReplyTypes
      BY <2>2, LenProperties, ElementOfSeq
    <3> QED BY <2>2, <3>1, <3>2, SubSeqProperties
  <2> QED BY <1>4, <1>5, <2>1, <2>2, <2>3
<1>7. <<>> \in Seq(ReplyTypes) /\ <<"Complete">> \in Seq(ReplyTypes)
  BY DEF ReplyTypes, Replies
<1>8. ASSUME NEW mode, a = Silently(mode) PROVE FALSE
  <2>1. a.out = <<>>
    BY <1>8 DEF Silently
  <2> QED BY <2>1
<1>9. \/ a \in ReadyAnswers(d) \/ (\E mode : a = Silently(mode))
      \/ a = Fails(server.by, <<>>) \/ a \in Succeeds(server.by, <<"Complete">>)
  <2>1. CASE d.type = "Disconnect"
    BY <2>1 DEF Answers
  <2>2. CASE d.type # "Disconnect" /\ server.mode = "skip"
    BY <2>2, AnswersWhileSkipping
  <2>3. CASE d.type # "Disconnect" /\ server.mode \in CopyIn
    <3>1. server.mode # "skip"
      BY <2>3 DEF CopyIn
    <3>2. CASE d.type \in {"Synchronize", "Flush"}
      BY <2>3, <3>1, <3>2 DEF Answers
    <3>3. CASE d.type \in {"CopyData", "CopyDone"}
      BY <2>3, <3>3, AnswersWhileLoading
    <3>4. CASE d.type \notin {"Synchronize", "Flush", "CopyData", "CopyDone"}
      BY <2>3, <3>1, <3>4 DEF Answers
    <3> QED BY <3>2, <3>3, <3>4
  <2>4. CASE d.type # "Disconnect" /\ server.mode \notin CopyIn \cup {"skip"}
    BY <2>4 DEF Answers
  <2> QED BY <2>1, <2>2, <2>3, <2>4
<1> QED BY <1>4, <1>5, <1>6, <1>7, <1>8, <1>9

-----------------------------------------------------------------------------
(* The batches, the groups that are read, and a server with nothing to do. *)

Commands(types, n) == [k \in DOMAIN types |-> [type |-> types[k], id |-> <<n, k>>]]

LEMMA FunIsSeq ==
  ASSUME NEW S, NEW n \in Nat, NEW s \in [1 .. n -> S]
  PROVE  s \in Seq(S)
BY SeqDef

LEMMA PushableIs ==
  ASSUME NEW types \in Seq(DOMAIN hook), Pushable(types), NEW n \in Nat,
         CopyBegins => \A k \in 1 .. Len(types) - 2 : types[k] # "Execute"
  PROVE  CommandsOf(Commands(types, n), n)
<1> DEFINE c == Commands(types, n)
<1>1. DOMAIN types = 1 .. Len(types) /\ Len(types) \in Nat
  BY LenProperties
<1>2. /\ Len(types) >= 1
      /\ \A k \in 1 .. Len(types) - 1 : types[k] \in Extended
      /\ types[Len(types)] \in {"Query", "Synchronize"}
      /\ types[Len(types)] = "Query" => Len(types) = 1
  <2>1. CASE types = <<"Query">>
    BY <2>1
  <2>2. CASE /\ types # <<>> /\ Last(types) = "Synchronize"
             /\ \A k \in 1 .. Len(types) - 1 : types[k] \in {"Parse", "Bind", "Describe", "Close", "Execute"}
    <3>1. Len(types) >= 1
      BY <1>1, <2>2, EmptySeq
    <3> QED BY <2>2, <3>1 DEF Last, Extended
  <2> QED BY <2>1, <2>2 DEF Pushable
<1>3. \A k \in 1 .. Len(types) : types[k] \in Answered
  BY <1>1, <1>2 DEF Answered
<1>4. c = [k \in 1 .. Len(types) |-> [type |-> types[k], id |-> <<n, k>>]]
  BY <1>1 DEF Commands
<1>5. \A k \in 1 .. Len(types) : [type |-> types[k], id |-> <<n, k>>] \in [type : Answered, id : Ids]
  <2> TAKE k \in 1 .. Len(types)
  <2>1. <<n, k>> \in Ids /\ types[k] \in Answered
    BY <1>1, <1>3 DEF Ids
  <2> QED BY <2>1
<1>6. c \in Seq([type : Answered, id : Ids]) /\ Len(c) = Len(types)
      /\ \A k \in 1 .. Len(types) : c[k].type = types[k] /\ c[k].id = <<n, k>>
  <2>1. c \in [1 .. Len(types) -> [type : Answered, id : Ids]]
    BY <1>4, <1>5
  <2>2. c \in Seq([type : Answered, id : Ids])
    <3> HIDE DEF c
    <3> QED BY <1>1, <2>1, FunIsSeq
  <2>3. Len(c) = Len(types)
    <3>1. DOMAIN c = 1 .. Len(types)
      BY <1>4
    <3> HIDE DEF c
    <3> QED BY <1>1, <2>2, <3>1, LenProperties
  <2> QED BY <1>4, <2>2, <2>3
<1> HIDE DEF c
<1>7. \A k \in 1 .. Len(c) : c[k].id = <<n, k>>
  BY <1>6
<1>8. \A k \in 1 .. Len(c) - 1 : c[k].type \in Extended
  <2> TAKE k \in 1 .. Len(c) - 1
  <2>1. k \in 1 .. Len(types) - 1 /\ k \in 1 .. Len(types)
    BY <1>1, <1>6
  <2> QED BY <1>2, <1>6, <2>1
<1>9. c[Len(c)].type \in {"Query", "Synchronize"} /\ (c[Len(c)].type = "Query" => Len(c) = 1) /\ Len(c) >= 1
  <2>1. Len(types) \in 1 .. Len(types)
    BY <1>1, <1>2
  <2> QED BY <1>2, <1>6, <2>1
<1>10. CopyBegins => \A k \in 1 .. Len(c) - 2 : c[k].type # "Execute"
  <2> SUFFICES ASSUME CopyBegins, NEW k \in 1 .. Len(c) - 2 PROVE c[k].type # "Execute"
    OBVIOUS
  <2>1. k \in 1 .. Len(types) - 2 /\ k \in 1 .. Len(types)
    BY <1>1, <1>6
  <2> QED BY <1>6, <2>1
<1> QED BY <1>6, <1>7, <1>8, <1>9, <1>10 DEF CommandsOf, c

\* What is pushed: a batch of the driver, a Synchronize of its own, the trash.
LEMMA BatchesAre ==
  ASSUME NEW n \in Nat
  PROVE  /\ \A types \in Batches : CommandsOf(Commands(types, n), n)
         /\ CommandsOf(Commands(<<"Synchronize">>, n), n)
         /\ \A g \in Nat : CommandsOf(Commands([k \in 1 .. g + 1 |-> IF k <= g THEN "Close" ELSE "Synchronize"], n), n)
<1>1. {"Close", "Synchronize", "Query"} \subseteq DOMAIN hook
  BY HookDomain
<1>2. ASSUME NEW types \in Batches PROVE CommandsOf(Commands(types, n), n)
  <2>1. Pushable(types) /\ types \in Seq(DOMAIN hook)
    BY ProtocolAssumption, ConnectionAssumption
  <2>2. CopyBegins => \A k \in 1 .. Len(types) - 2 : types[k] # "Execute"
    BY ProtocolAssumption DEF CopyBegins, CopiesAlone
  <2> QED BY <2>1, <2>2, PushableIs
<1>3. CommandsOf(Commands(<<"Synchronize">>, n), n)
  <2> DEFINE types == <<"Synchronize">>
  <2>1. types \in Seq(DOMAIN hook) /\ types # <<>> /\ Len(types) = 1 /\ Last(types) = "Synchronize"
    BY <1>1 DEF Last
  <2> HIDE DEF types
  <2>2. Pushable(types)
    BY <2>1 DEF Pushable
  <2>3. \A k \in 1 .. Len(types) - 2 : types[k] # "Execute"
    BY <2>1
  <2>4. CommandsOf(Commands(types, n), n)
    BY <2>1, <2>2, <2>3, PushableIs
  <2> QED BY <2>4 DEF types
<1>4. ASSUME NEW g \in Nat
      PROVE  CommandsOf(Commands([k \in 1 .. g + 1 |-> IF k <= g THEN "Close" ELSE "Synchronize"], n), n)
  <2> DEFINE types == [k \in 1 .. g + 1 |-> IF k <= g THEN "Close" ELSE "Synchronize"]
  <2>1. types \in [1 .. g + 1 -> DOMAIN hook]
    BY <1>1
  <2>2. types \in Seq(DOMAIN hook)
    BY <2>1, SeqDef
  <2>3. Len(types) = g + 1
    <3>1. DOMAIN types = 1 .. g + 1
      OBVIOUS
    <3> HIDE DEF types
    <3> QED BY <2>2, <3>1, LenProperties
  <2>4. \A k \in 1 .. g + 1 : types[k] = IF k <= g THEN "Close" ELSE "Synchronize"
    OBVIOUS
  <2> HIDE DEF types
  <2>5. Last(types) = "Synchronize" /\ types # <<>>
    <3>1. g + 1 \in 1 .. g + 1 /\ ~ (g + 1 <= g)
      OBVIOUS
    <3> QED BY <2>3, <2>4, <3>1, EmptySeq DEF Last
  <2>6. \A k \in 1 .. Len(types) - 1 : types[k] = "Close"
    <3> TAKE k \in 1 .. Len(types) - 1
    <3>1. k \in 1 .. g + 1 /\ k <= g
      BY <2>3
    <3> QED BY <2>4, <3>1
  <2>7. Pushable(types)
    BY <2>5, <2>6 DEF Pushable
  <2>8. \A k \in 1 .. Len(types) - 2 : types[k] # "Execute"
    <3> TAKE k \in 1 .. Len(types) - 2
    <3>1. k \in 1 .. Len(types) - 1
      BY <2>3
    <3> QED BY <2>6, <3>1
  <2>9. CommandsOf(Commands(types, n), n)
    BY <2>2, <2>7, <2>8, PushableIs
  <2> QED BY <2>9 DEF types
<1> QED BY <1>2, <1>3, <1>4

LEMMA NewIs ==
  ASSUME NEW n \in Nat, NEW c \in Seq([type : DOMAIN hook \cup {"Disconnect"}, id : Ids])
  PROVE  NewInstruction(n, c) \in Transactions
<1> DEFINE x == NewInstruction(n, c)
<1>1. /\ x.number \in Nat /\ x.commands \in Seq([type : DOMAIN hook \cup {"Disconnect"}, id : Ids])
      /\ x.offset \in Nat /\ x.step \in 0 .. 3 /\ x.completed \in Seq(Completions) /\ x.state \in States
      /\ x.messages \in MessageSets /\ x.reissued \in Seq([type : DOMAIN hook, id : Ids])
      /\ x.fatal \in {Fatal, NotFatal, None} /\ x.error_message \in ErrorMessages
      /\ x.last_ready \in Statuses \cup {None}
  BY EmptySeq DEF NewInstruction, States, Sending, MessageSets, ErrorMessages
<1>2. x \in [number : Nat, commands : Seq([type : DOMAIN hook \cup {"Disconnect"}, id : Ids]),
     offset : Nat, step : 0 .. 3, completed : Seq(Completions), state : States,
     messages : MessageSets, reissued : Seq([type : DOMAIN hook, id : Ids]),
     fatal : {Fatal, NotFatal, None}, error_message : ErrorMessages,
     last_ready : Statuses \cup {None}]
  BY <1>1 DEF NewInstruction
<1> QED BY <1>2, TransactionsAre

LEMMA ClosingIs ==
  ASSUME NEW n \in Nat
  PROVE  /\ NewClosing(n) \in Transactions /\ NewClosing(n).state = "closing_sent"
         /\ NewClosing(n).number = n /\ NewClosing(n).messages = "commands"
         /\ NewClosing(n).error_message = ClientError("operation on closed connection")
         /\ NewClosing(n).completed = <<>>
         /\ NewClosing(n).commands = << [type |-> "Disconnect", id |-> <<n, 1>>] >>
<1> DEFINE c == << [type |-> "Disconnect", id |-> <<n, 1>>] >>
           y == NewInstruction(n, c)
           x == [y EXCEPT !.state = "closing_sent",
                          !.error_message = ClientError("operation on closed connection")]
<1>1. NewClosing(n) = x
  BY DEF NewClosing
<1>2. c \in Seq([type : DOMAIN hook \cup {"Disconnect"}, id : Ids])
  BY DEF Ids
<1>3. y.number = n /\ y.messages = "commands" /\ y.completed = <<>> /\ y.commands = c
  BY DEF NewInstruction
<1> HIDE DEF c
<1>4. y \in Transactions
  BY <1>2, NewIs
<1>5. ClientError("operation on closed connection") \in ErrorMessages
  BY DEF ClientError, ErrorMessages, ClientErrors
<1>6. "closing_sent" \in States
  BY DEF States, Sending
<1> HIDE DEF y
<1>7. x \in Transactions /\ x.state = "closing_sent" /\ x.number = n /\ x.messages = "commands"
      /\ x.error_message = ClientError("operation on closed connection") /\ x.completed = <<>> /\ x.commands = c
  BY <1>3, <1>4, <1>5, <1>6, TransactionsAre
<1> QED BY <1>1, <1>7 DEF c

LEMMA JoinApart ==
  ASSUME NEW S, NEW s \in Seq(S), NEW t \in Seq(S), NEW j, j = s \o t
  PROVE  SubSeq(j, 1, Len(s)) = s /\ SubSeq(j, Len(s) + 1, Len(j)) = t
<1> DEFINE u == SubSeq(j, 1, Len(s))
           v == SubSeq(j, Len(s) + 1, Len(j))
<1>1. /\ j \in Seq(S) /\ Len(s) \in Nat /\ Len(t) \in Nat /\ Len(j) = Len(s) + Len(t)
      /\ \A k \in 1 .. Len(s) : k \in 1 .. Len(j) /\ j[k] = s[k]
      /\ \A k \in 1 .. Len(t) : k + Len(s) \in 1 .. Len(j) /\ j[k + Len(s)] = t[k]
  BY JoinIs
<1>2. \A k \in 1 .. Len(j) : j[k] \in S
  BY <1>1, ElementOfSeq
<1>3. /\ u \in Seq(S) /\ Len(u) = IF 1 <= Len(s) THEN Len(s) - 1 + 1 ELSE 0
      /\ \A k \in 1 .. Len(s) - 1 + 1 : u[k] = j[1 + k - 1]
  <2>1. \A k \in 1 .. Len(s) : j[k] \in S
    BY <1>1, <1>2
  <2> QED BY <1>1, <2>1, SubSeqProperties
<1>4. /\ v \in Seq(S) /\ Len(v) = Len(j) - Len(s)
      /\ \A k \in 1 .. Len(v) : v[k] = j[k + Len(s)]
  <2>1. Len(s) \in 0 .. Len(j)
    BY <1>1
  <2>2. v = SubSeq(j, Len(s) + 1, Len(j))
    OBVIOUS
  <2> HIDE DEF v
  <2> QED BY <1>1, <2>1, <2>2, ShorterIs
<1> HIDE DEF u, v
<1>5. u = s
  <2>1. Len(u) = Len(s)
    BY <1>1, <1>3
  <2>2. ASSUME NEW k \in 1 .. Len(u) PROVE u[k] = s[k]
    <3>1. k \in 1 .. Len(s) - 1 + 1 /\ 1 + k - 1 = k /\ k \in 1 .. Len(s)
      BY <1>1, <2>1
    <3>2. u[k] = j[k]
      BY <1>3, <3>1
    <3> QED BY <1>1, <3>1, <3>2
  <2> QED BY <1>3, <2>1, <2>2, SeqEqual
<1>6. v = t
  <2>1. Len(v) = Len(t)
    BY <1>1, <1>4
  <2>2. \A k \in 1 .. Len(v) : v[k] = t[k]
    BY <1>1, <1>4, <2>1
  <2> QED BY <1>4, <2>1, <2>2, SeqEqual
<1> QED BY <1>5, <1>6 DEF u, v

\* Reading a part of what has come.
LEMMA GroupsAre ==
  ASSUME read \in Seq(Messages), toClient \in Seq(Messages), NEW i, i = read \o toClient,
         NEW group \in Groups
  PROVE  /\ Len(group) \in 1 .. Len(i) /\ group = SubSeq(i, 1, Len(group)) /\ group \in Seq(Messages) /\ group # <<>>
         /\ Unread(group) \in Seq(Messages)
         /\ \A k \in 0 .. Len(group) :
              /\ SubSeq(group, k + 1, Len(group)) \in Seq(Messages)
              /\ SubSeq(group, k + 1, Len(group)) \o Unread(group) = SubSeq(i, k + 1, Len(i))
<1>1. /\ i \in Seq(Messages) /\ Len(read) \in Nat /\ Len(toClient) \in Nat /\ Len(i) = Len(read) + Len(toClient)
      /\ \A k \in 1 .. Len(read) : k \in 1 .. Len(i) /\ i[k] = read[k]
  BY JoinIs
<1>2. \E g \in 1 .. Len(i) : group = SubSeq(i, 1, g) /\ Unread(group) = SubSeq(i, g + 1, Len(i))
  <2>1. CASE read # <<>>
    <3>1. group = read /\ Unread(group) = toClient /\ Len(read) >= 1
      BY <1>1, <2>1, EmptySeq DEF Groups, Unread
    <3>2. read = SubSeq(i, 1, Len(read)) /\ toClient = SubSeq(i, Len(read) + 1, Len(i))
      BY JoinApart
    <3>3. Len(read) \in 1 .. Len(i)
      BY <1>1, <3>1
    <3> QED BY ONLY <3>1, <3>2, <3>3, Zenon
  <2>2. CASE read = <<>>
    <3>1. i = toClient
      BY <2>2, ConcatEmptySeq
    <3>2. PICK n \in 1 .. Len(toClient) : group = SubSeq(toClient, 1, n)
      BY <2>2 DEF Groups
    <3>3. Len(group) = n
      <4>1. \A k \in 1 .. n : toClient[k] \in Messages
        BY <1>1, ElementOfSeq
      <4> QED BY <1>1, <3>2, <4>1, SubSeqProperties
    <3>4. Unread(group) = SubSeq(i, n + 1, Len(i))
      BY <2>2, <3>1, <3>3 DEF Unread
    <3> QED BY <3>1, <3>2, <3>4
  <2> QED BY <2>1, <2>2
<1>3. PICK g \in 1 .. Len(i) : group = SubSeq(i, 1, g) /\ Unread(group) = SubSeq(i, g + 1, Len(i))
  BY <1>2
<1>4. Len(group) = g /\ group \in Seq(Messages) /\ group # <<>> /\ \A k \in 1 .. g : group[k] = i[k]
  <2>1. \A k \in 1 .. g : i[k] \in Messages
    BY <1>1, ElementOfSeq
  <2>2. /\ group \in Seq(Messages) /\ Len(group) = IF 1 <= g THEN g - 1 + 1 ELSE 0
        /\ \A k \in 1 .. g - 1 + 1 : group[k] = i[1 + k - 1]
    BY <1>1, <1>3, <2>1, SubSeqProperties
  <2>3. \A k \in 1 .. g : k \in 1 .. g - 1 + 1 /\ 1 + k - 1 = k
    OBVIOUS
  <2> QED BY <2>2, <2>3, EmptySeq
<1>5. Unread(group) \in Seq(Messages)
  <2>1. g \in 0 .. Len(i)
    BY <1>1
  <2> QED BY <1>1, <1>3, <2>1, ShorterIs
<1>6. ASSUME NEW k \in 0 .. Len(group)
      PROVE  /\ SubSeq(group, k + 1, Len(group)) \in Seq(Messages)
             /\ SubSeq(group, k + 1, Len(group)) \o Unread(group) = SubSeq(i, k + 1, Len(i))
  <2>1. SubSeq(group, k + 1, Len(group)) \in Seq(Messages)
    BY <1>4, ShorterIs
  <2>2. SubSeq(group, k + 1, g) = SubSeq(i, k + 1, g)
    <3> DEFINE s == SubSeq(group, k + 1, g)
               t == SubSeq(i, k + 1, g)
    <3>1. k + 1 \in Int /\ g \in Int /\ \A m \in k + 1 .. g : m \in 1 .. g /\ m \in 1 .. Len(i)
      BY <1>1, <1>4
    <3>2. /\ s \in Seq(Messages) /\ Len(s) = IF k + 1 <= g THEN g - (k + 1) + 1 ELSE 0
          /\ \A m \in 1 .. g - (k + 1) + 1 : s[m] = group[k + 1 + m - 1]
      <4>1. \A m \in k + 1 .. g : group[m] \in Messages
        BY <1>4, <3>1, ElementOfSeq
      <4> QED BY <3>1, <4>1, SubSeqProperties
    <3>3. /\ t \in Seq(Messages) /\ Len(t) = IF k + 1 <= g THEN g - (k + 1) + 1 ELSE 0
          /\ \A m \in 1 .. g - (k + 1) + 1 : t[m] = i[k + 1 + m - 1]
      <4>1. \A m \in k + 1 .. g : i[m] \in Messages
        BY <1>1, <3>1, ElementOfSeq
      <4> QED BY <3>1, <4>1, SubSeqProperties
    <3> HIDE DEF s, t
    <3>4. ASSUME NEW m \in 1 .. Len(s) PROVE s[m] = t[m]
      <4>1. m \in 1 .. g - (k + 1) + 1 /\ k + 1 + m - 1 \in 1 .. g
        BY <1>4, <3>2
      <4> QED BY <1>4, <3>2, <3>3, <4>1
    <3>5. s = t
      BY <3>2, <3>3, <3>4, SeqEqual
    <3> QED BY <3>5 DEF s, t
  <2>3. SubSeq(i, k + 1, g) \o SubSeq(i, g + 1, Len(i)) = SubSeq(i, k + 1, Len(i))
    <3>1. k + 1 \in 1 .. Len(i) + 1 /\ g \in k + 1 - 1 .. Len(i) /\ Len(i) \in g .. Len(i)
      BY <1>1, <1>4
    <3>2. i \in Seq(Messages)
      BY <1>1
    <3> DEFINE m == k + 1
    <3>3. m \in 1 .. Len(i) + 1 /\ g \in m - 1 .. Len(i) /\ Len(i) \in g .. Len(i)
      BY <3>1
    <3> HIDE DEF m
    <3>4. SubSeq(i, m, g) \o SubSeq(i, g + 1, Len(i)) = SubSeq(i, m, Len(i))
      BY ONLY <3>2, <3>3, ConcatAdjacentSubSeq
    <3> QED BY <3>4 DEF m
  <2> QED BY <1>3, <1>4, <2>1, <2>2, <2>3
<1> QED BY <1>3, <1>4, <1>5, <1>6

-----------------------------------------------------------------------------
(* The other transactions: pushed but not sent, dead, or none.             *)

Over(i, o, s) == s.mode = "gone" /\ i = <<>> /\ o = <<>>
Resting(o, s) ==
  s.mode = "gone" \/ (s.mode = "ready" /\ \A k \in 1 .. Len(o) : o[k].type \in CopyWire \cup {"Disconnect"})

Fresh(x, f) == x = NewInstruction(x.number, x.commands) /\ x.number \notin f /\ WellFormed(x)
Closing(x, f) == x = NewClosing(x.number) /\ x.number \notin f

LEMMA BrokenIs ==
  ASSUME NEW x \in Transactions, NEW text \in ClientErrors, NEW y, y = Broken(x, text)
  PROVE  /\ y \in Transactions /\ y.state = "Complete" /\ y.fatal = Fatal /\ y.number = x.number
         /\ y.commands = x.commands /\ Place(y) = Place(x) /\ y.offset = x.offset /\ y.messages = x.messages
         /\ y.last_ready = x.last_ready
         /\ Matched(x) => Matched(y)
<1>1. ClientError(text) \in ErrorMessages /\ ClientError(text).type # "Error"
  <2>1. ClientError(text) \in ErrorMessages
    BY DEF ClientError, ErrorMessages
  <2> QED BY <2>1 DEF ClientError
<1>2. "Complete" \in States /\ Fatal \in {Fatal, NotFatal, None}
  BY DEF States
<1> DEFINE e == ClientError(text)
<1> HIDE DEF e
<1>3. y = [x EXCEPT !.state = "Complete", !.fatal = Fatal, !.error_message = e]
  BY DEF Broken, e
<1>4. y \in Transactions
  BY <1>1, <1>2, <1>3, TransactionsAre DEF e
<1>5. /\ y.state = "Complete" /\ y.fatal = Fatal /\ y.number = x.number
      /\ y.commands = x.commands /\ y.step = x.step /\ y.offset = x.offset /\ y.messages = x.messages
      /\ y.last_ready = x.last_ready /\ y.error_message = e /\ y.completed = x.completed
  BY <1>3, TransactionsAre
<1> QED BY <1>1, <1>4, <1>5 DEF Place, Matched, e

LEMMA StandardSentIs ==
  ASSUME NEW x \in Transactions, NEW y, y = standard_sent(x)
  PROVE  /\ y \in Transactions /\ y.state = "standard_put" /\ y.messages = "none" /\ y.number = x.number
         /\ y.commands = x.commands /\ Place(y) = Place(x) /\ y.offset = x.offset /\ y.step = x.step
         /\ y.fatal = x.fatal
         /\ Matched(x) => Matched(y)
<1>1. "standard_put" \in States /\ "none" \in MessageSets
  BY DEF States, Receiving, MessageSets
<1>2. y = [x EXCEPT !.messages = "none", !.state = "standard_put"]
  BY DEF standard_sent
<1>3. y \in Transactions
  BY <1>1, <1>2, TransactionsAre
<1>4. /\ y.state = "standard_put" /\ y.messages = "none" /\ y.number = x.number
      /\ y.commands = x.commands /\ y.step = x.step /\ y.offset = x.offset /\ y.fatal = x.fatal
      /\ y.error_message = x.error_message /\ y.completed = x.completed
  BY <1>2, TransactionsAre
<1> QED BY <1>3, <1>4 DEF Place, Matched

LEMMA FreshIs ==
  ASSUME NEW x \in Transactions, NEW f, Fresh(x, f)
  PROVE  /\ x.state = "standard_sent" /\ x.messages = "commands" /\ Matched(x) /\ x.fatal = None
         /\ x.offset = 1 /\ Place(x) = At(1, 0) /\ Wire(x) = x.commands /\ x.commands \in Seq(Sendables)
<1>1. /\ x.state = "standard_sent" /\ x.messages = "commands" /\ x.fatal = None
      /\ x.offset = 1 /\ x.step = 0 /\ x.completed = <<>> /\ x.error_message = None
  <2> DEFINE n == x.number
             c == x.commands
  <2>1. x = NewInstruction(n, c)
    BY DEF Fresh
  <2> HIDE DEF n, c
  <2> QED BY <2>1 DEF NewInstruction
<1>2. x.commands \in Seq(Sendables)
  <2>1. x.commands \in Seq([type : Answered, id : Ids])
    BY DEF Fresh, WellFormed, CommandsOf
  <2> QED BY ONLY <2>1, CommandsAreSendable
<1>3. Wire(x) = x.commands
  BY <1>1 DEF Wire
<1>4. Matched(x)
  BY <1>1 DEF Matched
<1> QED BY <1>1, <1>2, <1>3, <1>4 DEF Place

\* It is sent, or the connection is broken.
LEMMA FreshIsSent ==
  ASSUME NEW x \in Transactions, NEW f, Fresh(x, f), NEW z \in Transactions, NEW y, y = standard_sent(z),
         NEW s, z = x \/ (s.mode = "gone" /\ \E text \in ClientErrors : z = Broken(x, text))
  PROVE  /\ Begins(y, s, f) /\ y \in Transactions /\ Matched(y) /\ y.number = x.number /\ y.commands = x.commands
         /\ y.state = "standard_put"
         /\ z = x => y.fatal = None
<1>1. /\ x.fatal = None /\ Matched(x) /\ x.offset = 1 /\ Place(x) = At(1, 0)
  BY FreshIs
<1>2. /\ z.number = x.number /\ z.commands = x.commands /\ z.offset = 1 /\ Place(z) = At(1, 0) /\ Matched(z)
  <2>1. CASE z = x
    BY <1>1, <2>1
  <2>2. CASE \E text \in ClientErrors : z = Broken(x, text)
    <3>1. PICK text \in ClientErrors : z = Broken(x, text)
      BY <2>2
    <3> QED BY <1>1, <3>1, BrokenIs
  <2> QED BY <2>1, <2>2
<1>3. /\ y \in Transactions /\ y.state = "standard_put" /\ y.messages = "none" /\ y.number = z.number
      /\ y.commands = z.commands /\ Place(y) = Place(z) /\ y.offset = z.offset /\ y.fatal = z.fatal /\ Matched(y)
  BY <1>2, StandardSentIs
<1>4. y.fatal = Fatal => s.mode = "gone"
  BY <1>1, <1>3, NoneAssumption DEF Fatal
<1>5. WellFormed(y) /\ y.number \notin f
  BY <1>2, <1>3 DEF Fresh, WellFormed
<1> QED BY <1>1, <1>2, <1>3, <1>4, <1>5 DEF Begins

\* A COPY FROM STDIN goes on.
LEMMA LiveIsSent ==
  ASSUME NEW x \in Transactions, NEW i, NEW o, NEW s, NEW f, Live(x, i, o, s, f), Matched(x),
         x.state = "sent_from_stdin", NEW y, y = sent_from_stdin(x)
  PROVE  /\ Wire(x) \in Seq(Sendables)
         /\ Live(y, i, IF s.mode = "gone" THEN o ELSE o \o Wire(x), s, f)
         /\ y \in Transactions /\ Matched(y) /\ y.number = x.number /\ y.state # "Complete"
<1>1. /\ CommandsOf(x.commands, x.number) /\ Len(x.commands) \in Nat
      /\ x.commands \in Seq([type : Answered, id : Ids])
      /\ Place(x) \in Places(x.commands) /\ x.offset \in Nat /\ Place(x).offset = x.offset
  BY LiveHas
<1>2. CopyPlace(x.commands, x) /\ CopiesLast(x.commands) /\ x.reissued = From(x.commands, x.offset + 1)
      /\ x.messages # "commands"
  BY DEF Live, Going
<1>3. x.offset \in 1 .. Len(x.commands)
  BY <1>1, <1>2, LiveHas DEF CopyPlace
<1>4. x.reissued \in Seq(Sendables)
  BY <1>1, <1>2, <1>3, Behind
<1>5. x.commands[x.offset].id \in Ids
  BY <1>1, <1>3, CommandIs
<1> DEFINE id == x.commands[x.offset].id
<1>6. ASSUME NEW type \in CopyWire PROVE [type |-> type, id |-> id] \in Sendables
  BY <1>5, <1>6 DEF Sendables
<1>7. x.messages \in {"none", "fail", "done", "chunk"}
  BY <1>2, TransactionsAre DEF MessageSets
<1>8. CASE x.messages \in {"done", "fail"}
  <2> DEFINE type == IF x.messages = "done" THEN "CopyDone" ELSE "CopyFail"
             m == [type |-> type, id |-> id]
  <2>1. m \in Sendables /\ m.type \in {"CopyDone", "CopyFail"}
    <3>1. type \in {"CopyDone", "CopyFail"} /\ type \in CopyWire
      BY DEF CopyWire
    <3> HIDE DEF type
    <3> QED BY <1>6, <3>1
  <2>2. Wire(x) = <<m>> \o x.reissued
    BY <1>8 DEF Wire
  <2>3. y = standard_sent(x)
    BY <1>8 DEF sent_from_stdin
  <2> HIDE DEF m
  <2>4. /\ y \in Transactions /\ y.state = "standard_put" /\ y.messages = "none" /\ y.number = x.number
        /\ y.commands = x.commands /\ Place(y) = Place(x) /\ y.offset = x.offset /\ y.step = x.step
        /\ y.fatal = x.fatal /\ Matched(y)
    BY <2>3, StandardSentIs
  <2>5. Sends(x, y, m, x.reissued)
    BY <1>2, <2>1, <2>4 DEF Sends
  <2>6. Live(y, i, IF s.mode = "gone" THEN o ELSE o \o (<<m>> \o x.reissued), s, f)
    BY <2>1, <2>5, LiveSends
  <2>7. Wire(x) \in Seq(Sendables)
    <3>1. <<m>> \in Seq(Sendables)
      BY <2>1
    <3> QED BY <1>4, <2>2, <3>1, ConcatProperties
  <2> QED BY <2>2, <2>4, <2>6, <2>7
<1>9. ASSUME x.messages \notin {"done", "fail"}
      PROVE  /\ y \in Transactions /\ y.state = x.state /\ y.messages = "fail" /\ y.number = x.number
             /\ y.commands = x.commands /\ Place(y) = Place(x) /\ y.offset = x.offset /\ y.step = x.step
             /\ y.fatal = x.fatal /\ y.reissued = x.reissued /\ y.last_ready = x.last_ready /\ Matched(y)
  <2>1. y = [x EXCEPT !.messages = "fail"]
    BY <1>9 DEF sent_from_stdin
  <2>2. "fail" \in MessageSets
    BY DEF MessageSets
  <2>3. y \in Transactions
    BY <2>1, <2>2, TransactionsAre
  <2>4. /\ y.state = x.state /\ y.messages = "fail" /\ y.number = x.number
        /\ y.commands = x.commands /\ y.step = x.step /\ y.offset = x.offset
        /\ y.fatal = x.fatal /\ y.reissued = x.reissued /\ y.last_ready = x.last_ready
        /\ y.error_message = x.error_message /\ y.completed = x.completed
    BY <2>1, TransactionsAre
  <2> QED BY <2>3, <2>4 DEF Place, Matched
<1>10. CASE x.messages = "chunk"
  <2> DEFINE m == [type |-> "CopyData", id |-> id]
  <2>1. m \in Sendables /\ m.type = "CopyData"
    BY <1>6 DEF CopyWire
  <2>2. Wire(x) = <<m>>
    BY <1>10 DEF Wire
  <2> HIDE DEF m
  <2>3. Sends(x, y, m, <<>>)
    BY <1>9, <1>10, <2>1 DEF Sends
  <2>4. <<m>> \o <<>> = <<m>> /\ <<m>> \in Seq(Sendables)
    BY <2>1
  <2>5. Live(y, i, IF s.mode = "gone" THEN o ELSE o \o (<<m>> \o <<>>), s, f)
    BY <2>1, <2>3, LiveSends
  <2> QED BY <1>9, <1>10, <2>2, <2>4, <2>5
<1>11. CASE x.messages = "none"
  <2>1. Wire(x) = <<>>
    BY <1>11 DEF Wire
  <2>2. Binds(x, y)
    BY <1>9, <1>11 DEF Binds, Place, At
  <2>3. Live(y, i, o, s, f)
    BY <2>2, LiveBinds
  <2> QED BY <1>9, <1>11, <2>1, <2>3
<1> QED BY <1>7, <1>8, <1>10, <1>11

-----------------------------------------------------------------------------

LEMMA TailIs ==
  ASSUME NEW S, NEW o \in Seq(S), o # <<>>
  PROVE  /\ Tail(o) \in Seq(S) /\ Head(o) = o[1] /\ Head(o) \in S /\ 1 \in 1 .. Len(o)
         /\ \A k \in 1 .. Len(Tail(o)) : k + 1 \in 1 .. Len(o) /\ Tail(o)[k] = o[k + 1]
<1>1. /\ Tail(o) \in Seq(S) /\ Len(Tail(o)) = Len(o) - 1 /\ Head(o) \in S
      /\ \A k \in 1 .. Len(Tail(o)) : Tail(o)[k] = o[k + 1]
  BY HeadTailProperties
<1>2. Len(o) \in Nat /\ Len(o) # 0
  BY LenProperties, EmptySeq
<1>3. Head(o) = o[1]
  OBVIOUS
<1> QED BY <1>1, <1>2, <1>3

LEMMA NothingIsQuiet ==
  ASSUME NEW i, Len(i) = 0
  PROVE  Quiet(i) /\ ~ Begun(i) /\ \A k \in 1 .. Len(i) : FALSE
<1>1. \A k \in 1 .. Len(i) : FALSE
  <2>1. \A k \in 1 .. 0 : FALSE
    OBVIOUS
  <2> QED BY <2>1
<1> QED BY <1>1 DEF Quiet, Begun

LEMMA GoesOn ==
  ASSUME NEW y, WellFormed(y), Place(y) \in Places(y.commands), y.state = "standard_put",
         ~ (y.offset > Len(y.commands)), y.messages # "commands"
  PROVE  Going(y)
BY DEF Going, Receiving, FastPlace

\* COPY data of a COPY that is over is ignored; a Disconnect ends the server.
LEMMA RestingServes ==
  ASSUME server \in Servers, server.mode # "gone", NEW o \in Seq(Sendables), o # <<>>, Resting(o, server),
         NEW a \in Answers(Head(o))
  PROVE  a.out = <<>> /\ a.server \in Servers /\ Resting(Tail(o), a.server)
<1>1. server.mode = "ready" /\ \A k \in 1 .. Len(o) : o[k].type \in CopyWire \cup {"Disconnect"}
  BY DEF Resting
<1>2. /\ Tail(o) \in Seq(Sendables) /\ Head(o) = o[1] /\ 1 \in 1 .. Len(o)
      /\ \A k \in 1 .. Len(Tail(o)) : k + 1 \in 1 .. Len(o) /\ Tail(o)[k] = o[k + 1]
  BY TailIs
<1>3. \A k \in 1 .. Len(Tail(o)) : Tail(o)[k].type \in CopyWire \cup {"Disconnect"}
  BY <1>1, <1>2
<1>4. Head(o).type \in CopyWire \cup {"Disconnect"}
  BY <1>1, <1>2
<1>5. CASE Head(o).type = "Disconnect"
  <2>1. a = Silently("gone")
    BY <1>5 DEF Answers
  <2> QED BY <2>1, SilentlyIs DEF Resting
<1>6. CASE Head(o).type \in CopyWire
  <2>1. a = Silently("ready")
    BY <1>1, <1>6 DEF Answers, CopyWire, CopyIn
  <2> QED BY <1>3, <2>1, SilentlyIs DEF Resting
<1> QED BY <1>4, <1>5, <1>6

LEMMA SettledServes ==
  ASSUME server \in Servers, server.mode # "gone", NEW i, NEW o \in Seq(Sendables), o # <<>>, Settled(i, o, server),
         NEW a \in Answers(Head(o))
  PROVE  /\ a.out = <<>> /\ a.server \in Servers /\ Settled(i, Tail(o), a.server)
         /\ a.server.mode = "ready" /\ server.mode = "ready" /\ a.server.tx = server.tx
<1>1. server.mode = "ready" /\ OnlyCopy(o) /\ Quiet(i)
  BY DEF Settled
<1>2. /\ Tail(o) \in Seq(Sendables) /\ Head(o) = o[1] /\ 1 \in 1 .. Len(o)
      /\ \A k \in 1 .. Len(Tail(o)) : k + 1 \in 1 .. Len(o) /\ Tail(o)[k] = o[k + 1]
  BY TailIs
<1>3. OnlyCopy(Tail(o)) /\ Head(o).type \in CopyWire
  BY <1>1, <1>2 DEF OnlyCopy
<1>4. a = Silently("ready")
  BY <1>1, <1>3 DEF Answers, CopyWire, CopyIn
<1> QED BY <1>1, <1>3, <1>4, SilentlyIs DEF Settled

LEMMA SettledRests ==
  ASSUME NEW i, NEW o, NEW s, Settled(i, o, s)
  PROVE  Resting(o, s) /\ Quiet(i)
BY DEF Settled, Resting, OnlyCopy

LEMMA OverIsSettled ==
  ASSUME NEW i, NEW o, NEW s, Over(i, o, s)
  PROVE  Settled(i, o, s) /\ Resting(o, s)
<1>1. Quiet(<<>>)
  BY EmptySeq DEF Quiet
<1> QED BY <1>1 DEF Over, Settled, Resting

\* step at the end of the stream.
ReadsNothing(x, s, f, r) ==
  /\ r.count = 0
  /\ ~ r.raised =>
       /\ r.xact \in Transactions /\ Matched(r.xact) /\ r.xact.number = x.number /\ r.xact.fatal = Fatal
       /\ r.xact.state = "Complete" \/ (r.xact.state \in Receiving /\ Live(r.xact, <<>>, <<>>, s, f))

LEMMA LiveReadsNothing ==
  ASSUME NEW x \in Transactions, NEW s, NEW f, Live(x, <<>>, <<>>, s, f), s.mode = "gone", Matched(x),
         x.state \in Receiving, NEW b, b = Broken(x, "unexpected EOF"),
         NEW r, r = put(x.state, b, <<>>)
  PROVE  ReadsNothing(x, s, f, r)
<1> DEFINE y == r.xact
<1>0. y = r.xact
  OBVIOUS
<1> HIDE DEF y
<1>1. "unexpected EOF" \in ClientErrors
  BY DEF ClientErrors
<1>2. /\ b \in Transactions /\ b.state = "Complete" /\ b.fatal = Fatal /\ b.number = x.number
      /\ b.commands = x.commands /\ Place(b) = Place(x) /\ b.offset = x.offset /\ b.messages = x.messages
      /\ Matched(b)
  <2>1. x \in Transactions /\ b = Broken(x, "unexpected EOF") /\ Matched(x)
    OBVIOUS
  <2> QED BY ONLY <1>1, <2>1, BrokenIs
<1>3. Going(x)
  BY DEF Live
<1>4. /\ CommandsOf(x.commands, x.number) /\ Len(x.commands) \in Nat
      /\ Place(x) \in Places(x.commands) /\ x.offset \in Nat /\ Place(x).offset = x.offset
  BY LiveHas
<1>5. x.offset <= Len(x.commands)
  <2>1. ~ (x.offset > Len(x.commands))
    BY <1>3 DEF Going, Receiving
  <2>2. x.offset \in Nat /\ Len(x.commands) \in Nat
    BY <1>4
  <2> QED BY ONLY <2>1, <2>2
<1>6. WellFormed(b) /\ Place(b) \in Places(b.commands) /\ b.offset <= Len(b.commands)
  BY <1>2, <1>4, <1>5 DEF WellFormed
<1>7. /\ r.count = 0
      /\ ~ r.raised =>
           /\ y \in Transactions /\ y.fatal = b.fatal /\ Matched(y)
           /\ y.state = b.state \/ y.state = "standard_put"
           /\ y.commands = b.commands /\ y.number = b.number
           /\ y.messages = b.messages /\ Place(y) = Place(b)
           /\ y.last_ready = b.last_ready
  BY <1>0, <1>2, <1>6, PutNothing
<1>8. ASSUME ~ r.raised, y.state = "standard_put" PROVE Live(y, <<>>, <<>>, s, f)
  <2>1. y.offset = x.offset /\ y.step = x.step
    BY <1>2, <1>7, <1>8 DEF Place, At
  <2>2. Going(y)
    <3>1. WellFormed(y) /\ Place(y) \in Places(y.commands)
      BY <1>2, <1>4, <1>7, <1>8 DEF WellFormed
    <3>2. y.state \in Receiving /\ y.state # "Complete" /\ ~ (y.offset > Len(y.commands)) /\ y.messages # "commands"
      BY <1>2, <1>3, <1>4, <1>5, <1>7, <1>8, <2>1 DEF Receiving, Going
    <3>3. y.state # "sent_from_stdin" /\ FastPlace(y)
      BY <1>8 DEF FastPlace
    <3> QED BY <3>1, <3>2, <3>3, <1>8, GoesOn
  <2>3. Quiet(<<>>) /\ ~ Begun(<<>>) /\ Copied(y, <<>>, s)
    <3> DEFINE i == <<>>
    <3>1. Len(i) = 0
      BY EmptySeq
    <3> HIDE DEF i
    <3>2. Quiet(i) /\ ~ Begun(i) /\ \A k \in 1 .. Len(i) : FALSE
      BY <3>1, NothingIsQuiet
    <3>3. Copied(y, i, s)
      BY <3>2 DEF Copied
    <3> QED BY <3>2, <3>3 DEF i
  <2>4. Late(y, <<>>, s)
    BY <1>8, <2>3 DEF Late, Receiving
  <2>5. StandsAt(y, <<>>, <<>>, s, f, Place(y))
    <3>1. Leads(y.commands, Place(y), <<>>, Place(y))
      BY <2>2, LeadsNowhere DEF Going
    <3>2. y.fatal # None
      BY <1>2, <1>7, <1>8, NoneAssumption DEF Fatal
    <3> QED BY <3>1, <3>2 DEF StandsAt, Known
  <2> QED BY <2>2, <2>3, <2>4, <2>5 DEF Live, Going
<1> QED BY <1>0, <1>2, <1>7, <1>8 DEF Receiving, ReadsNothing
=============================================================================
