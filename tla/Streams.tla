-------------------------------- MODULE Streams --------------------------------
(***************************************************************************)
(* Statement.chunks(), rows() and column() of driver/pq3.py: the streams   *)
(* of one connection.  A portal inside a transaction block and a WITH HOLD *)
(* cursor outside of one are read chunk by chunk, the next chunk requested *)
(* before the last one is returned; FetchAll takes the groups of messages  *)
(* of one protocol transaction as they arrive.  Any call completes what is *)
(* pending on the connection, whoever pushed it, and raises its error.     *)
(***************************************************************************)
EXTENDS Common, Integers, Sequences, FiniteSets

CONSTANTS
  Streams,    \* the streams: 1..n, made in this order
  ChunkSize,  \* MultiXactStream.chunksize
  MaxRows     \* bound: the rows of a result

\* The protocol transactions of streams, and none of them is None.
StreamXacts == [coming : SUBSET Nat, error : BOOLEAN, groups : Seq(SUBSET Nat), done : BOOLEAN, pushed : BOOLEAN]

ASSUME StreamsAssumption ==
  /\ ChunkSize \in Nat \ {0} /\ MaxRows \in Nat
  /\ None \notin Streams /\ None \notin {"inside", "outside", "single"} /\ None \notin StreamXacts

VARIABLES
  stream,     \* what each stream is, holds and has returned
  busy,       \* pq.xact: the stream whose protocol transaction is pending, or None
  block,      \* pq.state of the application's transaction: I, T or E
  blamed      \* streams of whose failure some caller was told

streamVars == <<stream, busy, block, blamed>>

\* xact: the protocol transaction (None: exhausted); coming, error: the answer on the wire; groups: x.completed.
Unmade == [kind |-> None, rows |-> 0, portal |-> 0, alive |-> FALSE, xact |-> None, out |-> <<>>, ended |-> FALSE]
Pushed(from, to, error) == [coming |-> from..to, error |-> error, groups |-> <<>>, done |-> FALSE, pushed |-> TRUE]
NeverPushed == [coming |-> {}, error |-> FALSE, groups |-> <<>>, done |-> FALSE, pushed |-> FALSE]

StreamsInit ==
  /\ stream = [s \in Streams |-> Unmade]
  /\ busy = None
  /\ block = "I"
  /\ blamed = {}

InOrder(rows) == [i \in 1..Cardinality(rows) |-> CHOOSE r \in rows : Cardinality({q \in rows : q < r}) = i - 1]

\* The groups that were not taken replaced by the last one.
ReceivedLast(x) == [x EXCEPT !.groups = IF x.coming = {} THEN @ ELSE <<x.coming>>, !.coming = {}, !.done = TRUE]
\* pq.complete(): everything that is coming is received.
Received(x) == [x EXCEPT !.groups = IF x.coming = {} THEN @ ELSE Append(@, x.coming), !.coming = {}, !.done = TRUE]
CompletePending(st) == IF busy = None THEN st ELSE [st EXCEPT ![busy].xact = IF @ = None THEN @ ELSE Received(@)]
PendingFails == busy # None /\ stream[busy].xact # None /\ stream[busy].xact.error
\* The server aborts the transaction block of a statement that fails.
AfterFailure == IF block = "T" THEN "E" ELSE block

\* What the server answers to an Execute, or a FETCH, of n rows: an error after some of them, in a failed
\* block, or when the portal died with its block.
Fetch(st, n) ==
  LET last == IF st.portal + n > st.rows THEN st.rows ELSE st.portal + n IN
  IF st.alive /\ block # "E"
    THEN {Pushed(st.portal + 1, last, FALSE)}
         \cup {Pushed(st.portal + 1, m, TRUE) : m \in {k \in st.portal..last : k < st.portal + n}}
    ELSE {Pushed(st.portal + 1, st.portal, TRUE)}

\* MultiXactInsideBlock._bind, _fetch; MultiXactOutsideBlock: DECLARE WITH HOLD, FETCH; FetchAll: all rows.
Kinds == IF block = "I" THEN {"outside", "single"} ELSE {"inside", "single"}
Quantity(kind) == IF kind = "single" THEN MaxRows + 1 ELSE ChunkSize

\* Output.__init__ and _init: _pq_push first completes what is pending and raises its error to this caller.
Open(s) ==
  /\ stream[s].kind = None /\ \A t \in Streams : t < s => stream[t].kind # None
  /\ IF PendingFails
       THEN stream' = CompletePending(stream) /\ busy' = None /\ blamed' = blamed \cup {busy} /\ block' = AfterFailure
       ELSE \E kind \in Kinds, n \in 0..MaxRows :
              LET made == [Unmade EXCEPT !.kind = kind, !.rows = n, !.alive = TRUE] IN
              \E x \in Fetch(made, Quantity(kind)) :
                /\ stream' = [CompletePending(stream) EXCEPT ![s] =
                     [made EXCEPT !.xact = x, !.portal = Cardinality(x.coming)]]
                /\ busy' = s
                /\ UNCHANGED <<block, blamed>>

\* Finished by its reader, or by the error raised to its reader.
Returns(s, st, rows) == [st EXCEPT !.out = @ \o InOrder(rows)]
Exhausted(st) == [st EXCEPT !.xact = None, !.ended = TRUE]
RaisedTo(s) == /\ stream' = CompletePending(stream) /\ busy' = None /\ blamed' = blamed \cup {s} /\ block' = AfterFailure

\* MultiXactStream.__next__
ChunkOf(x) == UNION {x.groups[i] : i \in DOMAIN x.groups}
NextChunk(s) ==
  LET mine == IF busy = s THEN [CompletePending(stream)[s] EXCEPT !.xact.done = TRUE] ELSE stream[s]
      chunk == ChunkOf(mine.xact) IN
  /\ stream[s].kind \in {"inside", "outside"} /\ stream[s].xact # None
  /\ IF busy = s /\ stream[s].xact.error THEN RaisedTo(s)
     ELSE IF Cardinality(chunk) = ChunkSize
       THEN \* there may be more: the next request goes out before this chunk is returned
            IF busy \notin {s, None} /\ PendingFails
              THEN /\ stream' = [CompletePending(stream) EXCEPT ![s].xact = NeverPushed]     \* this chunk is lost
                   /\ busy' = None /\ blamed' = blamed \cup {s, busy} /\ block' = AfterFailure
              ELSE \E x \in Fetch(mine, ChunkSize) :
                     /\ stream' = [CompletePending(stream) EXCEPT ![s] =
                          [Returns(s, mine, chunk) EXCEPT !.xact = x, !.portal = @ + Cardinality(x.coming)]]
                     /\ busy' = s
                     /\ UNCHANGED <<block, blamed>>
       ELSE /\ stream' = [stream EXCEPT ![s] = Exhausted(Returns(s, mine, chunk))]
            /\ busy' = IF busy = s THEN None ELSE busy
            /\ UNCHANGED <<block, blamed>>

\* FetchAll.__next__: steps until a group of messages or the end has come.
Step(s) ==
  /\ stream[s].kind = "single" /\ busy = s /\ stream[s].xact.groups = <<>>
  /\ LET x == stream[s].xact IN
     IF x.coming = {} THEN stream' = CompletePending(stream) /\ busy' = None
     ELSE \E n \in x.coming :
            /\ stream' = [stream EXCEPT ![s].xact.coming = {r \in @ : r > n},
                                        ![s].xact.groups = Append(@, {r \in x.coming : r <= n})]
            /\ UNCHANGED busy
  /\ UNCHANGED <<block, blamed>>
GroupTaken(s, st) == [Returns(s, st, Head(st.xact.groups)) EXCEPT !.xact.groups = Tail(@)]
NextGroup(s) ==
  LET x == stream[s].xact IN
  /\ stream[s].kind = "single" /\ x # None /\ (x.done \/ x.groups # <<>>)
  /\ IF x.done /\ x.error
       THEN blamed' = blamed \cup {s} /\ block' = AfterFailure /\ UNCHANGED <<stream, busy>>
     ELSE /\ stream' = [stream EXCEPT ![s] = IF x.groups = <<>> THEN Exhausted(@) ELSE GroupTaken(s, @)]
          /\ UNCHANGED <<busy, block, blamed>>

\* Any other call on the connection: it begins or ends the application's transaction, and portals with it.
OtherCall ==
  /\ IF PendingFails
       THEN stream' = CompletePending(stream) /\ blamed' = blamed \cup {busy} /\ block' = AfterFailure
       ELSE /\ block' = IF block = "I" THEN "T" ELSE "I"
            /\ stream' = [s \in Streams |-> [CompletePending(stream)[s] EXCEPT !.alive = @ /\ stream[s].kind # "inside"]]
            /\ UNCHANGED blamed
  /\ busy' = None

StreamsNext ==
  \/ \E s \in Streams : Open(s) \/ NextChunk(s) \/ Step(s) \/ NextGroup(s)
  \/ OtherCall

StreamsSpec == StreamsInit /\ [][StreamsNext]_streamVars

-----------------------------------------------------------------------------
(* Properties *)

\* Types: the pending protocol transaction is one of a stream that is not exhausted.
StreamsTypeOK ==
  /\ busy \in Streams \cup {None} /\ block \in {"I", "T", "E"} /\ blamed \subseteq Streams
  /\ busy # None => stream[busy].xact # None

\* A stream returns the rows of its result in order, each once; and it ends before the last of them only
\* if some caller was told that it failed.
StreamsComplete ==
  \A s \in Streams :
    /\ \A i \in DOMAIN stream[s].out : stream[s].out[i] = i
    /\ stream[s].ended => Len(stream[s].out) = stream[s].rows \/ s \in blamed
===============================================================================
