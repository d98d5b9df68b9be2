----------------------------- MODULE MessageBuffers -----------------------------
(***************************************************************************)
(* From cat_messages to pq_message_stream: a batch is serialised, arrives  *)
(* in pieces cut anywhere, and is read as messages again; by the C modules *)
(* (element3.c, buffer.c) or by their Python twins (element3.py,           *)
(* pbuffer.py).  getvalue() and truncate() hand the bytes to copyman, and  *)
(* write() brings them back.                                               *)
(***************************************************************************)
EXTENDS Messages

CONSTANTS
  Batches,     \* sequences of [class, ob]: "bytes" and "tuple" objects and "message"s
  Block,       \* pbuffer.py: _block
  MaxWrites    \* bound: pieces a batch arrives in

VARIABLES
  impl,        \* "c" or "python"
  batch,       \* what was sent
  sent, ends,  \* the messages of it, and where each ends in the bytes
  input,       \* the bytes that have not arrived
  buffer,      \* c: chunks and the offset into the first; python: _strio and _start
  delivered,   \* what has been read, parsed by the classes of element3
  writes
bufferVars == <<impl, batch, sent, ends, input, buffer, delivered, writes>>

-----------------------------------------------------------------------------
(* cat_messages *)

Message(item) == CASE item.class = "bytes" -> [type |-> "CopyData", fields |-> <<item.ob>>]
                   [] item.class = "tuple" -> [type |-> "Tuple", fields |-> <<item.ob>>]
                   [] item.class = "message" -> item.ob

\* The C function takes the objects of one class that follow one another together, and allocates for them first.
RunFrom(items) ==
  IF items[1].class = "message" THEN 1
  ELSE CHOOSE j \in DOMAIN items : /\ \A i \in 1..j : items[i].class = items[1].class
                                   /\ j < Len(items) => items[j + 1].class # items[1].class
SumOf(s, Of(_)) == FoldLeft(LAMBDA n, x : n + Of(x), 0, s)
AttSize(x) == IF x = None THEN 0 ELSE Len(x)
Allocated(run) ==
  CASE run[1].class = "bytes" -> SumOf(run, LAMBDA x : Len(x.ob)) + (1 + L) * Len(run)
    [] run[1].class = "tuple" -> SumOf(run, LAMBDA x : Len(x.ob) * L + SumOf(x.ob, AttSize)) + (1 + L + 1) * Len(run)
    [] run[1].class = "message" -> 1 + L + Len(Serialize(run[1].ob))
Unwritten(n) == [i \in 1..n |-> "unwritten"]
Filled(data, size) == First(data \o Unwritten(size), size)
RECURSIVE CatMessages(_)
CatMessages(items) ==
  IF items = <<>> THEN <<>>
  ELSE LET run == First(items, RunFrom(items)) IN
       Filled(Joined(run, LAMBDA x : Bytes(Message(x))), Allocated(run)) \o CatMessages(Behind(items, Len(run)))
PyCatMessages(items) == Joined(items, LAMBDA x : Bytes(Message(x)))

-----------------------------------------------------------------------------
(* buffer.c: a place is a list of chunks and an offset into the first *)

Empty == [list |-> <<>>, offset |-> 0]
Left(p) == Behind(FlattenSeq(p.list), p.offset)
Memcpy(p, amount) == First(Left(p), IF amount < Len(Left(p)) THEN amount ELSE Len(Left(p)))
AtLeast(p, amount) == Len(Left(p)) >= amount
Upto(p, k) == Len(FlattenSeq(First(p.list, k)))
PSeek(p, amount) ==
  IF p.list = <<>> THEN p
  ELSE LET target == p.offset + amount
           k == CHOOSE k \in 0..Len(p.list) : Upto(p, k) <= target /\ (k < Len(p.list) => Upto(p, k + 1) > target) IN
       [list |-> Behind(p.list, k), offset |-> IF k = Len(p.list) THEN 0 ELSE target - Upto(p, k)]
MsgLength(header) == Unpack(Tail(header)) - L

\* p_build_tuple(): the message at the place, and the place behind it.
HasOne(p) == AtLeast(p, 1 + L) /\ AtLeast(PSeek(p, 1 + L), MsgLength(Memcpy(p, 1 + L)))
BuildTuple(p) ==
  LET header == Memcpy(p, 1 + L)
      body == PSeek(p, 1 + L) IN
  [message |-> <<header[1], Memcpy(body, MsgLength(header))>>, place |-> PSeek(body, MsgLength(header))]
RECURSIVE PLength(_)
PLength(p) == IF HasOne(p) THEN 1 + PLength(BuildTuple(p).place) ELSE 0
RECURSIVE PRead(_, _)
PRead(p, count) == IF count = 0 THEN [messages |-> <<>>, place |-> p]
                   ELSE LET one == BuildTuple(p)
                            more == PRead(one.place, count - 1) IN
                        [more EXCEPT !.messages = <<one.message>> \o @]
PWrite(p, data) == IF data = <<>> THEN p ELSE [p EXCEPT !.list = Append(@, data)]

-----------------------------------------------------------------------------
(* pbuffer.py: a BytesIO and the start of the first message in it *)

PyEmpty == [strio |-> <<>>, start |-> 0]
Limit == Block * 4

\* _rtruncate(): the rest is copied to the beginning block by block, and the file cut.
RECURSIVE CopyDown(_, _, _)
CopyDown(strio, to, from) ==
  LET data == SubSeq(strio, from + 1, IF from + Block < Len(strio) THEN from + Block ELSE Len(strio))
      copied == First(strio, to) \o data \o Behind(strio, to + Len(data)) IN
  IF Len(data) # Block THEN copied ELSE CopyDown(copied, to + Block, from + Len(data))
\* The file not cut.
RtruncateUncut(strio, amt) == IF Len(strio) = amt THEN <<>> ELSE CopyDown(strio, 0, amt)
Rtruncate(strio, amt) == IF Len(strio) = amt THEN <<>> ELSE First(CopyDown(strio, 0, amt), Len(strio) - amt)
Tidy(m) == IF m.start > Limit THEN [strio |-> Rtruncate(m.strio, m.start), start |-> 0] ELSE m

Rest(m) == Behind(m.strio, m.start)
PyHasMessage(m) == Len(Rest(m)) >= 1 + L /\ Len(m.strio) - m.start >= Size(Rest(m)) + 1
RECURSIVE PyRead(_, _)
PyRead(m, num) ==
  IF num = 0 \/ ~PyHasMessage(m) THEN [messages |-> <<>>, buffer |-> m]
  ELSE LET body == SubSeq(Rest(m), 2 + L, 1 + Size(Rest(m)))
           more == PyRead([m EXCEPT !.start = @ + 1 + L + Len(body)], num - 1) IN
       [more EXCEPT !.messages = <<<<Rest(m)[1], body>>>> \o @]
PyWrite(m, data) == [m EXCEPT !.strio = @ \o data]

-----------------------------------------------------------------------------
(* The stream *)

BufferInit ==
  /\ impl \in {"c", "python"} /\ batch \in Batches
  /\ IF impl = "c" THEN input = CatMessages(batch) /\ buffer = Empty
                   ELSE input = PyCatMessages(batch) /\ buffer = PyEmpty
  /\ sent = [i \in DOMAIN batch |-> Message(batch[i])]
  /\ ends = [i \in DOMAIN batch |-> Len(Joined(First(sent, i), Bytes))]
  /\ delivered = <<>> /\ writes = 0

Written(b, data) == IF impl = "c" THEN PWrite(b, data) ELSE PyWrite(b, data)
GetValue(b) == IF impl = "c" THEN Left(b) ELSE Rest(b)

Write ==
  /\ writes < MaxWrites /\ input # <<>>
  /\ \E n \in 1..Len(input) : /\ writes = MaxWrites - 1 => n = Len(input)
                              /\ buffer' = Written(buffer, First(input, n)) /\ input' = Behind(input, n)
  /\ writes' = writes + 1
  /\ UNCHANGED <<impl, batch, sent, ends, delivered>>

\* read() and next_message(); the caller knows which types may come, and parses what it is given.
TypeOf(code) == CHOOSE t \in {sent[i].type : i \in DOMAIN sent} : Code(t) = code
Parsed(taken) == [i \in DOMAIN taken |-> ParseBody(TypeOf(taken[i][1]), taken[i][2])]
Take(num) ==
  /\ IF impl = "c" THEN LET r == PRead(buffer, IF num < PLength(buffer) THEN num ELSE PLength(buffer)) IN
                        buffer' = r.place /\ delivered' = delivered \o Parsed(r.messages)
                   ELSE LET r == PyRead(Tidy(buffer), num) IN
                        buffer' = r.buffer /\ delivered' = delivered \o Parsed(r.messages)
  /\ UNCHANGED <<impl, batch, sent, ends, input, writes>>
ReadStream == Take(Len(batch))
NextMessage == Take(1)

\* getvalue() and truncate(); and what copyman did not use is written back.
HandOver ==
  /\ buffer' = Written(IF impl = "c" THEN Empty ELSE PyEmpty, GetValue(buffer))
  /\ UNCHANGED <<impl, batch, sent, ends, input, delivered, writes>>

BufferNext == Write \/ ReadStream \/ NextMessage \/ HandOver
BufferSpec == BufferInit /\ [][BufferNext]_bufferVars

-----------------------------------------------------------------------------
(* Properties *)

\* Types: the implementation and the batch of messages do not change.
BufferTypeOK == impl \in {"c", "python"} /\ batch \in Batches /\ writes \in 0..MaxWrites

Arrived == Cardinality({i \in DOMAIN ends : ends[i] <= ends[Len(ends)] - Len(input)})

\* However a batch is cut into pieces, and whichever implementation serialises and buffers it, its reader is given
\* the messages that were sent, in order, each once and as it was before (MessageStream).
Stream == INSTANCE MessageStream WITH messages <- sent, complete <- Arrived, given <- delivered
\* Every write and read is a step of that specification.
DeliversWhatWasSent == Stream!StreamSpec
===============================================================================
