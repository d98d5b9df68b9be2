-------------------------------- MODULE Messages --------------------------------
(***************************************************************************)
(* The wire format of protocol.element3: messages as records, as bytes,    *)
(* and parsed again.  A byte is a digit of base 16: a short number has one *)
(* (2 bytes in the code), a long one L (4 bytes), so that both take more   *)
(* than one byte's values and short examples suffice.  The codes of the    *)
(* types are no digits.  CancelRequest, NegotiateSSL and Startup, which    *)
(* have no type and are never read by a client, are left out.              *)
(***************************************************************************)
EXTENDS Common, Integers, Sequences, FiniteSets, SequencesExt

L == 2
Base == 16

\* structlib: numbers in network order, signed and unsigned.
Pack(n, width) == LET u == n % Base^width IN [i \in 1..width |-> (u \div Base^(width - i)) % Base]
Unpack(b) == IF Len(b) = 1 THEN b[1] ELSE b[1] * Base + b[2]
UnpackSigned(b) == IF Unpack(b) >= Base^Len(b) \div 2 THEN Unpack(b) - Base^Len(b) ELSE Unpack(b)
Ulong(n) == Pack(n, L)
Null == Pack(-1, L)

Behind(b, n) == SubSeq(b, n + 1, Len(b))
First(b, n) == SubSeq(b, 1, n)
Joined(s, Ser(_)) == LET upto[i \in 0..Len(s)] == IF i = 0 THEN <<>> ELSE upto[i - 1] \o Ser(s[i]) IN upto[Len(s)]

-----------------------------------------------------------------------------
(* Fields *)

\* pack_tuple_data and its inverse in a Tuple, a Bind and a Function.
SerializedAtt(x) == IF x = None THEN Null ELSE Ulong(Len(x)) \o x
PackTupleData(atts) == Joined(atts, SerializedAtt)

Column(c) == c.name \o <<0>> \o Ulong(c.relation) \o Pack(c.number, 1) \o Ulong(c.type)
                     \o Pack(c.typlen, 1) \o Pack(c.typmod, L) \o Pack(c.format, 1)
Field(p) == p[1] \o p[2]

Serialized(kind, v) ==
  CASE kind = "string"  -> v \o <<0>>
    [] kind = "byte"    -> v
    [] kind = "long"    -> Ulong(v)
    [] kind = "rest"    -> v
    [] kind = "longs"   -> Pack(Len(v), 1) \o Joined(v, Ulong)
    [] kind = "formats" -> Pack(Len(v), 1) \o v
    [] kind = "atts"    -> Pack(Len(v), 1) \o PackTupleData(v)
    [] kind = "att"     -> SerializedAtt(v)
    [] kind = "columns" -> Pack(Len(v), 1) \o Joined(v, Column)
    [] kind = "fields"  -> IF v = <<>> THEN <<0>> ELSE Tail(Joined(v, LAMBDA p : <<0>> \o Field(p))) \o <<0>>

\* Each returns the value and what is left of the data.
Eos(b) == CHOOSE i \in DOMAIN b : b[i] = 0 /\ \A j \in 1..(i - 1) : b[j] # 0
ToNul(b) == <<First(b, Eos(b) - 1), Behind(b, Eos(b))>>
AttOf(b) ==
  IF First(b, L) = Null THEN <<None, Behind(b, L)>>
  ELSE <<SubSeq(b, L + 1, L + Unpack(First(b, L))), Behind(b, L + Unpack(First(b, L)))>>
LongOf(b) == <<Unpack(First(b, L)), Behind(b, L)>>
ColumnOf(b) ==
  LET d == ToNul(b)[2] IN
  <<[name |-> ToNul(b)[1], relation |-> Unpack(First(d, L)), number |-> UnpackSigned(SubSeq(d, L + 1, L + 1)),
     type |-> Unpack(SubSeq(d, L + 2, 2 * L + 1)), typlen |-> UnpackSigned(SubSeq(d, 2 * L + 2, 2 * L + 2)),
     typmod |-> UnpackSigned(SubSeq(d, 2 * L + 3, 3 * L + 2)), format |-> UnpackSigned(SubSeq(d, 3 * L + 3, 3 * L + 3))],
    Behind(d, 3 * L + 3)>>
ItemOf(kind, b) == CASE kind = "longs" -> LongOf(b) [] kind = "atts" -> AttOf(b) [] kind = "columns" -> ColumnOf(b)
RECURSIVE Items(_, _, _)
Items(kind, n, b) ==
  IF n = 0 THEN <<<<>>, b>>
  ELSE LET one == ItemOf(kind, b)
           more == Items(kind, n - 1, one[2]) IN <<<<one[1]>> \o more[1], more[2]>>

\* split(b'\x00'): the pieces between the NULs.
Split(b) ==
  LET ends == {i \in 1..(Len(b) + 1) : i = Len(b) + 1 \/ b[i] = 0}
      nth(k) == CHOOSE i \in ends : Cardinality({j \in ends : j < i}) = k - 1 IN
  [k \in 1..Cardinality(ends) |-> SubSeq(b, (IF k = 1 THEN 0 ELSE nth(k - 1)) + 1, nth(k) - 1)]
FieldsOf(b) == LET s == SelectSeq(Split(b), LAMBDA x : x # <<>>) IN
               [i \in DOMAIN s |-> <<First(s[i], 1), Behind(s[i], 1)>>]

ParsedField(kind, b) ==
  CASE kind = "string"  -> ToNul(b)
    [] kind = "byte"    -> <<First(b, 1), Behind(b, 1)>>
    [] kind = "long"    -> LongOf(b)
    [] kind = "rest"    -> <<b, <<>>>>
    [] kind = "formats" -> <<SubSeq(b, 2, 1 + b[1]), Behind(b, 1 + b[1])>>
    [] kind = "att"     -> AttOf(b)
    [] kind \in {"longs", "atts", "columns"} -> Items(kind, b[1], Tail(b))
    [] kind = "fields"  -> <<FieldsOf(b), <<>>>>

-----------------------------------------------------------------------------
(* Messages: the fields of each type *)

Reports ==
  [Notify |-> <<"long", "string", "string">>, ShowOption |-> <<"string", "string">>, Complete |-> <<"string">>,
   ParseComplete |-> <<>>]
Statuses == [Ready |-> <<"byte">>, Error |-> <<"fields">>]
Results ==
  [FunctionResult |-> <<"att">>, AttributeTypes |-> <<"longs">>, TupleDescriptor |-> <<"columns">>, Tuple |-> <<"atts">>,
   KillInformation |-> <<"long", "long">>]
Starting == [Authentication |-> <<"long", "rest">>]
Requests ==
  [Synchronize |-> <<>>, Query |-> <<"string">>, Parse |-> <<"string", "string", "longs">>,
   Bind |-> <<"string", "string", "formats", "atts", "formats">>]
Commands ==
  [Execute |-> <<"string", "long">>, Describe |-> <<"byte", "string">>, Close |-> <<"byte", "string">>,
   Function |-> <<"long", "formats", "atts", "byte">>]
Copying ==
  [CopyToBegin |-> <<"byte", "formats">>, CopyFromBegin |-> <<"byte", "formats">>, CopyData |-> <<"rest">>,
   CopyFail |-> <<"string">>]

Layout == Reports @@ Statuses @@ Results @@ Starting @@ Requests @@ Commands @@ Copying
Codes ==
  [Notify |-> 65, ShowOption |-> 83, Complete |-> 67, ParseComplete |-> 49, Ready |-> 90, Error |-> 69,
   FunctionResult |-> 86, AttributeTypes |-> 116, TupleDescriptor |-> 84, Tuple |-> 68, KillInformation |-> 75,
   Authentication |-> 82, Query |-> 81, Parse |-> 80, Bind |-> 66, Execute |-> 69, Describe |-> 68, Close |-> 67,
   Function |-> 70, Synchronize |-> 83, CopyToBegin |-> 72, CopyFromBegin |-> 71, CopyData |-> 100, CopyFail |-> 102]
Code(t) == Codes[t]

Serialize(m) == Joined([i \in DOMAIN m.fields |-> <<Layout[m.type][i], m.fields[i]>>], LAMBDA f : Serialized(f[1], f[2]))

\* Message.bytes()
Bytes(m) == <<Code(m.type)>> \o Ulong(Len(Serialize(m)) + L) \o Serialize(m)

RECURSIVE Parse(_, _)
Parse(kinds, b) ==
  IF kinds = <<>> THEN <<>>
  ELSE LET field == ParsedField(kinds[1], b) IN <<field[1]>> \o Parse(Tail(kinds), field[2])
ParseBody(t, data) == [type |-> t, fields |-> Parse(Layout[t], data)]

\* The frames of a byte stream, and the beginning of one that is left.
Size(b) == Unpack(SubSeq(b, 2, 1 + L))
RECURSIVE Framed(_)
Framed(b) ==
  IF Len(b) < 1 + L \/ Len(b) < 1 + Size(b) THEN [messages |-> <<>>, rest |-> b]
  ELSE LET f == Framed(Behind(b, 1 + Size(b))) IN
       [f EXCEPT !.messages = <<[type |-> b[1], body |-> SubSeq(b, 2 + L, 1 + Size(b))]>> \o @]
===============================================================================
