------------------------------ MODULE DriverProofs ------------------------------
(***************************************************************************)
(* Theorems about the parts of the driver that keep no state in common:    *)
(* each part has a section, which begins with the invariant it needs.      *)
(***************************************************************************)
EXTENDS Cursors, SettingsCache, Establish, ClusterControl, Temporal, ALocks, InductionLemmas, SequenceTheorems

-----------------------------------------------------------------------------
(* Cursors                                                                 *)
(*                                                                         *)
(* read() and seek() implement the abstract cursor for any number of rows, *)
(* and any calls of them: every step of the detailed specification is a    *)
(* step of ScrollableCursor under the mapping Mirror, or leaves its        *)
(* variables alone.  The mapping needs only that the server's position is  *)
(* in its range.                                                           *)

InRange == direction \in BOOLEAN /\ position \in 0..(N + 1)

\* The abstract place, and the rows of a read as the abstract cursor names them.
PlaceOf(d, p) == IF d THEN p ELSE N + 1 - p
RowsNamed(d, rows) == IF d THEN rows ELSE [i \in DOMAIN rows |-> N + 1 - rows[i]]

-----------------------------------------------------------------------------
(* The server's commands *)

LEMMA MoveForward ==
  ASSUME NEW p \in 0..(N + 1), NEW n \in Nat \cup {All}
  PROVE  /\ Move(p, "FORWARD", n) = Mirror!Onward(p, n)
         /\ Move(p, "FORWARD", n) \in 0..(N + 1)
         /\ N + 1 - Move(p, "FORWARD", n) = Mirror!Back(N + 1 - p, n)
  BY RowsAssumption DEF Move, Within, Mirror!Onward, Mirror!Back, Mirror!Clamp

LEMMA MoveBackward ==
  ASSUME NEW p \in 0..(N + 1), NEW n \in Nat \cup {All}
  PROVE  /\ Move(p, "BACKWARD", n) = Mirror!Back(p, n)
         /\ Move(p, "BACKWARD", n) \in 0..(N + 1)
         /\ N + 1 - Move(p, "BACKWARD", n) = Mirror!Onward(N + 1 - p, n)
  BY RowsAssumption DEF Move, Within, Mirror!Onward, Mirror!Back, Mirror!Clamp

\* What a read returns is what lies between the places, and the same backward.
LEMMA FetchedIsMet ==
  ASSUME NEW p \in 0..(N + 1), NEW q \in 0..(N + 1), NEW d \in BOOLEAN
  PROVE  RowsNamed(d, Fetched(p, q)) = Mirror!Met(PlaceOf(d, p), PlaceOf(d, q))
<1>1. CASE d
  BY <1>1 DEF RowsNamed, PlaceOf, Fetched, Mirror!Met
<1>2. CASE ~d
  <2>1. CASE q > p
    <3> DEFINE n == (IF q > N THEN N ELSE q) - p
    <3>1. Fetched(p, q) = [k \in 1..n |-> p + k]
      BY <2>1, RowsAssumption DEF Fetched
    <3>2. Mirror!Met(N + 1 - p, N + 1 - q) = [k \in 1..n |-> (N + 1 - p) - k]
      <4>1. ~(N + 1 - q >= N + 1 - p)
        BY <2>1, RowsAssumption
      <4>2. (N + 1 - p) - (IF N + 1 - q < 1 THEN 1 ELSE N + 1 - q) = n
        BY <2>1, RowsAssumption
      <4> QED BY <4>1, <4>2 DEF Mirror!Met
    <3>3. \A k \in 1..n : N + 1 - (p + k) = (N + 1 - p) - k
      BY <2>1, RowsAssumption
    <3>4. RowsNamed(d, Fetched(p, q)) = [k \in 1..n |-> N + 1 - (p + k)]
      <4> HIDE DEF n
      <4> QED BY <1>2, <3>1 DEF RowsNamed
    <3>5. RowsNamed(d, Fetched(p, q)) = [k \in 1..n |-> (N + 1 - p) - k]
      <4> HIDE DEF n
      <4> QED BY <3>3, <3>4
    <3> QED BY <1>2, <3>2, <3>5 DEF PlaceOf
  <2>2. CASE q < p
    <3> DEFINE n == p - (IF q < 1 THEN 1 ELSE q)
    <3>1. Fetched(p, q) = [k \in 1..n |-> p - k]
      BY <2>2, RowsAssumption DEF Fetched
    <3>2. Mirror!Met(N + 1 - p, N + 1 - q) = [k \in 1..n |-> (N + 1 - p) + k]
      <4>1. N + 1 - q >= N + 1 - p
        BY <2>2, RowsAssumption
      <4>2. (IF N + 1 - q > N THEN N ELSE N + 1 - q) - (N + 1 - p) = n
        BY <2>2, RowsAssumption
      <4> QED BY <4>1, <4>2 DEF Mirror!Met
    <3>3. \A k \in 1..n : N + 1 - (p - k) = (N + 1 - p) + k
      BY <2>2, RowsAssumption
    <3>4. RowsNamed(d, Fetched(p, q)) = [k \in 1..n |-> N + 1 - (p - k)]
      <4> HIDE DEF n
      <4> QED BY <1>2, <3>1 DEF RowsNamed
    <3>5. RowsNamed(d, Fetched(p, q)) = [k \in 1..n |-> (N + 1 - p) + k]
      <4> HIDE DEF n
      <4> QED BY <3>3, <3>4
    <3> QED BY <1>2, <3>2, <3>5 DEF PlaceOf
  <2>3. CASE q = p
    <3>1. DOMAIN Fetched(p, q) = {}
      BY <2>3, RowsAssumption DEF Fetched
    <3>2. /\ DOMAIN Mirror!Met(N + 1 - p, N + 1 - q) = {}
          /\ Mirror!Met(N + 1 - p, N + 1 - q) = [k \in {} |-> k]
      BY <2>3, RowsAssumption DEF Mirror!Met
    <3> QED BY <1>2, <3>1, <3>2 DEF RowsNamed, PlaceOf
  <2> QED BY <2>1, <2>2, <2>3, RowsAssumption
<1> QED BY <1>1, <1>2

LEMMA NoRows == \A d \in BOOLEAN : RowsNamed(d, <<>>) = <<>>
  BY DEF RowsNamed

LEMMA NothingMet ==
  ASSUME NEW i \in 0..(N + 1) PROVE Mirror!Met(i, i) = <<>>
<1>1. 1..((IF i > N THEN N ELSE i) - i) = {}
  BY RowsAssumption
<1> QED BY <1>1, RowsAssumption DEF Mirror!Met

-----------------------------------------------------------------------------
(* The calls *)

LEMMA ReadImplements ==
  ASSUME InRange, NEW c \in Calls, Read(c)
  PROVE  InRange' /\ Mirror!AbsNext
<1>1. request' = c /\ c.op = "read" /\ direction' = direction /\ direction \in BOOLEAN
  BY DEF Read, InRange
<1>2. c.quantity \in Nat \cup {All} /\ c.forward \in BOOLEAN
  BY <1>1, CallsAssumption
<1> DEFINE at == PlaceOf(direction, position)
           on == PlaceOf(direction, position')
<1>3. position \in 0..(N + 1) /\ at \in 0..(N + 1)
  BY RowsAssumption DEF InRange, PlaceOf
<1>4. /\ position' \in 0..(N + 1)
      /\ on = IF c.forward THEN Mirror!Onward(at, c.quantity) ELSE Mirror!Back(at, c.quantity)
      /\ RowsNamed(direction, fetched') = Mirror!Met(at, on)
  <2>1. CASE c.quantity = 0
    <3>1. position' = position /\ fetched' = <<>>
      BY <2>1 DEF Read
    <3>2. Mirror!Onward(at, 0) = at /\ Mirror!Back(at, 0) = at
      BY <1>3, RowsAssumption DEF Mirror!Onward, Mirror!Back, Mirror!Clamp
    <3>3. RowsNamed(direction, fetched') = <<>>
      BY <1>1, <3>1, NoRows
    <3>4. Mirror!Met(at, at) = <<>>
      BY <1>3, NothingMet
    <3> QED BY <1>3, <2>1, <3>1, <3>2, <3>3, <3>4
  <2>2. CASE c.quantity # 0
    <3>1. /\ position' = Move(position, IF WhichWay(c.forward) THEN "FORWARD" ELSE "BACKWARD", c.quantity)
          /\ fetched' = Fetched(position, position')
      BY <2>2 DEF Read
    <3>2. /\ position' \in 0..(N + 1)
          /\ on = IF c.forward THEN Mirror!Onward(at, c.quantity) ELSE Mirror!Back(at, c.quantity)
      <4>1. CASE WhichWay(c.forward)
        BY <1>1, <1>2, <1>3, <3>1, <4>1, MoveForward DEF WhichWay, PlaceOf
      <4>2. CASE ~WhichWay(c.forward)
        BY <1>1, <1>2, <1>3, <3>1, <4>2, MoveBackward DEF WhichWay, PlaceOf
      <4> QED BY <4>1, <4>2
    <3>3. RowsNamed(direction, fetched') = Mirror!Met(at, on)
      BY <1>1, <1>3, <3>1, <3>2, FetchedIsMet
    <3> QED BY <3>2, <3>3
  <2> QED BY <2>1, <2>2
<1>5. InRange'
  BY <1>1, <1>4 DEF InRange
<1>6. request' \in Calls /\ request'.op = "read" /\ Mirror!AbsRead(request')
  BY <1>1, <1>4 DEF Mirror!AbsRead, PlaceOf, RowsNamed
<1>7. Mirror!AbsNext
  BY <1>6 DEF Mirror!AbsNext
<1> QED BY <1>5, <1>7

\* Whatever whence becomes, the commands lead where the caller meant, if a backward cursor is not sought by
\* FORWARD or BACKWARD.
LEMMA MovedIsSought ==
  ASSUME InRange, NEW c \in Calls, c.op = "seek", direction \/ c.whence \in Inverted
  PROVE  /\ Moved(Resolved(c)) \in 0..(N + 1)
         /\ PlaceOf(direction, Moved(Resolved(c))) = Mirror!Sought(c)
<1>1. /\ c.offset \in Int \cup {All}
      /\ c.whence \in {"ABSOLUTE", "RELATIVE", "FROM_END", "FORWARD", "BACKWARD"}
      /\ c.whence \in {"ABSOLUTE", "FROM_END"} => c.offset = All \/ c.offset >= 0
  BY CallsAssumption
<1>2. position \in 0..(N + 1) /\ direction \in BOOLEAN
  BY DEF InRange
<1>3. ASSUME NEW e, e.whence = "FROM_END", e.offset \in Nat
      PROVE  Moved(e) \in 0..(N + 1) /\ Moved(e) = Within(N + 1 - e.offset)
  <2>1. e.offset # All
    BY <1>3, RowsAssumption
  <2>2. Moved(e) = Within(N + 1 - e.offset)
    <3>1. Moved(e) = Move(Move(Move(position, "LAST", 0), "NEXT", 0), "BACKWARD", e.offset)
      BY <1>3 DEF Moved
    <3>2. Move(position, "LAST", 0) = N
      BY DEF Move
    <3>3. Move(N, "NEXT", 0) = Within(N + 1)
      BY DEF Move
    <3>4. Within(N + 1) = N + 1
      BY RowsAssumption DEF Within
    <3>5. Move(N + 1, "BACKWARD", e.offset) = Within(N + 1 - e.offset)
      BY <1>3, <2>1, RowsAssumption DEF Move
    <3> QED BY ONLY <3>1, <3>2, <3>3, <3>4, <3>5
  <2> QED BY <1>3, <2>2, RowsAssumption DEF Within
<1>4. ASSUME NEW e, e.whence = "ABSOLUTE", e.offset \in Nat
      PROVE  Moved(e) \in 0..(N + 1) /\ Moved(e) = Within(e.offset)
  <2>1. Moved(e) = Within(e.offset)
    BY <1>4 DEF Moved, Move
  <2> QED BY <1>4, <2>1, RowsAssumption DEF Within
<1>5. ASSUME NEW e, e.whence \in {"RELATIVE", "FORWARD"}, e.offset \in Int
      PROVE  Moved(e) \in 0..(N + 1) /\ Moved(e) = Within(position + e.offset)
  <2>1. e.offset # All
    BY <1>5, RowsAssumption
  <2>2. Moved(e) = IF e.offset < 0 THEN Within(position - (-e.offset)) ELSE Within(position + e.offset)
    <3>1. CASE e.whence = "RELATIVE"
      BY <1>5, <2>1, <3>1, RowsAssumption DEF Moved, Move
    <3>2. CASE e.whence = "FORWARD"
      BY <1>5, <2>1, <3>2, RowsAssumption DEF Moved, Move
    <3> QED BY <1>5, <3>1, <3>2
  <2>3. position - (-e.offset) = position + e.offset
    BY <1>2, <1>5, RowsAssumption
  <2> QED BY <1>2, <1>5, <2>2, <2>3, RowsAssumption DEF Within
<1>6. ASSUME NEW e, e.whence = "BACKWARD", e.offset \in Nat
      PROVE  Moved(e) \in 0..(N + 1) /\ Moved(e) = Within(position - e.offset)
  <2>1. e.offset # All /\ ~(e.offset < 0)
    BY <1>6, RowsAssumption
  <2>2. Moved(e) = Within(position - e.offset)
    BY <1>6, <2>1 DEF Moved, Move
  <2> QED BY <1>2, <1>6, <2>2, RowsAssumption DEF Within
<1>7. CASE c.offset = All
  <2> DEFINE w == IF c.whence \in {"FORWARD", "BACKWARD"} THEN c.whence ELSE Ahead
  <2>1. Moved(Resolved(c)) = IF w = "FORWARD" THEN N + 1 ELSE 0
    BY <1>1, <1>7, RowsAssumption DEF Resolved, Moved, Move, Ahead
  <2>2. Mirror!Sought(c) = IF c.whence = "BACKWARD" THEN 0 ELSE N + 1
    BY <1>7 DEF Mirror!Sought
  <2>3. CASE direction
    <3>1. (w = "FORWARD") <=> (c.whence # "BACKWARD")
      BY <1>1, <2>3 DEF Ahead
    <3>2. PlaceOf(direction, Moved(Resolved(c))) = Moved(Resolved(c))
      BY <2>3 DEF PlaceOf
    <3> QED BY <2>1, <2>2, <3>1, <3>2, RowsAssumption
  <2>4. CASE ~direction
    <3>1. w = "BACKWARD" /\ c.whence # "BACKWARD"
      BY <1>1, <2>4, InvertedAssumption DEF Ahead
    <3>2. Moved(Resolved(c)) = 0 /\ Mirror!Sought(c) = N + 1
      BY <2>1, <2>2, <3>1
    <3> QED BY <2>4, <3>2, RowsAssumption DEF PlaceOf
  <2> QED BY <2>3, <2>4
<1>8. CASE c.offset # All /\ direction
  <2>1. c.offset \in Int
    BY <1>1, <1>8
  <2>2. CASE c.offset < 0 /\ c.whence = "BACKWARD"
    <3>1. Resolved(c) = [offset |-> -c.offset, whence |-> "FORWARD"]
      BY <1>8, <2>2 DEF Resolved, Adjusted
    <3>2. Moved(Resolved(c)) \in 0..(N + 1) /\ Moved(Resolved(c)) = Within(position + (-c.offset))
      BY <1>5, <2>1, <3>1
    <3> QED BY <1>2, <1>8, <2>1, <2>2, <3>2, RowsAssumption DEF PlaceOf, Within, Mirror!Sought, Mirror!Clamp
  <2>3. CASE ~(c.offset < 0 /\ c.whence = "BACKWARD")
    <3>1. Resolved(c) = [offset |-> c.offset, whence |-> c.whence]
      BY <1>8, <2>3 DEF Resolved, Adjusted
    <3> DEFINE e == Resolved(c)
    <3>2. e.offset = c.offset /\ e.whence = c.whence
      BY <3>1
    <3> HIDE DEF e
    <3>3. CASE c.whence = "FROM_END"
      BY <1>1, <1>2, <1>3, <1>8, <2>1, <3>2, <3>3, RowsAssumption DEF PlaceOf, Within, Mirror!Sought, Mirror!Clamp, e
    <3>4. CASE c.whence = "ABSOLUTE"
      BY <1>1, <1>2, <1>4, <1>8, <2>1, <3>2, <3>4, RowsAssumption DEF PlaceOf, Within, Mirror!Sought, Mirror!Clamp, e
    <3>5. CASE c.whence \in {"RELATIVE", "FORWARD"}
      BY <1>1, <1>2, <1>5, <1>8, <2>1, <3>2, <3>5, RowsAssumption DEF PlaceOf, Within, Mirror!Sought, Mirror!Clamp, e
    <3>6. CASE c.whence = "BACKWARD"
      BY <1>1, <1>2, <1>6, <1>8, <2>1, <2>3, <3>2, <3>6, RowsAssumption DEF PlaceOf, Within, Mirror!Sought, Mirror!Clamp, e
    <3> QED BY <1>1, <3>3, <3>4, <3>5, <3>6
  <2> QED BY <2>2, <2>3
<1>9. CASE c.offset # All /\ ~direction
  <2>1. c.offset \in Int /\ c.whence \in {"ABSOLUTE", "RELATIVE", "FROM_END"}
    BY <1>1, <1>9, InvertedAssumption
  <2>2. Resolved(c) = CASE c.whence = "RELATIVE" -> [offset |-> -c.offset, whence |-> "RELATIVE"]
                        [] c.whence = "ABSOLUTE" -> [offset |-> c.offset, whence |-> "FROM_END"]
                        [] OTHER                 -> [offset |-> c.offset, whence |-> "ABSOLUTE"]
    BY <1>9, <2>1 DEF Resolved, Adjusted
  <2>3. CASE c.whence = "RELATIVE"
    <3>1. Moved(Resolved(c)) \in 0..(N + 1) /\ Moved(Resolved(c)) = Within(position + (-c.offset))
      BY <1>5, <2>1, <2>2, <2>3
    <3> QED BY <1>2, <1>9, <2>1, <2>3, <3>1, RowsAssumption DEF PlaceOf, Within, Mirror!Sought, Mirror!Clamp
  <2>4. CASE c.whence = "ABSOLUTE"
    <3>1. Moved(Resolved(c)) \in 0..(N + 1) /\ Moved(Resolved(c)) = Within(N + 1 - c.offset)
      BY <1>1, <1>3, <1>9, <2>1, <2>2, <2>4
    <3> QED BY <1>1, <1>2, <1>9, <2>1, <2>4, <3>1, RowsAssumption DEF PlaceOf, Within, Mirror!Sought, Mirror!Clamp
  <2>5. CASE c.whence = "FROM_END"
    <3>1. Moved(Resolved(c)) \in 0..(N + 1) /\ Moved(Resolved(c)) = Within(c.offset)
      BY <1>1, <1>4, <1>9, <2>1, <2>2, <2>5
    <3> QED BY <1>1, <1>2, <1>9, <2>1, <2>5, <3>1, RowsAssumption DEF PlaceOf, Within, Mirror!Sought, Mirror!Clamp
  <2> QED BY <2>1, <2>3, <2>4, <2>5
<1> QED BY <1>7, <1>8, <1>9

LEMMA SeekImplements ==
  ASSUME InRange, NEW c \in Calls, Seek(c)
  PROVE  InRange' /\ Mirror!AbsNext
<1>1. /\ c.op = "seek" /\ request' = c /\ (direction \/ c.whence \in Inverted)
      /\ position' = Moved(Resolved(c)) /\ direction' = direction /\ fetched' = fetched
  BY DEF Seek
<1>2. position' \in 0..(N + 1) /\ PlaceOf(direction, position') = Mirror!Sought(c)
  BY <1>1, MovedIsSought
<1>3. Mirror!AbsSeek(c)
  BY <1>1, <1>2 DEF Mirror!AbsSeek, PlaceOf
<1> QED BY <1>1, <1>2, <1>3 DEF InRange, Mirror!AbsNext

LEMMA TurnImplements ==
  ASSUME InRange, SetDirection
  PROVE  InRange' /\ Mirror!AbsNext
<1>1. /\ direction' = ~direction /\ direction \in BOOLEAN /\ direction' \in BOOLEAN
      /\ position' = position /\ position \in 0..(N + 1) /\ request' = [op |-> "turn"] /\ fetched' = <<>>
  BY DEF SetDirection, InRange
<1>2. PlaceOf(direction', position') = N + 1 - PlaceOf(direction, position)
  <2>1. CASE direction
    BY <1>1, <2>1, RowsAssumption DEF PlaceOf
  <2>2. CASE ~direction
    <3>1. direction'
      BY <1>1, <2>2
    <3>2. PlaceOf(direction', position') = position' /\ PlaceOf(direction, position) = N + 1 - position
      BY <2>2, <3>1 DEF PlaceOf
    <3> QED BY <1>1, <3>2, RowsAssumption
  <2> QED BY <2>1, <2>2
<1>3. RowsNamed(direction', fetched') = <<>>
  BY <1>1, NoRows
<1>4. Mirror!AbsTurn
  BY <1>1, <1>2, <1>3 DEF Mirror!AbsTurn, PlaceOf, RowsNamed
<1> QED BY <1>1, <1>4 DEF InRange, Mirror!AbsNext

-----------------------------------------------------------------------------
\* Cursor of driver/pq3.py: for any number of rows and any calls of read() and seek(), a cursor turned backward is
\* the cursor over the rows in reverse order.  Excepted is seek() by FORWARD or BACKWARD while it is turned.
THEOREM CursorsMirror == CursorSpec => CursorMirrors
<1>1. CursorInit => InRange /\ Mirror!AbsInit
  <2> SUFFICES ASSUME CursorInit PROVE InRange /\ Mirror!AbsInit
    OBVIOUS
  <2>1. direction \in BOOLEAN /\ position = 0 /\ request = [op |-> "declare"] /\ fetched = <<>>
    BY DEF CursorInit
  <2>2. RowsNamed(direction, fetched) = <<>>
    BY <2>1, NoRows
  <2> QED BY <2>1, <2>2, RowsAssumption DEF InRange, Mirror!AbsInit, RowsNamed
<1>2. InRange /\ [CursorNext]_cursorVars => InRange' /\ [Mirror!AbsNext]_(Mirror!absVars)
  <2> SUFFICES ASSUME InRange, [CursorNext]_cursorVars
               PROVE  InRange' /\ [Mirror!AbsNext]_(Mirror!absVars)
    OBVIOUS
  <2>1. ASSUME NEW c \in Calls, Read(c) PROVE InRange' /\ Mirror!AbsNext
    BY <2>1, ReadImplements
  <2>2. ASSUME NEW c \in Calls, Seek(c) PROVE InRange' /\ Mirror!AbsNext
    BY <2>2, SeekImplements
  <2>3. CASE SetDirection
    BY <2>3, TurnImplements
  <2>4. CASE UNCHANGED cursorVars
    BY <2>4 DEF cursorVars, InRange, Mirror!absVars
  <2> QED BY <2>1, <2>2, <2>3, <2>4 DEF CursorNext
<1> QED BY <1>1, <1>2, PTL DEF CursorSpec, CursorMirrors, Mirror!AbsSpec

-----------------------------------------------------------------------------
(* SettingsCache                                                           *)
(*                                                                         *)
(* The cache of settings is truthful for any parameters, values and depth  *)
(* of blocks.  CacheTruthful is not inductive: that a block restores what  *)
(* it found rests on what it stored when it was entered, and that on the   *)
(* cache having been right then.                                           *)

\* A block entered.
BlockSet ==
  UNION {[stored : [ks -> Values], real : [ks -> Values], sure : BOOLEAN] : ks \in SUBSET Keys}

\* The state has its type: SettingsTypeOK with the blocks written out.
SetTypes ==
  /\ value \in [Keys -> Values] /\ before \in [Keys -> Values] /\ tx \in {"I", "T", "E"}
  /\ cache \in [Keys -> Values \cup {None}]
  /\ blocks \in Seq(BlockSet) /\ Len(blocks) \in 0..MaxBlocks
  /\ untold \in SUBSET Keys /\ amiss \in BOOLEAN

\* A block entered when the client had been told everything has stored what the parameters really were.
StoredReal ==
  \A i \in DOMAIN blocks : blocks[i].sure =>
    /\ DOMAIN blocks[i].stored = DOMAIN blocks[i].real
    /\ \A k \in DOMAIN blocks[i].real : blocks[i].stored[k] = blocks[i].real[k]

SInv == SetTypes /\ StoredReal /\ CacheTruthful

-----------------------------------------------------------------------------
LEMMA DefaultIsAValue == Default \in Values
  BY SettingsAssumption DEF Default

\* What Sets() does to the cache and the parameters the client was not told of keeps the cache truthful.
LEMMA SetsKeepsTruth ==
  ASSUME SetTypes, CacheTruthful, NEW new \in [Keys -> Values], NEW heard \in SUBSET Keys, Sets(new, heard)
  PROVE  /\ value' \in [Keys -> Values] /\ cache' \in [Keys -> Values \cup {None}] /\ untold' \in SUBSET Keys
         /\ value' = new
         /\ \A k \in Keys \ untold' : cache'[k] \in {None, value'[k]}
<1>1. value' \in [Keys -> Values] /\ value' = new
  BY DEF Sets
<1>2. cache' \in [Keys -> Values \cup {None}]
  BY DEF Sets, SetTypes
<1>3. untold' \in SUBSET Keys
  BY DEF Sets, SetTypes
<1>4. ASSUME NEW k \in Keys \ untold' PROVE cache'[k] \in {None, value'[k]}
  <2>1. CASE k \in heard
    BY <2>1, <1>1 DEF Sets
  <2>2. CASE k \notin heard /\ k \in Reported /\ new[k] # value[k]
    BY <2>2, <1>1 DEF Sets
  <2>3. CASE k \notin heard /\ ~(k \in Reported /\ new[k] # value[k])
    <3>1. k \notin untold /\ new[k] = value[k]
      BY <2>3, <1>4 DEF Sets
    <3>2. cache'[k] = cache[k]
      BY <2>3 DEF Sets
    <3> QED BY <3>1, <3>2, <1>1 DEF CacheTruthful
  <2> QED BY <2>1, <2>2, <2>3
<1> QED BY <1>1, <1>2, <1>3, <1>4

LEMMA KnownIsTyped ==
  ASSUME SetTypes PROVE Known(cache) \in [Keys -> Values]
  BY DEF SetTypes, Known

\* What the client was told of, it knows.
LEMMA KnownIsTrue ==
  ASSUME SetTypes, CacheTruthful, NEW k \in Keys \ untold PROVE Known(cache)[k] = value[k]
  BY DEF SetTypes, CacheTruthful, Known

LEMMA MergeIsTyped ==
  ASSUME NEW f \in [Keys -> Values], NEW ks \in SUBSET Keys, NEW g \in [ks -> Values]
  PROVE  Merge(f, g) \in [Keys -> Values]
  BY DEF Merge

-----------------------------------------------------------------------------
(* The invariant *)

LEMMA SInvInit == SettingsInit => SInv
<1> SUFFICES ASSUME SettingsInit PROVE SInv
  OBVIOUS
<1>1. SetTypes
  <2>1. value \in [Keys -> Values] /\ before \in [Keys -> Values] /\ tx \in {"I", "T", "E"}
    BY DEF SettingsInit
  <2>2. cache \in [Keys -> Values \cup {None}]
    BY DEF SettingsInit
  <2>3. blocks \in Seq(BlockSet) /\ Len(blocks) = 0
    BY DEF SettingsInit
  <2>4. untold \in SUBSET Keys /\ amiss \in BOOLEAN
    BY DEF SettingsInit
  <2> QED BY <2>1, <2>2, <2>3, <2>4, SettingsAssumption DEF SetTypes
<1>2. StoredReal
  BY DEF SettingsInit, StoredReal
<1>3. CacheTruthful
  BY DEF SettingsInit, CacheTruthful
<1> QED BY <1>1, <1>2, <1>3 DEF SInv

LEMMA SInvStep == SInv /\ [SettingsNext]_setVars => SInv'
<1> SUFFICES ASSUME SInv, [SettingsNext]_setVars PROVE SInv'
  OBVIOUS
<1> USE DEF SInv
<1>1. ASSUME NEW k \in Keys, DelItem(k) PROVE SInv'
  <2>1. SetTypes'
    BY <1>1, DefaultIsAValue DEF DelItem, SetTypes
  <2>2. StoredReal'
    BY <1>1 DEF DelItem, StoredReal
  <2>3. CacheTruthful'
    BY <1>1 DEF DelItem, SetTypes, CacheTruthful
  <2> QED BY <2>1, <2>2, <2>3
<1>2. ASSUME NEW k \in Keys, Get(k) PROVE SInv'
  <2>1. SetTypes'
    BY <1>2, KnownIsTyped DEF Get, SetTypes
  <2>2. StoredReal'
    BY <1>2 DEF Get, StoredReal
  <2>3. CacheTruthful'
    BY <1>2, KnownIsTrue DEF Get, SetTypes, CacheTruthful
  <2> QED BY <2>1, <2>2, <2>3
<1>3. ASSUME NEW k \in Keys, NEW v \in Values, SetItem(k, v) PROVE SInv'
  <2>1. CASE cache[k] = v \/ tx = "E"
    BY <1>3, <2>1 DEF SetItem, Raises, SetTypes, StoredReal, CacheTruthful
  <2>2. CASE ~(cache[k] = v \/ tx = "E")
    <3>1. [value EXCEPT ![k] = v] \in [Keys -> Values] /\ Sets([value EXCEPT ![k] = v], {k})
      BY <1>3, <2>2 DEF SetItem, SetTypes
    <3>2. /\ value' \in [Keys -> Values] /\ cache' \in [Keys -> Values \cup {None}] /\ untold' \in SUBSET Keys
          /\ \A k0 \in Keys \ untold' : cache'[k0] \in {None, value'[k0]}
      <4> DEFINE new == [value EXCEPT ![k] = v]
      <4>1. new \in [Keys -> Values] /\ {k} \in SUBSET Keys /\ Sets(new, {k})
        BY <3>1
      <4> HIDE DEF new
      <4> QED BY <4>1, SetsKeepsTruth
    <3>3. UNCHANGED <<tx, before, blocks, amiss>>
      BY <1>3 DEF SetItem
    <3>4. SetTypes'
      BY <3>2, <3>3 DEF SetTypes
    <3>5. StoredReal'
      BY <3>3 DEF StoredReal
    <3>6. CacheTruthful'
      BY <3>2, <3>3 DEF CacheTruthful
    <3> QED BY <3>4, <3>5, <3>6
  <2> QED BY <2>1, <2>2
<1>4. ASSUME NEW k \in Keys, NEW v \in Values, SqlSet(k, v) PROVE SInv'
  <2>1. [value EXCEPT ![k] = v] \in [Keys -> Values] /\ Sets([value EXCEPT ![k] = v], {})
    BY <1>4 DEF SqlSet, SetTypes
  <2>2. /\ value' \in [Keys -> Values] /\ cache' \in [Keys -> Values \cup {None}] /\ untold' \in SUBSET Keys
        /\ \A k0 \in Keys \ untold' : cache'[k0] \in {None, value'[k0]}
    <3> DEFINE new == [value EXCEPT ![k] = v]
    <3>1. new \in [Keys -> Values] /\ {} \in SUBSET Keys /\ Sets(new, {})
      BY <2>1
    <3> HIDE DEF new
    <3> QED BY <3>1, SetsKeepsTruth
  <2>3. UNCHANGED <<tx, before, blocks, amiss>>
    BY <1>4 DEF SqlSet
  <2>4. SetTypes'
    BY <2>2, <2>3 DEF SetTypes
  <2>5. StoredReal'
    BY <2>3 DEF StoredReal
  <2>6. CacheTruthful'
    BY <2>2, <2>3 DEF CacheTruthful
  <2> QED BY <2>4, <2>5, <2>6
<1>5. ASSUME NEW ks \in (SUBSET Keys) \ {{}}, NEW d \in [ks -> Values], EnterSettings(d) PROVE SInv'
  <2> DEFINE b == [stored |-> [k \in DOMAIN d |-> Known(cache)[k]],
                   real |-> [k \in DOMAIN d |-> value[k]], sure |-> DOMAIN d \cap untold = {}]
  <2>1. DOMAIN d = ks /\ ks \in SUBSET Keys
    OBVIOUS
  <2>2. b \in BlockSet
    <3>1. b.stored \in [ks -> Values] /\ b.real \in [ks -> Values] /\ b.sure \in BOOLEAN
      BY <2>1, KnownIsTyped DEF SetTypes
    <3>2. b \in [stored : [ks -> Values], real : [ks -> Values], sure : BOOLEAN]
      BY <3>1
    <3> QED BY <2>1, <3>2 DEF BlockSet
  <2>3. blocks' = Append(blocks, b)
    BY <1>5 DEF EnterSettings
  <2>4. blocks' \in Seq(BlockSet) /\ Len(blocks') \in 0..MaxBlocks
    BY <1>5, <2>2, <2>3, SettingsAssumption DEF EnterSettings, SetTypes
  <2>5. Merge(value, d) \in [Keys -> Values] /\ Sets(Merge(value, d), DOMAIN d)
    BY <1>5, <2>1, MergeIsTyped DEF EnterSettings, SetTypes
  <2>6. SetTypes' /\ CacheTruthful'
    BY <1>5, <2>1, <2>4, <2>5, SetsKeepsTruth DEF EnterSettings, SetTypes, CacheTruthful
  <2>7. b.sure => \A k \in DOMAIN b.real : b.stored[k] = b.real[k]
    BY <2>1, KnownIsTrue
  <2>8. StoredReal'
    BY <2>3, <2>7 DEF StoredReal, SetTypes
  <2> QED BY <2>6, <2>8
<1>6. ASSUME ExitSettings PROVE SInv'
  <2> DEFINE b == blocks[Len(blocks)]
  <2>1. blocks # <<>> /\ blocks' = SubSeq(blocks, 1, Len(blocks) - 1)
    BY <1>6 DEF ExitSettings
  <2>2. b \in BlockSet /\ Len(blocks) \in DOMAIN blocks
    BY <2>1 DEF SetTypes
  <2>3. blocks' \in Seq(BlockSet) /\ Len(blocks') \in 0..MaxBlocks
    BY <2>1, SettingsAssumption DEF SetTypes
  <2>4. StoredReal'
    BY <2>1 DEF StoredReal, SetTypes
  <2>5. CASE tx = "E"
    BY <1>6, <2>3, <2>4, <2>5 DEF ExitSettings, Raises, SetTypes, CacheTruthful
  <2>6. CASE tx # "E"
    <3>1. PICK ks \in SUBSET Keys : b.stored \in [ks -> Values] /\ b.real \in [ks -> Values]
      BY <2>2 DEF BlockSet
    <3>2. Merge(value, b.stored) \in [Keys -> Values] /\ Sets(Merge(value, b.stored), DOMAIN b.stored)
      BY <1>6, <2>6, <3>1, MergeIsTyped DEF ExitSettings, SetTypes
    <3>3. amiss' = (amiss \/ (b.sure /\ \E k \in DOMAIN b.real : value'[k] # b.real[k]))
      BY <1>6, <2>6 DEF ExitSettings
    <3>4. ASSUME b.sure, NEW k \in DOMAIN b.real PROVE value'[k] = b.real[k]
      <4>1. value'[k] = b.stored[k]
        BY <3>1, <3>2, SetsKeepsTruth DEF Merge
      <4> QED BY <2>2, <3>4, <4>1 DEF StoredReal
    <3>5. ~amiss'
      BY <3>3, <3>4 DEF CacheTruthful
    <3>6. UNCHANGED <<tx, before>>
      BY <1>6 DEF ExitSettings
    <3>7. /\ value' \in [Keys -> Values] /\ cache' \in [Keys -> Values \cup {None}] /\ untold' \in SUBSET Keys
          /\ \A k0 \in Keys \ untold' : cache'[k0] \in {None, value'[k0]}
      BY <3>1, <3>2, SetsKeepsTruth
    <3>8. SetTypes'
      <4>1. amiss' \in BOOLEAN
        BY <3>3
      <4> QED BY <2>3, <3>6, <3>7, <4>1 DEF SetTypes
    <3>9. CacheTruthful'
      BY <3>5, <3>7 DEF CacheTruthful
    <3> QED BY <2>4, <3>8, <3>9
  <2> QED BY <2>5, <2>6
<1>7. CASE Begin
  BY <1>7 DEF Begin, SetTypes, StoredReal, CacheTruthful
<1>8. CASE Fails
  BY <1>8 DEF Fails, SetTypes, StoredReal, CacheTruthful
<1>9. CASE TransactionEnds
  <2>1. CASE UNCHANGED <<value, cache, untold>>
    BY <1>9, <2>1 DEF TransactionEnds, SetTypes, StoredReal, CacheTruthful
  <2>2. CASE Sets(before, {})
    <3>1. before \in [Keys -> Values]
      BY DEF SetTypes
    <3> QED BY <1>9, <2>2, <3>1, SetsKeepsTruth DEF TransactionEnds, SetTypes, StoredReal, CacheTruthful
  <2> QED BY <1>9, <2>1, <2>2 DEF TransactionEnds
<1>10. CASE UNCHANGED setVars
  BY <1>10 DEF setVars, SetTypes, StoredReal, CacheTruthful
<1> QED BY <1>1, <1>2, <1>3, <1>4, <1>5, <1>6, <1>7, <1>8, <1>9, <1>10 DEF SettingsNext

-----------------------------------------------------------------------------
\* Settings of driver/pq3.py: for every set of parameters, values and nested blocks, what the cache has is what
\* the session has, but for parameters changed behind the client's back, and "with db.settings(...)" restores.
THEOREM CacheIsTruthful == SettingsSpec => [](SettingsTypeOK /\ CacheTruthful)
<1>1. SInv => SettingsTypeOK /\ CacheTruthful
  BY DEF SInv, SetTypes, SettingsTypeOK
<1> QED BY <1>1, SInvInit, SInvStep, PTL DEF SettingsSpec

-----------------------------------------------------------------------------
(* Establish                                                               *)
(*                                                                         *)
(* sslmode is respected for any endpoints and any servers.  The property   *)
(* is not inductive: which channel a password goes over is decided when    *)
(* the attempt is chosen and when SSL is negotiated, long before.  So the  *)
(* invariant says of the attempts that are left, and of the current one,   *)
(* what may still become of them.                                          *)

SslModes == {"allow", "prefer", "require", "disable"}
WaysOf(mode) == {Ways(mode)[i] : i \in DOMAIN Ways(mode)}

\* The attempts that are left try what the mode allows.
AttemptsAllowed ==
  /\ attempts \in Seq([ssl : WaysOf(sslmode), endpoint : Int])
  /\ sslmode \in SslModes

\* The current attempt: before the server greets nothing was agreed; from then on the channel is what was.
AttemptConsistent ==
  attempt # None =>
    /\ DOMAIN attempt = {"ssl", "endpoint", "stage", "channel", "didssl", "replies"}
    /\ attempt.ssl \in WaysOf(sslmode)
    /\ attempt.stage \in {"socket", "ssl"} => attempt.channel = "plain" /\ attempt.didssl = None
    /\ attempt.stage = "ssl" => attempt.ssl \in {"try", "must"}
    /\ attempt.stage \notin {"socket", "ssl"} =>
         \/ attempt.channel = "ssl" /\ attempt.didssl = TRUE /\ attempt.ssl \in {"try", "must"}
         \/ attempt.channel = "plain" /\ attempt.didssl # TRUE /\ attempt.ssl \in {"try", "plain"}

\* "connected" comes of an attempt that was greeted.
ConnectedByAttempt == outcome = "connected" => attempt # None /\ attempt.stage \notin {"socket", "ssl"}

EInv == AttemptsAllowed /\ AttemptConsistent /\ ConnectedByAttempt /\ SecurityAsAsked

-----------------------------------------------------------------------------
LEMMA WaysOfModes ==
  /\ WaysOf("allow") = {"plain", "must"} /\ WaysOf("prefer") = {"try", "plain"}
  /\ WaysOf("require") = {"must"} /\ WaysOf("disable") = {"plain"}
  BY DEF WaysOf, Ways

LEMMA FactoriesAllowed ==
  ASSUME NEW mode \in SslModes
  PROVE  SocketFactories(mode) \in Seq([ssl : WaysOf(mode), endpoint : Int])
<1> DEFINE n == Len(Ways(mode))
           k == n * Cardinality(Endpoints)
           F == [i \in 1..k |-> Try(Ways(mode)[((i - 1) % n) + 1], ((i - 1) \div n) + 1)]
<1>1. Cardinality(Endpoints) \in Nat
  BY EstablishAssumption, FS_CardinalityType
<1>2. n \in {1, 2} /\ DOMAIN Ways(mode) = 1..n
  <2> DEFINE T == {"plain", "try", "must"}
  <2>1. \/ \E x, y \in T : Ways(mode) = <<x, y>>
        \/ \E x \in T : Ways(mode) = <<x>>
    BY DEF Ways, SslModes
  <2>2. ASSUME NEW x \in T, NEW y \in T
        PROVE  /\ <<x, y>> \in Seq(T) /\ Len(<<x, y>>) = 2 /\ <<x>> \in Seq(T) /\ Len(<<x>>) = 1
    OBVIOUS
  <2>3. n \in {1, 2} /\ Ways(mode) \in Seq(T)
    BY <2>1, <2>2
  <2> QED BY <2>3
<1>3. k \in Nat
  BY <1>1, <1>2
<1>4. ASSUME NEW i \in 1..k PROVE F[i] \in [ssl : WaysOf(mode), endpoint : Int]
  <2>0. ASSUME NEW j \in Nat, NEW m \in {1, 2} PROVE (j % m) + 1 \in 1..m /\ (j \div m) + 1 \in Int
    OBVIOUS
  <2>1. ((i - 1) % n) + 1 \in 1..n /\ ((i - 1) \div n) + 1 \in Int
    <3>1. i - 1 \in Nat
      BY <1>3
    <3> HIDE DEF n
    <3> QED BY <1>2, <2>0, <3>1
  <2>2. Ways(mode)[((i - 1) % n) + 1] \in WaysOf(mode)
    BY <1>2, <2>1 DEF WaysOf
  <2> QED BY <2>1, <2>2 DEF Try
<1>5. F \in Seq([ssl : WaysOf(mode), endpoint : Int])
  <2> DEFINE T == [ssl : WaysOf(mode), endpoint : Int]
  <2>1. DOMAIN F = 1..k /\ F = [i \in 1..k |-> F[i]] /\ \A i \in 1..k : F[i] \in T
    BY <1>4
  <2> HIDE DEF T, F, k
  <2>2. F \in [1..k -> T]
    BY <2>1
  <2>3. F \in Seq(T)
    BY <1>3, <2>2
  <2> QED BY <2>3 DEF T
<1> QED BY <1>5 DEF SocketFactories

LEMMA EInvInit == EstablishInit => EInv
<1> SUFFICES ASSUME EstablishInit PROVE EInv
  OBVIOUS
<1>1. AttemptsAllowed
  BY FactoriesAllowed DEF EstablishInit, AttemptsAllowed, SslModes
<1>2. AttemptConsistent /\ ConnectedByAttempt /\ SecurityAsAsked
  BY EstablishAssumption DEF EstablishInit, AttemptConsistent, ConnectedByAttempt, SecurityAsAsked
<1> QED BY <1>1, <1>2 DEF EInv

-----------------------------------------------------------------------------
(* The steps the actions are made of; what they leave alone includes the mode *)

\* An attempt that fails is forgotten.
LEMMA FailsKeeps ==
  ASSUME EInv, NEW a, NEW exception, outcome = None, AttemptFails(a, exception) PROVE EInv'
<1> USE DEF EInv
<1>1. attempt' = None /\ UNCHANGED <<sslmode, attempts, told, outcome>>
  BY DEF AttemptFails
<1>2. AttemptsAllowed'
  BY <1>1 DEF AttemptsAllowed
<1> QED BY <1>1, <1>2, EstablishAssumption DEF AttemptConsistent, ConnectedByAttempt, SecurityAsAsked

\* The current attempt goes on: it has to be consistent still.
LEMMA GoesKeeps ==
  ASSUME EInv, NEW a, outcome = None, Goes(a),
         DOMAIN a = {"ssl", "endpoint", "stage", "channel", "didssl", "replies"}, a.ssl \in WaysOf(sslmode),
         a.stage \in {"socket", "ssl"} => a.channel = "plain" /\ a.didssl = None,
         a.stage = "ssl" => a.ssl \in {"try", "must"},
         a.stage \notin {"socket", "ssl"} =>
           \/ a.channel = "ssl" /\ a.didssl = TRUE /\ a.ssl \in {"try", "must"}
           \/ a.channel = "plain" /\ a.didssl # TRUE /\ a.ssl \in {"try", "plain"}
  PROVE  EInv'
<1> USE DEF EInv
<1>1. attempt' = a /\ UNCHANGED <<sslmode, attempts, told, outcome>>
  BY DEF Goes
<1>2. AttemptsAllowed'
  BY <1>1 DEF AttemptsAllowed
<1>3. AttemptConsistent'
  BY <1>1 DEF AttemptConsistent
<1>4. ConnectedByAttempt' /\ SecurityAsAsked'
  BY <1>1, EstablishAssumption DEF ConnectedByAttempt, SecurityAsAsked
<1> QED BY <1>2, <1>3, <1>4

\* The loop ends.
LEMMA FinishesKeeps ==
  ASSUME EInv, NEW result, Finishes(result),
         result = "connected" => attempt # None /\ attempt.stage \notin {"socket", "ssl"}
  PROVE  EInv'
<1> USE DEF EInv
<1>1. outcome' = result /\ UNCHANGED <<sslmode, attempts, attempt, told>>
  BY DEF Finishes
<1>2. AttemptsAllowed' /\ AttemptConsistent' /\ ConnectedByAttempt'
  BY <1>1 DEF AttemptsAllowed, AttemptConsistent, ConnectedByAttempt
<1>3. result = "connected" => (IF attempt.didssl = TRUE THEN "ssl" ELSE "plain") = attempt.channel
  BY DEF AttemptConsistent
<1>4. SecurityAsAsked'
  BY <1>1, <1>3 DEF SecurityAsAsked, Security
<1> QED BY <1>2, <1>4

\* A reply that is expected; a password goes over the channel of an attempt that the mode allows.
LEMMA ExpectsKeeps ==
  ASSUME EInv, outcome = None, attempt # None, attempt.stage \notin {"socket", "ssl"},
         NEW next, next \notin {"socket", "ssl"}, NEW tells, tells \subseteq {attempt.channel}, Expects(next, tells)
  PROVE  EInv'
<1> USE DEF EInv
<1> DEFINE a == [attempt EXCEPT !.stage = next, !.replies = Tail(@)]
<1>1. attempt' = a /\ told' = told \cup tells /\ UNCHANGED <<sslmode, attempts, outcome>>
  BY DEF Expects
<1>2. /\ DOMAIN a = DOMAIN attempt /\ a.stage = next
      /\ a.ssl = attempt.ssl /\ a.channel = attempt.channel /\ a.didssl = attempt.didssl
  BY DEF AttemptConsistent
<1>3. AttemptsAllowed'
  BY <1>1 DEF AttemptsAllowed
<1>4. AttemptConsistent'
  BY <1>1, <1>2 DEF AttemptConsistent
<1>5. sslmode = "require" => attempt.channel = "ssl"
  BY WaysOfModes DEF AttemptConsistent
<1>6. sslmode = "disable" => attempt.channel = "plain"
  BY WaysOfModes DEF AttemptConsistent
<1>7. ConnectedByAttempt' /\ SecurityAsAsked'
  BY <1>1, <1>5, <1>6, EstablishAssumption DEF ConnectedByAttempt, SecurityAsAsked
<1> QED BY <1>3, <1>4, <1>7

LEMMA GreetedBy ==
  ASSUME NEW a, NEW channel, DOMAIN a = {"ssl", "endpoint", "stage", "channel", "didssl", "replies"}
  PROVE  /\ DOMAIN Greeted(a, channel) = DOMAIN a
         /\ Greeted(a, channel).stage = "Authentication" /\ Greeted(a, channel).channel = channel
         /\ Greeted(a, channel).ssl = a.ssl /\ Greeted(a, channel).didssl = a.didssl
  BY DEF Greeted

LEMMA GreetsKeeps ==
  ASSUME EInv, outcome = None, NEW a, NEW channel, Goes(Greeted(a, channel)),
         DOMAIN a = {"ssl", "endpoint", "stage", "channel", "didssl", "replies"}, a.ssl \in WaysOf(sslmode),
         \/ channel = "ssl" /\ a.didssl = TRUE /\ a.ssl \in {"try", "must"}
         \/ channel = "plain" /\ a.didssl # TRUE /\ a.ssl \in {"try", "plain"}
  PROVE  EInv'
<1> DEFINE g == Greeted(a, channel)
<1>1. /\ DOMAIN g = DOMAIN a /\ g.stage = "Authentication" /\ g.channel = channel
      /\ g.ssl = a.ssl /\ g.didssl = a.didssl
  BY GreetedBy
<1>2. Goes(g)
  OBVIOUS
<1> HIDE DEF g
<1> QED BY <1>1, <1>2, GoesKeeps

-----------------------------------------------------------------------------
(* The actions *)

LEMMA SkipKeeps == ASSUME EInv, SkipAttempt PROVE EInv'
<1> USE DEF EInv
<1>1. attempts' = Tail(attempts) /\ attempts # <<>> /\ UNCHANGED <<sslmode, attempt, told, outcome>>
  BY DEF SkipAttempt
<1>2. AttemptsAllowed'
  BY <1>1 DEF AttemptsAllowed
<1> QED BY <1>1, <1>2 DEF AttemptConsistent, ConnectedByAttempt, SecurityAsAsked, Security

LEMMA CreateKeeps == ASSUME EInv, CreateSocket PROVE EInv'
<1> USE DEF EInv
<1>1. /\ outcome = None /\ attempts # <<>> /\ attempts' = Tail(attempts) /\ UNCHANGED <<sslmode, told, outcome>>
      /\ attempt' = [ssl |-> Head(attempts).ssl, endpoint |-> Head(attempts).endpoint, stage |-> "socket",
                     channel |-> "plain", didssl |-> None, replies |-> <<>>]
  BY DEF CreateSocket
<1>2. AttemptsAllowed' /\ Head(attempts).ssl \in WaysOf(sslmode)
  <2> DEFINE T == [ssl : WaysOf(sslmode), endpoint : Int]
  <2>1. attempts \in Seq(T)
    BY DEF AttemptsAllowed
  <2>2. Tail(attempts) \in Seq(T) /\ Head(attempts) \in T
    <3> HIDE DEF T
    <3> QED BY <1>1, <2>1
  <2> QED BY <1>1, <2>2 DEF AttemptsAllowed
<1>3. AttemptConsistent'
  BY <1>1, <1>2 DEF AttemptConsistent
<1> QED BY <1>1, <1>2, <1>3, EstablishAssumption DEF ConnectedByAttempt, SecurityAsAsked

LEMMA ConnectKeeps == ASSUME EInv, ConnectSocket PROVE EInv'
<1> USE DEF EInv
<1>1. outcome = None /\ attempt # None /\ attempt.stage = "socket"
  BY DEF ConnectSocket, AtStage
<1>2. /\ DOMAIN attempt = {"ssl", "endpoint", "stage", "channel", "didssl", "replies"}
      /\ attempt.ssl \in WaysOf(sslmode) /\ attempt.channel = "plain" /\ attempt.didssl = None
  BY <1>1 DEF AttemptConsistent
<1>3. attempt.ssl \in {"plain", "try", "must"}
  BY <1>2, WaysOfModes DEF AttemptsAllowed, SslModes
<1>4. CASE ~servers[attempt.endpoint].up
  BY <1>1, <1>4, FailsKeeps DEF ConnectSocket
<1>5. CASE servers[attempt.endpoint].up /\ attempt.ssl = "plain"
  <2>1. Goes(Greeted(attempt, "plain"))
    BY <1>5 DEF ConnectSocket
  <2> QED BY <1>1, <1>2, <1>5, <2>1, GreetsKeeps, EstablishAssumption
<1>6. CASE servers[attempt.endpoint].up /\ attempt.ssl # "plain"
  <2> DEFINE a == [attempt EXCEPT !.stage = "ssl"]
  <2>1. Goes(a)
    BY <1>6 DEF ConnectSocket
  <2>2. /\ DOMAIN a = DOMAIN attempt /\ a.stage = "ssl" /\ a.ssl = attempt.ssl
        /\ a.channel = "plain" /\ a.didssl = None
    BY <1>2
  <2> HIDE DEF a
  <2> QED BY <1>1, <1>2, <1>3, <1>6, <2>1, <2>2, GoesKeeps
<1> QED BY <1>4, <1>5, <1>6

LEMMA SSLKeeps == ASSUME EInv, NegotiateSSL PROVE EInv'
<1> USE DEF EInv
<1> DEFINE s == servers[attempt.endpoint]
           a == [attempt EXCEPT !.didssl = IF s.ssl = "S" THEN TRUE ELSE IF s.ssl = "N" THEN FALSE ELSE None]
<1>1. outcome = None /\ attempt # None /\ attempt.stage = "ssl"
  BY DEF NegotiateSSL, AtStage
<1>2. /\ DOMAIN attempt = {"ssl", "endpoint", "stage", "channel", "didssl", "replies"}
      /\ attempt.ssl \in WaysOf(sslmode) /\ attempt.ssl \in {"try", "must"}
  BY <1>1 DEF AttemptConsistent
<1>3. /\ DOMAIN a = DOMAIN attempt /\ a.ssl = attempt.ssl
      /\ a.didssl = IF s.ssl = "S" THEN TRUE ELSE IF s.ssl = "N" THEN FALSE ELSE None
  BY <1>2
<1>4. \/ s.ssl = "reset" /\ Finishes("raised")
      \/ s.ssl = "N" /\ a.ssl # "must" /\ Goes(Greeted(a, "plain"))
      \/ s.ssl = "S" /\ Goes(Greeted(a, "ssl"))
      \/ AttemptFails(a, FALSE) \/ AttemptFails(a, TRUE)
  BY DEF NegotiateSSL
<1> HIDE DEF a, s
<1>5. CASE Finishes("raised")
  BY <1>4, <1>5, FinishesKeeps
<1>6. CASE AttemptFails(a, FALSE) \/ AttemptFails(a, TRUE)
  BY <1>1, <1>6, FailsKeeps
<1>7. CASE s.ssl = "N" /\ Goes(Greeted(a, "plain")) /\ a.ssl # "must"
  BY <1>1, <1>2, <1>3, <1>7, GreetsKeeps
<1>8. CASE s.ssl = "S" /\ Goes(Greeted(a, "ssl"))
  BY <1>1, <1>2, <1>3, <1>8, GreetsKeeps
<1> QED BY <1>4, <1>5, <1>6, <1>7, <1>8

LEMMA NegotiationKeeps == ASSUME EInv, Negotiation PROVE EInv'
<1> DEFINE x == Head(attempt.replies)
           next == Following(attempt.stage, x)
<1>1. outcome = None /\ attempt # None /\ attempt.stage \notin {"socket", "ssl"}
  BY DEF Negotiation
<1>2. \/ next # None /\ Expects(next, IF x \in Passwords THEN {attempt.channel} ELSE {})
      \/ Finishes("connected") \/ AttemptFails(attempt, x = "reset")
  BY DEF Negotiation
<1>3. next # None => next \notin {"socket", "ssl"}
  BY <1>1 DEF Following
<1> HIDE DEF next
<1>4. CASE next # None /\ Expects(next, IF x \in Passwords THEN {attempt.channel} ELSE {})
  BY <1>1, <1>3, <1>4, ExpectsKeeps
<1>5. CASE Finishes("connected")
  BY <1>1, <1>5, FinishesKeeps
<1>6. CASE AttemptFails(attempt, x = "reset")
  BY <1>1, <1>6, FailsKeeps
<1> QED BY <1>2, <1>4, <1>5, <1>6

-----------------------------------------------------------------------------
LEMMA EInvStep == EInv /\ [EstablishNext]_establishVars => EInv'
<1> SUFFICES ASSUME EInv, [EstablishNext]_establishVars PROVE EInv'
  OBVIOUS
<1>1. CASE NoServersAvailable
  BY <1>1, FinishesKeeps DEF NoServersAvailable
<1>2. CASE UNCHANGED establishVars
  BY <1>2 DEF establishVars, EInv, AttemptsAllowed, AttemptConsistent, ConnectedByAttempt, SecurityAsAsked, Security
<1> QED BY <1>1, <1>2, SkipKeeps, CreateKeeps, ConnectKeeps, SSLKeeps, NegotiationKeeps DEF EstablishNext

-----------------------------------------------------------------------------
(* No attempt is skipped that would have succeeded: every attempt that was *)
(* made or skipped is one its server does not accept, or one at an         *)
(* endpoint whose socket broke.                                            *)

Factories == SocketFactories(sslmode)
Used == Len(Factories) - Len(attempts)
Hopeless(t) == t.endpoint \in crashed \/ ~Accepts(servers[t.endpoint], t.ssl)

\* What is left are the last attempts of all; the current one is the one before.
AttemptsUsed ==
  /\ sslmode \in SslModes /\ servers \in [Endpoints -> Servers]
  /\ attempts \in Seq([ssl : WaysOf(sslmode), endpoint : Int])
  /\ Len(attempts) <= Len(Factories)
  /\ \A i \in 1..Len(attempts) : attempts[i] = Factories[Used + i]
  /\ attempt \in {None} \cup Attempts
  /\ attempt # None => Used >= 1 /\ Factories[Used] = Try(attempt.ssl, attempt.endpoint)
UsedHopeless == \A i \in 1..Used : (attempt # None /\ i = Used) \/ Hopeless(Factories[i])
SkipHopeless == canSkip => attempt = None /\ attempts # <<>> /\ Hopeless(Factories[Used + 1])

\* The current attempt: the server is there, the channel is what it answered, and so much of what it says is read.
ReadSoFar(replies, stage, left) ==
  \E expected \in [1..Len(replies) -> Stages] :
    /\ Negotiated(replies, expected)
    /\ \E m \in 1..Len(replies) :
         /\ expected[m] = stage /\ left \in Seq(STRING) /\ Len(left) = Len(replies) - m + 1
         /\ \A i \in 1..Len(left) : left[i] = replies[m + i - 1]
Converses(a, s) ==
  /\ a.stage # "socket" => s.up
  /\ a.stage \notin {"socket", "ssl"} =>
       \/ a.channel = "ssl" /\ s.ssl = "S" /\ s.handshake /\ ReadSoFar(s.secure, a.stage, a.replies)
       \/ a.channel = "plain" /\ (a.ssl = "try" => s.ssl = "N") /\ ReadSoFar(s.plain, a.stage, a.replies)
AttemptConverses == attempt # None => Converses(attempt, servers[attempt.endpoint])

OutcomeJust ==
  /\ outcome = "connected" => attempt # None /\ Accepts(servers[attempt.endpoint], attempt.ssl)
  /\ outcome = "failed" => attempt = None /\ attempts = <<>>

FInv == AttemptsUsed /\ UsedHopeless /\ SkipHopeless /\ AttemptConverses /\ OutcomeJust

-----------------------------------------------------------------------------
(* socket_factories *)

LEMMA OneWay ==
  ASSUME NEW mode \in {"require", "disable"}
  PROVE  LET F == SocketFactories(mode) IN
         /\ Len(F) = Cardinality(Endpoints) /\ DOMAIN F = 1..Cardinality(Endpoints)
         /\ \A i \in DOMAIN F : F[i] = Try(Ways(mode)[1], i)
<1> DEFINE c == Cardinality(Endpoints)
           F == SocketFactories(mode)
<1>1. c \in Nat
  BY EstablishAssumption, FS_CardinalityType
<1>2. Len(Ways(mode)) = 1
  BY DEF Ways
<1>3. F = [i \in 1..(1 * c) |-> Try(Ways(mode)[((i - 1) % 1) + 1], ((i - 1) \div 1) + 1)]
  BY <1>2 DEF SocketFactories
<1>4. DOMAIN F = 1..c /\ 1 * c = c
  BY <1>1, <1>3
<1>5. \A i \in 1..c : ((i - 1) % 1) + 1 = 1 /\ ((i - 1) \div 1) + 1 = i
  BY <1>1
<1>6. \A i \in 1..c : F[i] = Try(Ways(mode)[1], i)
  BY <1>3, <1>4, <1>5
<1>7. Len(F) = c
  <2> HIDE DEF F, c
  <2> QED BY <1>1, <1>4, FactoriesAllowed, LenProperties DEF SslModes, F
<1> QED BY <1>4, <1>6, <1>7

LEMMA TwoWays ==
  ASSUME NEW mode \in {"allow", "prefer"}
  PROVE  LET F == SocketFactories(mode) IN
         /\ Len(F) = 2 * Cardinality(Endpoints) /\ DOMAIN F = 1..(2 * Cardinality(Endpoints))
         /\ \A e \in Endpoints : F[2 * e - 1] = Try(Ways(mode)[1], e) /\ F[2 * e] = Try(Ways(mode)[2], e)
<1> DEFINE c == Cardinality(Endpoints)
           F == SocketFactories(mode)
<1>1. c \in Nat /\ Endpoints = 1..c
  BY EstablishAssumption, FS_CardinalityType
<1>2. Len(Ways(mode)) = 2
  BY DEF Ways
<1>3. F = [i \in 1..(2 * c) |-> Try(Ways(mode)[((i - 1) % 2) + 1], ((i - 1) \div 2) + 1)]
  BY <1>2 DEF SocketFactories
<1>4. DOMAIN F = 1..(2 * c)
  BY <1>1, <1>3
<1>5. \A e \in 1..c : /\ 2 * e - 1 \in 1..(2 * c) /\ 2 * e \in 1..(2 * c)
                      /\ ((2 * e - 1 - 1) % 2) + 1 = 1 /\ ((2 * e - 1 - 1) \div 2) + 1 = e
                      /\ ((2 * e - 1) % 2) + 1 = 2 /\ ((2 * e - 1) \div 2) + 1 = e
  BY <1>1
<1>6. \A e \in 1..c : F[2 * e - 1] = Try(Ways(mode)[1], e) /\ F[2 * e] = Try(Ways(mode)[2], e)
  BY <1>3, <1>5
<1>7. Len(F) = 2 * c
  <2> HIDE DEF F, c
  <2>1. 2 * c \in Nat
    BY <1>1
  <2> QED BY <2>1, <1>4, FactoriesAllowed, LenProperties DEF SslModes, F
<1> QED BY <1>1, <1>4, <1>6, <1>7

\* An index of two ways is that of an endpoint and a way.
LEMMA OddOrEven ==
  ASSUME NEW c \in Nat, NEW i \in 1..(2 * c)
  PROVE  \E e \in 1..c : i = 2 * e - 1 \/ i = 2 * e
<1> DEFINE e == (i + 1) \div 2
<1>1. e \in 1..c /\ (i = 2 * e - 1 \/ i = 2 * e)
  OBVIOUS
<1> QED BY <1>1

\* Every way is tried at every endpoint, once, and of two ways the second right after the first.
LEMMA FactoriesAre ==
  ASSUME NEW mode \in SslModes
  PROVE  LET F == SocketFactories(mode) IN
         /\ Len(F) \in Nat /\ DOMAIN F = 1..Len(F)
         /\ \A e \in Endpoints : \A ssl \in ToSet(Ways(mode)) : \E i \in DOMAIN F : F[i] = Try(ssl, e)
         /\ \A i, j \in DOMAIN F : F[i] = F[j] => i = j
         /\ \A i \in DOMAIN F : F[i] \in [ssl : WaysOf(mode), endpoint : Endpoints]
         /\ mode \in {"allow", "prefer"} =>
              \A i \in DOMAIN F : F[i].ssl = Ways(mode)[1] =>
                i + 1 \in DOMAIN F /\ F[i + 1] = Try(Ways(mode)[2], F[i].endpoint)
<1> DEFINE F == SocketFactories(mode)
           c == Cardinality(Endpoints)
<1>1. c \in Nat /\ Endpoints = 1..c
  BY EstablishAssumption, FS_CardinalityType
<1>2. \A s, t, e, f : Try(s, e) = Try(t, f) => s = t /\ e = f
  <2> SUFFICES ASSUME NEW s, NEW t, NEW e, NEW f, Try(s, e) = Try(t, f) PROVE s = t /\ e = f
    OBVIOUS
  <2>1. Try(s, e).ssl = s /\ Try(s, e).endpoint = e /\ Try(t, f).ssl = t /\ Try(t, f).endpoint = f
    BY DEF Try
  <2> QED BY <2>1
<1>3. \A s, e : Try(s, e).ssl = s /\ Try(s, e).endpoint = e
  BY DEF Try
<1>4. \A s \in WaysOf(mode), e \in Endpoints : Try(s, e) \in [ssl : WaysOf(mode), endpoint : Endpoints]
  BY DEF Try
<1>5. CASE mode \in {"require", "disable"}
  <2> DEFINE w == Ways(mode)[1]
  <2>1. ToSet(Ways(mode)) = {w} /\ WaysOf(mode) = {w}
    BY <1>5 DEF Ways, WaysOf, ToSet
  <2>2. Len(F) = c /\ DOMAIN F = 1..c /\ \A i \in 1..c : F[i] = Try(w, i)
    BY <1>5, OneWay
  <2> HIDE DEF F, w, c
  <2> QED BY <1>1, <1>2, <1>3, <1>4, <1>5, <2>1, <2>2 DEF F
<1>6. CASE mode \in {"allow", "prefer"}
  <2> DEFINE v == Ways(mode)[1]
             w == Ways(mode)[2]
  <2>1. ToSet(Ways(mode)) = {v, w} /\ WaysOf(mode) = {v, w} /\ v # w
    BY <1>6 DEF Ways, WaysOf, ToSet
  <2>2. Len(F) = 2 * c /\ DOMAIN F = 1..(2 * c)
        /\ \A e \in 1..c : F[2 * e - 1] = Try(v, e) /\ F[2 * e] = Try(w, e)
    BY <1>1, <1>6, TwoWays
  <2> HIDE DEF F, v, w, c
  <2>3. \A e \in 1..c : 2 * e - 1 \in DOMAIN F /\ 2 * e \in DOMAIN F
    BY <1>1, <2>2
  <2>4. \A i \in DOMAIN F : \E e \in 1..c : i = 2 * e - 1 \/ i = 2 * e
    BY <1>1, <2>2, OddOrEven
  <2>5. \A e \in Endpoints : \A ssl \in ToSet(Ways(mode)) : \E i \in DOMAIN F : F[i] = Try(ssl, e)
    BY <1>1, <2>1, <2>2, <2>3
  <2>6. ASSUME NEW i \in DOMAIN F, NEW j \in DOMAIN F, F[i] = F[j] PROVE i = j
    <3>1. PICK e \in 1..c : i = 2 * e - 1 \/ i = 2 * e
      BY <2>4
    <3>2. PICK f \in 1..c : j = 2 * f - 1 \/ j = 2 * f
      BY <2>4
    <3>3. e = f
      BY <1>2, <2>2, <2>6, <3>1, <3>2
    <3>4. CASE i = 2 * e - 1 /\ j = 2 * e
      BY <1>2, <2>1, <2>2, <2>6, <3>4
    <3>5. CASE i = 2 * e /\ j = 2 * e - 1
      BY <1>2, <2>1, <2>2, <2>6, <3>5
    <3> QED BY <3>1, <3>2, <3>3, <3>4, <3>5
  <2>7. ASSUME NEW i \in DOMAIN F PROVE F[i] \in [ssl : WaysOf(mode), endpoint : Endpoints]
    <3>1. PICK e \in 1..c : i = 2 * e - 1 \/ i = 2 * e
      BY <2>4
    <3>2. F[i] = Try(v, e) \/ F[i] = Try(w, e)
      BY <2>2, <3>1
    <3>3. e \in Endpoints /\ v \in WaysOf(mode) /\ w \in WaysOf(mode)
      BY <1>1, <2>1
    <3> QED BY <1>4, <3>2, <3>3
  <2>8. ASSUME NEW i \in DOMAIN F, F[i].ssl = v PROVE i + 1 \in DOMAIN F /\ F[i + 1] = Try(w, F[i].endpoint)
    <3>1. PICK e \in 1..c : i = 2 * e - 1 \/ i = 2 * e
      BY <2>4
    <3>2. i = 2 * e - 1
      BY <1>3, <2>1, <2>2, <2>8, <3>1
    <3>3. i + 1 = 2 * e /\ F[i].endpoint = e
      BY <1>1, <1>3, <2>2, <3>2
    <3> QED BY <2>2, <2>3, <3>3
  <2>9. Len(F) \in Nat /\ DOMAIN F = 1..Len(F)
    BY <1>1, <2>2
  <2> QED BY <2>5, <2>6, <2>7, <2>8, <2>9 DEF F, v, w
<1> QED BY <1>5, <1>6 DEF SslModes

-----------------------------------------------------------------------------
(* The replies *)

LEMMA ReadFromStart ==
  ASSUME NEW replies, Negotiates(replies)
  PROVE  replies \in Seq(STRING) /\ ReadSoFar(replies, "Authentication", replies)
<1>1. replies \in Seq(STRING)
  BY DEF Negotiates
<1>2. PICK expected \in [1..Len(replies) -> Stages] : Negotiated(replies, expected)
  BY DEF Negotiates
<1>3. Len(replies) \in Nat /\ 1 \in 1..Len(replies) /\ Len(replies) = Len(replies) - 1 + 1
      /\ \A i \in 1..Len(replies) : i = 1 + i - 1
  <2>1. replies # <<>>
    BY <1>2 DEF Negotiated
  <2>2. Len(replies) \in Nat /\ Len(replies) # 0
    BY <1>1, <2>1, EmptySeq, LenProperties
  <2> QED BY <2>2
<1> QED BY <1>1, <1>2, <1>3 DEF Negotiated, ReadSoFar

\* What follows the first reply of those left is expected; if it ends the negotiation there are no more, and
\* it is the Ready that was expected just when the server welcomes.
LEMMA ReadOn ==
  ASSUME EstablishAssumption, NEW replies, NEW stage, NEW left, ReadSoFar(replies, stage, left)
  PROVE  LET x == Head(left)
             next == Following(stage, x) IN
         /\ stage \in Stages /\ left \in Seq(STRING) /\ Tail(left) \in Seq(STRING)
         /\ next # None => next \in Stages /\ ReadSoFar(replies, next, Tail(left))
         /\ next = None => (Welcomes(replies) <=> stage = "Ready" /\ x = "Ready")
<1> DEFINE x == Head(left)
           n == Len(replies)
<1>1. PICK expected \in [1..n -> Stages] :
        /\ Negotiated(replies, expected)
        /\ \E m \in 1..n :
             /\ expected[m] = stage /\ left \in Seq(STRING) /\ Len(left) = n - m + 1
             /\ \A i \in 1..Len(left) : left[i] = replies[m + i - 1]
  BY DEF ReadSoFar
<1>2. PICK m \in 1..n :
        /\ expected[m] = stage /\ left \in Seq(STRING) /\ Len(left) = n - m + 1
        /\ \A i \in 1..Len(left) : left[i] = replies[m + i - 1]
  BY <1>1
<1>3. m \in Int /\ n \in Int /\ 1 <= m /\ m <= n /\ Len(left) \in 1..n /\ left # <<>>
  <2>1. m \in Int /\ 1 <= m /\ n \in Int /\ m <= n
    BY <1>2, LenProperties
  <2>2. Len(left) \in 1..n
    BY <1>2, <2>1
  <2> QED BY <2>1, <2>2, <1>2, EmptySeq
<1>4. stage \in Stages /\ x = replies[m]
  <2>1. x = left[1] /\ 1 \in 1..Len(left) /\ m + 1 - 1 = m
    BY <1>2, <1>3, HeadTailProperties
  <2> QED BY <1>2, <2>1
<1>5. Tail(left) \in Seq(STRING) /\ Len(Tail(left)) = Len(left) - 1
      /\ \A i \in 1..(Len(left) - 1) : Tail(left)[i] = left[i + 1]
  BY <1>2, <1>3, HeadTailProperties
<1>6. \A s \in Stages : s # None
  BY EstablishAssumption
<1> HIDE DEF x, n
<1>7. CASE m = n
  <2>1. Following(stage, x) = None /\ (replies[n] = "Ready" => stage = "Ready")
    BY <1>1, <1>2, <1>4, <1>7 DEF Negotiated, n
  <2> QED BY <1>2, <1>4, <1>5, <1>7, <2>1 DEF Welcomes, x, n
<1>8. CASE m < n
  <2>1. m \in 1..(n - 1) /\ m + 1 \in 1..n
    BY <1>3, <1>8
  <2>2. Following(stage, x) = expected[m + 1]
    BY <1>1, <1>2, <1>4, <2>1 DEF Negotiated, n
  <2>3. Following(stage, x) \in Stages
    BY <1>1, <2>1, <2>2
  <2>4. Len(Tail(left)) = n - (m + 1) + 1
    BY <1>2, <1>3, <1>5
  <2>5. ASSUME NEW i \in 1..Len(Tail(left)) PROVE Tail(left)[i] = replies[(m + 1) + i - 1]
    <3>1. i \in 1..(Len(left) - 1) /\ i + 1 \in 1..Len(left) /\ m + (i + 1) - 1 = (m + 1) + i - 1
      BY <1>2, <1>3, <1>5
    <3> QED BY <1>2, <1>5, <3>1
  <2>6. ReadSoFar(replies, Following(stage, x), Tail(left))
    BY <1>1, <1>5, <2>1, <2>2, <2>4, <2>5 DEF ReadSoFar, n
  <2> QED BY <1>2, <1>4, <1>5, <1>6, <2>3, <2>6 DEF x
<1> QED BY <1>3, <1>7, <1>8

-----------------------------------------------------------------------------
(* The steps *)

LEMMA FactoriesNow ==
  ASSUME AttemptsUsed
  PROVE  /\ Len(Factories) \in Nat /\ DOMAIN Factories = 1..Len(Factories)
         /\ Len(attempts) \in Nat /\ Used \in 0..Len(Factories)
         /\ \A i \in DOMAIN Factories : Factories[i] \in [ssl : WaysOf(sslmode), endpoint : Endpoints]
<1>1. sslmode \in SslModes
  BY DEF AttemptsUsed
<1>2. /\ Len(Factories) \in Nat /\ DOMAIN Factories = 1..Len(Factories)
      /\ \A i \in DOMAIN Factories : Factories[i] \in [ssl : WaysOf(sslmode), endpoint : Endpoints]
  BY <1>1, FactoriesAre DEF Factories
<1>3. Len(attempts) \in Nat /\ Len(attempts) <= Len(Factories)
  BY LenProperties DEF AttemptsUsed
<1> QED BY <1>2, <1>3 DEF Used

LEMMA FInvInit == EstablishInit => FInv
<1> SUFFICES ASSUME EstablishInit PROVE FInv
  OBVIOUS
<1>1. /\ sslmode \in SslModes /\ servers \in [Endpoints -> Servers] /\ attempts = Factories
      /\ attempt = None /\ canSkip = FALSE /\ outcome = None
  BY DEF EstablishInit, SslModes, Factories
<1>2. Len(Factories) \in Nat /\ attempts \in Seq([ssl : WaysOf(sslmode), endpoint : Int])
  BY <1>1, FactoriesAre, FactoriesAllowed DEF Factories
<1>3. Used = 0 /\ \A i \in 1..Len(attempts) : 0 + i = i
  BY <1>1, <1>2 DEF Used
<1>4. AttemptsUsed
  BY <1>1, <1>2, <1>3 DEF AttemptsUsed
<1>5. UsedHopeless /\ SkipHopeless /\ AttemptConverses
  BY <1>1, <1>3 DEF UsedHopeless, SkipHopeless, AttemptConverses
<1>6. OutcomeJust
  BY <1>1, EstablishAssumption DEF OutcomeJust
<1> QED BY <1>4, <1>5, <1>6 DEF FInv

\* The loop takes the next attempt.
LEMMA Takes ==
  ASSUME AttemptsUsed, attempts # <<>>, attempts' = Tail(attempts), UNCHANGED <<sslmode, servers>>
  PROVE  /\ Factories' = Factories /\ Used' = Used + 1 /\ Used + 1 \in DOMAIN Factories
         /\ Head(attempts) = Factories[Used + 1]
         /\ attempts' \in Seq([ssl : WaysOf(sslmode), endpoint : Int])
         /\ Len(attempts') <= Len(Factories)
         /\ \A i \in 1..Len(attempts') : attempts'[i] = Factories[Used' + i]
<1> DEFINE T == [ssl : WaysOf(sslmode), endpoint : Int]
<1>1. attempts \in Seq(T) /\ Len(attempts) <= Len(Factories)
      /\ \A i \in 1..Len(attempts) : attempts[i] = Factories[Used + i]
  BY DEF AttemptsUsed
<1>2. Len(Factories) \in Nat /\ DOMAIN Factories = 1..Len(Factories) /\ Len(attempts) \in Nat
  BY FactoriesNow
<1> HIDE DEF T
<1>3. Len(attempts) # 0
  BY <1>1, EmptySeq
<1>4. /\ attempts' \in Seq(T) /\ Len(attempts') = Len(attempts) - 1 /\ Head(attempts) = attempts[1]
      /\ \A i \in 1..(Len(attempts) - 1) : attempts'[i] = attempts[i + 1]
  BY <1>1, HeadTailProperties
<1>5. Factories' = Factories
  BY DEF Factories
<1>6. Used \in Int /\ Used' = Used + 1 /\ Used + 1 \in DOMAIN Factories
  BY <1>1, <1>2, <1>3, <1>4, <1>5 DEF Used
<1>7. ASSUME NEW i \in 1..Len(attempts') PROVE attempts'[i] = Factories[Used' + i]
  <2>1. i \in 1..(Len(attempts) - 1) /\ i + 1 \in 1..Len(attempts) /\ Used + (i + 1) = Used' + i
    BY <1>2, <1>4, <1>6
  <2> QED BY <1>1, <1>4, <2>1
<1>8. Head(attempts) = Factories[Used + 1]
  BY <1>1, <1>2, <1>3, <1>4
<1> QED BY <1>1, <1>2, <1>4, <1>5, <1>6, <1>7, <1>8 DEF T

LEMMA SkipRight == ASSUME FInv, SkipAttempt PROVE FInv'
<1>1. /\ outcome = None /\ attempt = None /\ attempts # <<>> /\ canSkip /\ attempts' = Tail(attempts)
      /\ canSkip' = FALSE /\ UNCHANGED <<sslmode, servers, attempt, crashed, outcome>>
  BY DEF SkipAttempt
<1>2. /\ Factories' = Factories /\ Used' = Used + 1 /\ Used \in Nat
      /\ attempts' \in Seq([ssl : WaysOf(sslmode), endpoint : Int]) /\ Len(attempts') <= Len(Factories)
      /\ \A i \in 1..Len(attempts') : attempts'[i] = Factories[Used' + i]
  BY <1>1, Takes, FactoriesNow DEF FInv
<1>3. AttemptsUsed'
  BY <1>1, <1>2 DEF FInv, AttemptsUsed
<1>4. \A t : Hopeless(t)' <=> Hopeless(t)
  BY <1>1 DEF Hopeless
<1>5. ASSUME NEW i \in 1..Used' PROVE Hopeless(Factories[i])
  <2>1. CASE i = Used + 1
    BY <1>1, <2>1 DEF FInv, SkipHopeless
  <2>2. CASE i \in 1..Used
    BY <1>1, <2>2 DEF FInv, UsedHopeless
  <2> QED BY <1>2, <2>1, <2>2
<1>6. UsedHopeless'
  BY <1>2, <1>4, <1>5 DEF UsedHopeless
<1>7. SkipHopeless' /\ AttemptConverses' /\ OutcomeJust'
  BY <1>1, EstablishAssumption DEF SkipHopeless, AttemptConverses, OutcomeJust
<1> QED BY <1>3, <1>6, <1>7 DEF FInv

LEMMA CreateRight == ASSUME FInv, CreateSocket PROVE FInv'
<1> DEFINE a == [ssl |-> Head(attempts).ssl, endpoint |-> Head(attempts).endpoint, stage |-> "socket",
                 channel |-> "plain", didssl |-> None, replies |-> <<>>]
<1>1. /\ outcome = None /\ attempt = None /\ attempts # <<>> /\ ~canSkip /\ attempts' = Tail(attempts)
      /\ attempt' = a /\ UNCHANGED <<sslmode, servers, canSkip, crashed, outcome>>
  BY DEF CreateSocket
<1>2. /\ Factories' = Factories /\ Used' = Used + 1 /\ Used \in Nat
      /\ attempts' \in Seq([ssl : WaysOf(sslmode), endpoint : Int]) /\ Len(attempts') <= Len(Factories)
      /\ \A i \in 1..Len(attempts') : attempts'[i] = Factories[Used' + i]
      /\ Head(attempts) = Factories[Used']
      /\ Factories[Used'] \in [ssl : WaysOf(sslmode), endpoint : Endpoints]
  BY <1>1, Takes, FactoriesNow DEF FInv
<1>3. a.ssl \in {"plain", "must", "try"} /\ a.endpoint \in Endpoints
      /\ Factories[Used'] = Try(a.ssl, a.endpoint)
  <2>1. a.ssl \in WaysOf(sslmode) /\ a.endpoint \in Endpoints /\ Factories[Used'] = Try(a.ssl, a.endpoint)
    BY <1>2 DEF Try
  <2>2. sslmode \in SslModes
    BY DEF FInv, AttemptsUsed
  <2> QED BY <2>1, <2>2, WaysOfModes DEF SslModes
<1>4. a \in Attempts
  <2>1. <<>> \in Seq(STRING)
    OBVIOUS
  <2> QED BY <1>3, <2>1 DEF Attempts
<1>5. a.stage = "socket"
  OBVIOUS
<1> HIDE DEF a
<1>6. attempt' # None /\ AttemptsUsed'
  BY <1>1, <1>2, <1>3, <1>4, EstablishAssumption DEF FInv, AttemptsUsed
<1>7. \A t : Hopeless(t)' <=> Hopeless(t)
  BY <1>1 DEF Hopeless
<1>8. ASSUME NEW i \in 1..Used', i # Used' PROVE Hopeless(Factories[i])
  <2>1. i \in 1..Used
    BY <1>2, <1>8
  <2> QED BY <1>1, <2>1 DEF FInv, UsedHopeless
<1>9. UsedHopeless'
  BY <1>2, <1>6, <1>7, <1>8 DEF UsedHopeless
<1>10. SkipHopeless' /\ AttemptConverses'
  BY <1>1, <1>5 DEF SkipHopeless, AttemptConverses, Converses
<1>11. OutcomeJust'
  BY <1>1, EstablishAssumption DEF OutcomeJust
<1> QED BY <1>6, <1>9, <1>10, <1>11 DEF FInv

\* An attempt goes on.
LEMMA GoesRight ==
  ASSUME FInv, outcome = None, attempt # None, NEW a \in Attempts, attempt' = a,
         a.ssl = attempt.ssl, a.endpoint = attempt.endpoint, Converses(a, servers[a.endpoint]),
         UNCHANGED <<sslmode, servers, attempts, canSkip, crashed, outcome>>
  PROVE  FInv'
<1>1. attempt' # None /\ Factories' = Factories /\ Used' = Used
  BY EstablishAssumption DEF Factories, Used
<1>2. AttemptsUsed'
  BY <1>1 DEF FInv, AttemptsUsed
<1>3. \A t : Hopeless(t)' <=> Hopeless(t)
  BY DEF Hopeless
<1>4. UsedHopeless'
  BY <1>1, <1>3 DEF FInv, UsedHopeless
<1>5. SkipHopeless'
  BY DEF FInv, SkipHopeless
<1>6. AttemptConverses'
  BY DEF AttemptConverses
<1>7. OutcomeJust'
  BY EstablishAssumption DEF OutcomeJust
<1> QED BY <1>2, <1>4, <1>5, <1>6, <1>7 DEF FInv

\* An attempt fails: its server does not accept it, or the socket broke, and so for the attempt that is skipped.
LEMMA FailsRight ==
  ASSUME FInv, outcome = None, attempt # None, NEW a, NEW exception \in BOOLEAN, AttemptFails(a, exception),
         a.ssl = attempt.ssl, a.endpoint = attempt.endpoint,
         exception \/ ~Accepts(servers[a.endpoint], a.ssl),
         sslmode = "prefer" /\ a.ssl = "try" /\ a.didssl = FALSE => exception \/ ~Accepts(servers[a.endpoint], "plain")
  PROVE  FInv'
<1> DEFINE e == a.endpoint
<1>1. /\ attempt' = None /\ canSkip' = CanSkip(a, exception)
      /\ crashed' = IF exception /\ servers[e].up THEN crashed \cup {e} ELSE crashed
      /\ UNCHANGED <<sslmode, servers, attempts, outcome>>
  BY DEF AttemptFails
<1>2. /\ Factories' = Factories /\ Used' = Used /\ Used >= 1 /\ Used \in DOMAIN Factories
      /\ Factories[Used] = Try(a.ssl, e) /\ sslmode \in SslModes
      /\ Len(Factories) \in Nat /\ DOMAIN Factories = 1..Len(Factories) /\ Len(attempts) \in Nat
  <2>1. Used >= 1 /\ Factories[Used] = Try(a.ssl, e) /\ sslmode \in SslModes
    BY DEF FInv, AttemptsUsed
  <2>2. Used \in 0..Len(Factories) /\ Len(Factories) \in Nat /\ DOMAIN Factories = 1..Len(Factories)
        /\ Len(attempts) \in Nat
    BY FactoriesNow DEF FInv
  <2>3. Factories' = Factories /\ Used' = Used
    BY <1>1 DEF Factories, Used
  <2> QED BY <2>1, <2>2, <2>3
<1>3. AttemptsUsed'
  BY <1>1, <1>2 DEF FInv, AttemptsUsed
<1>4. \A t : Hopeless(t) => Hopeless(t)'
  BY <1>1 DEF Hopeless
<1>5. \A ssl : exception => Hopeless(Try(ssl, e))'
  <2> SUFFICES ASSUME NEW ssl, exception PROVE Hopeless(Try(ssl, e))'
    OBVIOUS
  <2>1. Try(ssl, e).endpoint = e
    BY DEF Try
  <2>2. CASE servers[e].up
    BY <1>1, <2>1, <2>2 DEF Hopeless, Try
  <2>3. CASE ~servers[e].up
    <3>1. ~Accepts(servers[e], Try(ssl, e).ssl)
      BY <2>3 DEF Accepts
    <3> QED BY <1>1, <2>1, <3>1 DEF Hopeless, Try
  <2> QED BY <2>2, <2>3
<1>6. \A ssl : ~Accepts(servers[e], ssl) => Hopeless(Try(ssl, e))'
  BY <1>1 DEF Hopeless, Try
<1>7. Hopeless(Factories[Used])'
  BY <1>1, <1>2, <1>5, <1>6
<1>8. UsedHopeless'
  <2> SUFFICES ASSUME NEW i \in 1..Used PROVE Hopeless(Factories[i])'
    BY <1>2 DEF UsedHopeless
  <2>1. CASE i = Used
    BY <1>2, <1>7, <2>1
  <2>2. CASE i # Used
    <3>1. Hopeless(Factories[i])
      BY <2>2 DEF FInv, UsedHopeless
    <3> QED BY <1>2, <1>4, <3>1
  <2> QED BY <2>1, <2>2
<1>9. SkipHopeless'
  <2> SUFFICES ASSUME CanSkip(a, exception) PROVE attempts # <<>> /\ Hopeless(Factories[Used + 1])'
    BY <1>1, <1>2 DEF SkipHopeless
  <2>1. /\ sslmode \in {"prefer", "allow"} /\ a.ssl = Ways(sslmode)[1]
        /\ exception \/ (sslmode = "prefer" /\ a.ssl = "try" /\ a.didssl = FALSE)
    BY DEF CanSkip, Ways
  <2>2. Try(a.ssl, e).ssl = a.ssl /\ Try(a.ssl, e).endpoint = e
    BY DEF Try
  <2>3. Used + 1 \in DOMAIN Factories /\ Factories[Used + 1] = Try(Ways(sslmode)[2], e)
    <3>1. \A i \in DOMAIN Factories : Factories[i].ssl = Ways(sslmode)[1] =>
            i + 1 \in DOMAIN Factories /\ Factories[i + 1] = Try(Ways(sslmode)[2], Factories[i].endpoint)
      BY <1>2, <2>1, FactoriesAre DEF Factories
    <3> QED BY <1>2, <2>1, <2>2, <3>1
  <2>4. attempts # <<>>
    <3>1. Len(attempts) # 0
      BY <1>2, <2>3 DEF Used
    <3> QED BY <3>1
  <2>5. sslmode = "prefer" => Ways(sslmode)[2] = "plain"
    BY DEF Ways
  <2> QED BY <1>2, <1>5, <1>6, <2>1, <2>3, <2>4, <2>5
<1>10. AttemptConverses' /\ OutcomeJust'
  BY <1>1, EstablishAssumption DEF AttemptConverses, OutcomeJust
<1> QED BY <1>3, <1>8, <1>9, <1>10 DEF FInv

\* The loop ends.
LEMMA FinishesRight ==
  ASSUME FInv, NEW result, Finishes(result),
         result = "connected" => attempt # None /\ Accepts(servers[attempt.endpoint], attempt.ssl),
         result = "failed" => attempt = None /\ attempts = <<>>
  PROVE  FInv'
<1>1. outcome' = result /\ UNCHANGED <<sslmode, servers, attempts, attempt, canSkip, crashed>>
  BY DEF Finishes
<1>2. Factories' = Factories /\ Used' = Used
  BY <1>1 DEF Factories, Used
<1>3. AttemptsUsed'
  BY <1>1, <1>2 DEF FInv, AttemptsUsed
<1>4. \A t : Hopeless(t)' <=> Hopeless(t)
  BY <1>1 DEF Hopeless
<1>5. UsedHopeless' /\ SkipHopeless'
  BY <1>1, <1>2, <1>4 DEF FInv, UsedHopeless, SkipHopeless
<1>6. AttemptConverses' /\ OutcomeJust'
  BY <1>1 DEF FInv, AttemptConverses, OutcomeJust
<1> QED BY <1>3, <1>5, <1>6 DEF FInv

LEMMA GreetsRight ==
  ASSUME FInv, outcome = None, attempt # None, NEW a \in Attempts, a.ssl = attempt.ssl, a.endpoint = attempt.endpoint,
         NEW channel \in {"plain", "ssl"}, Goes(Greeted(a, channel)), servers[a.endpoint].up,
         channel = "ssl" => servers[a.endpoint].ssl = "S" /\ servers[a.endpoint].handshake,
         channel = "plain" => (a.ssl = "try" => servers[a.endpoint].ssl = "N")
  PROVE  FInv'
<1> DEFINE s == servers[a.endpoint]
           g == Greeted(a, channel)
           R == IF channel = "ssl" THEN s.secure ELSE s.plain
<1>1. s \in Servers
  BY DEF FInv, AttemptsUsed, Attempts
<1>2. Negotiates(R)
  BY <1>1, ServersAssumption
<1>3. R \in Seq(STRING) /\ ReadSoFar(R, "Authentication", R)
  BY <1>2, ReadFromStart
<1>4. /\ g = [a EXCEPT !.stage = "Authentication", !.channel = channel, !.replies = R]
      /\ attempt' = g /\ UNCHANGED <<sslmode, servers, attempts, canSkip, crashed, outcome>>
  BY DEF Greeted, Goes
<1> HIDE DEF R, g
<1>5. /\ g \in Attempts /\ g.stage = "Authentication" /\ g.channel = channel /\ g.replies = R
      /\ g.ssl = a.ssl /\ g.endpoint = a.endpoint
  BY <1>3, <1>4 DEF Attempts, Stages
<1>6. Converses(g, s)
  BY <1>3, <1>5 DEF Converses, R
<1> QED BY <1>4, <1>5, <1>6, GoesRight

LEMMA ConnectRight == ASSUME EInv, FInv, ConnectSocket PROVE FInv'
<1>1. outcome = None /\ attempt # None /\ attempt.stage = "socket" /\ attempt \in Attempts
  BY DEF ConnectSocket, AtStage, FInv, AttemptsUsed
<1>2. attempt.ssl \in {"plain", "must", "try"}
  BY <1>1 DEF Attempts
<1>3. CASE ~servers[attempt.endpoint].up
  <2>1. AttemptFails(attempt, TRUE)
    BY <1>3 DEF ConnectSocket
  <2> QED BY <1>1, <2>1, FailsRight
<1>4. CASE servers[attempt.endpoint].up /\ attempt.ssl = "plain"
  <2>1. Goes(Greeted(attempt, "plain"))
    BY <1>4 DEF ConnectSocket
  <2> QED BY <1>1, <1>4, <2>1, GreetsRight
<1>5. CASE servers[attempt.endpoint].up /\ attempt.ssl # "plain"
  <2> DEFINE a == [attempt EXCEPT !.stage = "ssl"]
  <2>1. attempt' = a /\ UNCHANGED <<sslmode, servers, attempts, canSkip, crashed, outcome>>
    BY <1>5 DEF ConnectSocket, Goes
  <2>2. a \in Attempts /\ a.stage = "ssl" /\ a.ssl = attempt.ssl /\ a.endpoint = attempt.endpoint
    BY <1>1 DEF Attempts
  <2> HIDE DEF a
  <2>3. Converses(a, servers[a.endpoint])
    BY <1>5, <2>2 DEF Converses
  <2> QED BY <1>1, <2>1, <2>2, <2>3, GoesRight
<1> QED BY <1>3, <1>4, <1>5

LEMMA SSLRight == ASSUME EInv, FInv, NegotiateSSL PROVE FInv'
<1> DEFINE s == servers[attempt.endpoint]
           a == [attempt EXCEPT !.didssl = IF s.ssl = "S" THEN TRUE ELSE IF s.ssl = "N" THEN FALSE ELSE None]
<1>1. outcome = None /\ attempt # None /\ attempt.stage = "ssl" /\ attempt \in Attempts
  BY DEF NegotiateSSL, AtStage, FInv, AttemptsUsed
<1>2. attempt.ssl \in {"try", "must"}
  BY <1>1 DEF EInv, AttemptConsistent
<1>3. s.up
  BY <1>1 DEF FInv, AttemptConverses, Converses
<1>4. /\ a \in Attempts /\ a.ssl = attempt.ssl /\ a.endpoint = attempt.endpoint
      /\ a.didssl = IF s.ssl = "S" THEN TRUE ELSE IF s.ssl = "N" THEN FALSE ELSE None
  BY <1>1 DEF Attempts
<1>5. \/ s.ssl = "reset" /\ Finishes("raised")
      \/ s.ssl = "N" /\ a.ssl = "must" /\ AttemptFails(a, FALSE)
      \/ s.ssl = "N" /\ a.ssl # "must" /\ Goes(Greeted(a, "plain"))
      \/ s.ssl = "S" /\ s.handshake /\ Goes(Greeted(a, "ssl"))
      \/ s.ssl = "S" /\ ~s.handshake /\ AttemptFails(a, TRUE)
      \/ s.ssl \notin {"S", "N"} /\ AttemptFails(a, FALSE)
  BY DEF NegotiateSSL
<1> HIDE DEF a
<1>6. CASE s.ssl = "reset" /\ Finishes("raised")
  BY <1>6, FinishesRight
<1>7. CASE s.ssl = "N" /\ a.ssl = "must" /\ AttemptFails(a, FALSE)
  <2>1. ~Accepts(s, a.ssl)
    BY <1>7 DEF Accepts
  <2> QED BY <1>1, <1>4, <1>7, <2>1, FailsRight
<1>8. CASE s.ssl = "N" /\ a.ssl # "must" /\ Goes(Greeted(a, "plain"))
  BY <1>1, <1>3, <1>4, <1>8, GreetsRight
<1>9. CASE s.ssl = "S" /\ s.handshake /\ Goes(Greeted(a, "ssl"))
  BY <1>1, <1>3, <1>4, <1>9, GreetsRight
<1>10. CASE s.ssl = "S" /\ ~s.handshake /\ AttemptFails(a, TRUE)
  BY <1>1, <1>4, <1>10, FailsRight
<1>11. CASE s.ssl \notin {"S", "N"} /\ AttemptFails(a, FALSE)
  <2>1. ~Accepts(s, a.ssl)
    BY <1>2, <1>4, <1>11 DEF Accepts
  <2>2. a.didssl # FALSE
    BY <1>4, <1>11, EstablishAssumption
  <2> QED BY <1>1, <1>4, <1>11, <2>1, <2>2, FailsRight
<1> QED BY <1>5, <1>6, <1>7, <1>8, <1>9, <1>10, <1>11

LEMMA NegotiationRight == ASSUME EInv, FInv, Negotiation PROVE FInv'
<1> DEFINE s == servers[attempt.endpoint]
           x == Head(attempt.replies)
           next == Following(attempt.stage, x)
           R == IF attempt.channel = "ssl" THEN s.secure ELSE s.plain
<1>1. outcome = None /\ attempt # None /\ attempt.stage \notin {"socket", "ssl"} /\ attempt \in Attempts
  BY DEF Negotiation, FInv, AttemptsUsed
<1>2. Converses(attempt, s)
  BY <1>1 DEF FInv, AttemptConverses
<1>3. \/ attempt.channel = "ssl" /\ attempt.didssl = TRUE /\ attempt.ssl \in {"try", "must"}
      \/ attempt.channel = "plain" /\ attempt.didssl # TRUE /\ attempt.ssl \in {"try", "plain"}
  BY <1>1 DEF EInv, AttemptConsistent
<1>4. /\ s.up /\ ReadSoFar(R, attempt.stage, attempt.replies)
      /\ attempt.channel = "ssl" => s.ssl = "S" /\ s.handshake
      /\ attempt.channel = "plain" => (attempt.ssl = "try" => s.ssl = "N")
  BY <1>1, <1>2 DEF Converses
<1>5. Accepts(s, attempt.ssl) <=> Welcomes(R)
  BY <1>3, <1>4 DEF Accepts
<1>6. /\ Tail(attempt.replies) \in Seq(STRING)
      /\ next # None => next \in Stages /\ ReadSoFar(R, next, Tail(attempt.replies))
      /\ next = None => (Welcomes(R) <=> attempt.stage = "Ready" /\ x = "Ready")
  BY <1>4, ReadOn, EstablishAssumption
<1>7. \/ next # None /\ Expects(next, IF x \in Passwords THEN {attempt.channel} ELSE {})
      \/ next = None /\ attempt.stage = "Ready" /\ x = "Ready" /\ Finishes("connected")
      \/ next = None /\ ~(attempt.stage = "Ready" /\ x = "Ready") /\ AttemptFails(attempt, x = "reset")
  <2>1. attempt.stage = "Ready" /\ x = "Ready" => next = None
    BY DEF Following
  <2> HIDE DEF next, x
  <2> QED BY <2>1 DEF Negotiation, next, x
<1> HIDE DEF next, x, R
<1>8. CASE next # None /\ Expects(next, IF x \in Passwords THEN {attempt.channel} ELSE {})
  <2> DEFINE a == [attempt EXCEPT !.stage = next, !.replies = Tail(@)]
  <2>1. attempt' = a /\ UNCHANGED <<sslmode, servers, attempts, canSkip, crashed, outcome>>
    BY <1>8 DEF Expects
  <2>2. /\ a \in Attempts /\ a.stage = next /\ a.replies = Tail(attempt.replies)
        /\ a.ssl = attempt.ssl /\ a.endpoint = attempt.endpoint /\ a.channel = attempt.channel
    BY <1>1, <1>6, <1>8 DEF Attempts
  <2> HIDE DEF a
  <2>3. Converses(a, s)
    <3>1. ReadSoFar(R, a.stage, a.replies)
      BY <1>6, <1>8, <2>2
    <3> QED BY <1>3, <1>4, <2>2, <3>1 DEF Converses, R
  <2> QED BY <1>1, <2>1, <2>2, <2>3, GoesRight
<1>9. CASE next = None /\ attempt.stage = "Ready" /\ x = "Ready" /\ Finishes("connected")
  BY <1>1, <1>5, <1>6, <1>9, FinishesRight
<1>10. CASE next = None /\ ~(attempt.stage = "Ready" /\ x = "Ready") /\ AttemptFails(attempt, x = "reset")
  <2>1. ~Accepts(s, attempt.ssl) /\ ~Welcomes(R)
    BY <1>5, <1>6, <1>10
  <2>2. attempt.ssl = "try" /\ attempt.didssl = FALSE => ~Accepts(s, "plain")
    <3>1. attempt.didssl = FALSE => attempt.channel = "plain"
      BY <1>3
    <3>2. attempt.channel = "plain" => ~Welcomes(s.plain)
      BY <2>1 DEF R
    <3> QED BY <3>1, <3>2 DEF Accepts
  <2>3. (x = "reset") \in BOOLEAN
    OBVIOUS
  <2> QED BY <1>1, <1>10, <2>1, <2>2, <2>3, FailsRight
<1> QED BY <1>7, <1>8, <1>9, <1>10

\* The property follows: the attempts before the chosen one are those that were used before it.
LEMMA FirstIsRight == FInv => FirstThatAccepts
<1> SUFFICES ASSUME FInv PROVE FirstThatAccepts
  OBVIOUS
<1>1. sslmode \in SslModes
  BY DEF FInv, AttemptsUsed
<1>2. /\ Len(Factories) \in Nat /\ DOMAIN Factories = 1..Len(Factories)
      /\ \A e \in Endpoints : \A ssl \in ToSet(Ways(sslmode)) : \E i \in DOMAIN Factories : Factories[i] = Try(ssl, e)
      /\ \A i, j \in DOMAIN Factories : Factories[i] = Factories[j] => i = j
  BY <1>1, FactoriesAre DEF Factories
<1>3. Used \in 0..Len(Factories) /\ Len(attempts) \in Nat
  BY FactoriesNow DEF FInv
<1>4. outcome = "connected" => attempt # None /\ Accepts(servers[attempt.endpoint], attempt.ssl)
  BY DEF FInv, OutcomeJust
<1>5. ASSUME NEW e \in Endpoints \ crashed, NEW ssl \in ToSet(Ways(sslmode)),
             NEW i \in 1..Used, Factories[i] = Try(ssl, e), attempt = None \/ i # Used
      PROVE  ~Accepts(servers[e], ssl)
  <2>1. Hopeless(Try(ssl, e))
    BY <1>5 DEF FInv, UsedHopeless
  <2> QED BY <2>1 DEF Hopeless, Try
<1>6. ASSUME outcome \in {"connected", "failed"}, NEW e \in Endpoints \ crashed, NEW ssl \in ToSet(Ways(sslmode)),
             outcome = "failed" \/ Before(Try(ssl, e))
      PROVE  ~Accepts(servers[e], ssl)
  <2>1. PICK i \in DOMAIN Factories : Factories[i] = Try(ssl, e)
    BY <1>2
  <2>2. CASE outcome = "failed"
    <3>1. attempt = None /\ attempts = <<>>
      BY <2>2 DEF FInv, OutcomeJust
    <3>2. Used = Len(Factories)
      BY <1>2, <3>1 DEF Used
    <3> QED BY <1>2, <1>5, <2>1, <3>1, <3>2
  <2>3. CASE outcome = "connected" /\ Before(Try(ssl, e))
    <3>1. attempt # None /\ Used >= 1 /\ Factories[Used] = Chosen
      BY <1>4, <2>3 DEF FInv, AttemptsUsed, Chosen
    <3>2. PICK j \in DOMAIN Factories : Factories[j] = Chosen /\ i < j
      BY <2>1, <2>3 DEF Before, Factories
    <3>3. Used \in DOMAIN Factories
      BY <1>2, <1>3, <3>1
    <3>4. j = Used
      BY <1>2, <3>1, <3>2, <3>3
    <3>5. i \in 1..Used /\ i # Used
      BY <1>2, <1>3, <2>1, <3>2, <3>4
    <3> QED BY <1>5, <2>1, <3>5
  <2> QED BY <1>6, <2>2, <2>3
<1> QED BY <1>4, <1>6 DEF FirstThatAccepts

-----------------------------------------------------------------------------
\* Connection._establish(): for every list of endpoints and whatever is there, the connection that is made comes of
\* the first attempt, in the order of sslmode, that its server accepts, and none is made only if there is none, but
\* for endpoints whose socket broke; and sslmode is respected.
THEOREM FirstAttemptTaken == EstablishSpec => []EstablishedAsAsked
<1>1. EInv /\ FInv /\ [EstablishNext]_establishVars => FInv'
  <2> SUFFICES ASSUME EInv, FInv, [EstablishNext]_establishVars PROVE FInv'
    OBVIOUS
  <2>1. CASE NoServersAvailable
    BY <2>1, FinishesRight DEF NoServersAvailable
  <2>2. CASE UNCHANGED establishVars
    <3>1. UNCHANGED <<sslmode, servers, attempts, attempt, canSkip, crashed, outcome>>
      BY <2>2 DEF establishVars
    <3>2. Factories' = Factories /\ Used' = Used
      BY <3>1 DEF Factories, Used
    <3>3. \A t : Hopeless(t)' <=> Hopeless(t)
      BY <3>1 DEF Hopeless
    <3>4. AttemptsUsed' /\ UsedHopeless' /\ SkipHopeless'
      BY <3>1, <3>2, <3>3 DEF FInv, AttemptsUsed, UsedHopeless, SkipHopeless
    <3>5. AttemptConverses' /\ OutcomeJust'
      BY <3>1 DEF FInv, AttemptConverses, OutcomeJust
    <3> QED BY <3>4, <3>5 DEF FInv
  <2> QED BY <2>1, <2>2, SkipRight, CreateRight, ConnectRight, SSLRight, NegotiationRight DEF EstablishNext
<1>2. SecurityAsAsked /\ FInv => EstablishedAsAsked
  BY FirstIsRight DEF EstablishedAsAsked
<1>3. EInv => SecurityAsAsked
  BY DEF EInv
<1> QED BY <1>1, <1>2, <1>3, EInvInit, FInvInit, EInvStep, PTL DEF EstablishSpec

-----------------------------------------------------------------------------
(* ClusterControl                                                          *)
(*                                                                         *)
(* The object never loses the handle of a server it has started.  The      *)
(* property is not inductive: running() clears the handle two steps after  *)
(* it polled the process, and stop, drop and start act on an answer given  *)
(* before.  So the invariant says what the innermost frame relies on, and  *)
(* which frames may stand on which: an answer is always that of the frame  *)
(* just above.                                                             *)

\* Frames that act on the answer of running(), and those it is asked with.
NeedsAnswer == {"unless running", "check stopped", "drop running"}
Asking == {"running", "read pid file", "probe"}
Tried == {"tried shutdown", "tried kill"}
Frame ==
  Methods \cup Asking \cup NeedsAnswer \cup Tried
  \cup {"SIGKILL", "SIGTERM or SIGINT", "check starting", "connect", "check started",
        "restart running", "restart stopped", "rmdir"}

\* The frame x may stand on the frame y: a frame that needs an answer is under the question, one that looks at the
\* outcome of a wait is under that wait, and nothing is under drop().
Fits(x, y) ==
  /\ y \in NeedsAnswer => x \in Asking
  /\ y \in Tried => x \in {"wait_until_stopped", "check stopped"}
  /\ y = "rmdir" => x \in Tried
  /\ y \notin {"read pid file", "probe"}
  /\ x \notin {"drop", "drop running", "rmdir"}
Stacked(fs) == fs \in Seq(Frame) /\ \A i \in 1..(Len(fs) - 1) : Fits(fs[i], fs[i + 1])

\* No server of this object is left.
Over == \A p \in mine : proc[p] \notin Serving

\* What the innermost frame relies on.
HeadRelies ==
  frames # <<>> =>
    /\ Head(frames) = "read pid file" => daemon = None \/ polled
    /\ Head(frames) = "probe" => daemon = None
    /\ Head(frames) \in NeedsAnswer => answer \/ Over
    /\ Head(frames) \in Tried => raised # None \/ stopped
    /\ Head(frames) = "rmdir" => warned \/ Over

\* The handle: of a server that was started and, until it was polled, lives or is a zombie.
HandleInv ==
  /\ \A p \in mine : proc[p] # "none" /\ (proc[p] \in Serving => daemon = p)
  /\ daemon # None => daemon \in mine
  /\ daemon # None /\ ~polled => proc[daemon] \in Serving \cup {"zombie"}
  /\ polled /\ daemon # None => proc[daemon] \in {"gone", "foreign"}

KInv ==
  /\ ClusterTypeOK /\ answer \in BOOLEAN /\ stopped \in BOOLEAN /\ warned \in BOOLEAN /\ datadir \in BOOLEAN
  /\ Stacked(frames) /\ HandleInv /\ HeadRelies
  /\ stopped => Over
  /\ ~datadir => frames = <<>> /\ (warned \/ Over)

-----------------------------------------------------------------------------
(* The stack *)

LEMMA Popped ==
  ASSUME NEW fs, Stacked(fs), fs # <<>>
  PROVE  /\ Head(fs) \in Frame /\ Stacked(Tail(fs))
         /\ Tail(fs) # <<>> => Fits(Head(fs), Head(Tail(fs)))
<1>1. fs \in Seq(Frame) /\ Len(fs) \in Nat /\ Len(fs) > 0 /\ Head(fs) = fs[1]
  BY HeadTailProperties DEF Stacked
<1>2. Tail(fs) \in Seq(Frame) /\ Len(Tail(fs)) = Len(fs) - 1
      /\ \A i \in 1..Len(Tail(fs)) : Tail(fs)[i] = fs[i + 1]
  BY <1>1, HeadTailProperties
<1>3. Head(fs) \in Frame
  BY <1>1, ElementOfSeq
<1>4. Stacked(Tail(fs))
  BY <1>1, <1>2 DEF Stacked
<1>5. ASSUME Tail(fs) # <<>> PROVE Fits(Head(fs), Head(Tail(fs)))
  <2>1. Len(Tail(fs)) # 0 /\ Head(Tail(fs)) = Tail(fs)[1]
    BY <1>2, <1>5, EmptySeq, HeadTailProperties
  <2> QED BY <1>1, <1>2, <2>1 DEF Stacked
<1> QED BY <1>3, <1>4, <1>5

\* A frame replaced by others, the last of which may stand where it stood.
LEMMA Replaced ==
  ASSUME NEW fs, Stacked(fs), fs # <<>>, NEW new, Stacked(new), new # <<>>,
         \A y \in Frame : Fits(Head(fs), y) => Fits(new[Len(new)], y)
  PROVE  Stacked(new \o Tail(fs)) /\ new \o Tail(fs) # <<>> /\ Head(new \o Tail(fs)) = Head(new)
<1> DEFINE t == Tail(fs)
<1>1. /\ Stacked(t) /\ t \in Seq(Frame) /\ new \in Seq(Frame) /\ Len(new) \in Nat /\ Len(new) > 0 /\ Len(t) \in Nat
  BY Popped, EmptySeq, LenProperties DEF Stacked
<1>2. t # <<>> => Fits(Head(fs), t[1])
  BY <1>1, Popped, HeadTailProperties
<1> HIDE DEF t
<1>3. /\ new \o t \in Seq(Frame) /\ Len(new \o t) = Len(new) + Len(t)
      /\ \A i \in 1..(Len(new) + Len(t)) : (new \o t)[i] = IF i <= Len(new) THEN new[i] ELSE t[i - Len(new)]
  BY <1>1, ConcatProperties
<1>4. ASSUME NEW i \in 1..(Len(new \o t) - 1) PROVE Fits((new \o t)[i], (new \o t)[i + 1])
  <2>1. CASE i < Len(new)
    BY <1>1, <1>3, <2>1 DEF Stacked
  <2>2. CASE i = Len(new)
    <3>1. t[1] \in Frame /\ t # <<>> /\ (new \o t)[i] = new[Len(new)] /\ (new \o t)[i + 1] = t[1]
      BY <1>1, <1>3, <2>2, EmptySeq, ElementOfSeq
    <3> QED BY <1>2, <3>1
  <2>3. CASE i > Len(new)
    <3>1. /\ (new \o t)[i] = t[i - Len(new)] /\ (new \o t)[i + 1] = t[(i - Len(new)) + 1]
          /\ i - Len(new) \in 1..(Len(t) - 1)
      BY <1>1, <1>3, <2>3
    <3> QED BY <1>1, <3>1 DEF Stacked
  <2> QED BY <1>1, <2>1, <2>2, <2>3
<1>5. new \o t # <<>> /\ Head(new \o t) = Head(new)
  BY <1>1, <1>3, EmptySeq, HeadTailProperties
<1> QED BY <1>3, <1>4, <1>5 DEF Stacked, t

-----------------------------------------------------------------------------
(* Processes: a step of the host or a signal starts nothing of this object's *)

ProcEvolves ==
  /\ proc' \in [Pids -> Serving \cup {"none", "gone", "zombie", "foreign"}]
  /\ \A p \in Pids :
       /\ proc'[p] \in Serving => proc[p] \in Serving \/ proc[p] = "none"
       /\ proc'[p] = "none" => proc[p] = "none"
       /\ proc[p] \in {"gone", "foreign"} => proc'[p] \in {"gone", "foreign"}
       /\ p = daemon /\ ~polled /\ proc[p] \in Serving \cup {"zombie"} => proc'[p] \in Serving \cup {"zombie"}

LEMMA HostStepEvolves ==
  ASSUME ClusterTypeOK, HandleInv, HostStep
  PROVE  ProcEvolves /\ pidfile' \in Pids \cup {None}
<1> USE DEF ClusterTypeOK, HandleInv, Serving
<1>1. PICK p \in Pids : LockDataDir(p) \/ BecomeReady(p) \/ Unlock(p) \/ Terminate(p) \/ Crash(p)
                        \/ StartElsewhere(p) \/ StopElsewhere(p) \/ Recycle(p)
  BY DEF HostStep
<1>2. pidfile' \in Pids \cup {None}
  BY <1>1 DEF LockDataDir, BecomeReady, Unlock, Terminate, Crash, StartElsewhere, StopElsewhere, Recycle
<1>3. \/ proc[p] \in Serving /\ proc' = [proc EXCEPT ![p] = IF daemon = p /\ ~polled THEN "zombie" ELSE "gone"]
      \/ proc[p] \in Serving /\ \E s \in Serving : proc' = [proc EXCEPT ![p] = s]
      \/ proc[p] = "none" /\ proc' = [proc EXCEPT ![p] = "new"]
      \/ proc[p] = "gone" /\ proc' = [proc EXCEPT ![p] = "foreign"]
  BY <1>1 DEF LockDataDir, BecomeReady, Unlock, Terminate, Crash, StartElsewhere, StopElsewhere, Recycle, Dead
<1>4. ProcEvolves
  BY <1>3 DEF ProcEvolves
<1> QED BY <1>2, <1>4

\* What a step keeps that leaves the object's handle alone.
LEMMA EvolvesKeeps ==
  ASSUME ClusterTypeOK, HandleInv, ProcEvolves, UNCHANGED object
  PROVE  HandleInv' /\ (Over => Over')
<1> USE DEF object, ClusterTypeOK, HandleInv, ProcEvolves
<1>1. \A p \in mine : p \in Pids
  OBVIOUS
<1>2. \A p \in mine : proc'[p] # "none" /\ (proc'[p] \in Serving => daemon' = p)
  BY <1>1
<1>3. daemon' # None => daemon' \in mine'
  OBVIOUS
<1>4. daemon' # None => daemon' \in Pids
  BY <1>1, <1>3
<1>5. daemon' # None /\ ~polled' => proc'[daemon'] \in Serving \cup {"zombie"}
  BY <1>4
<1>6. polled' /\ daemon' # None => proc'[daemon'] \in {"gone", "foreign"}
  BY <1>4
<1>7. Over => Over'
  BY <1>1 DEF Over
<1> QED BY <1>2, <1>3, <1>5, <1>6, <1>7

\* Without a handle, or with that of a process that was polled, none of the servers started lives.
LEMMA NoHandleIsOver == ASSUME HandleInv, daemon = None \/ polled, mine \subseteq Pids, ClusterAssumption PROVE Over
  BY DEF HandleInv, Over, Serving, ClusterAssumption

-----------------------------------------------------------------------------
(* Steps of the methods that look at nothing but the frames *)

\* The innermost frame replaced, with nothing else changed than what only the frames above it care for.
LEMMA GotoKeeps ==
  ASSUME KInv, NEW new, frames # <<>>, frames' = new \o Tail(frames),
         Stacked(new), new # <<>>, \A y \in Frame : Fits(Head(frames), y) => Fits(new[Len(new)], y)
  PROVE  Stacked(frames)' /\ frames' # <<>> /\ Head(frames') = Head(new)
  BY Replaced DEF KInv

\* The innermost frame taken away.
LEMMA ReturnKeeps ==
  ASSUME KInv, frames # <<>>, frames' = Tail(frames)
  PROVE  /\ Stacked(frames)' /\ Head(frames) \in Frame
         /\ frames' # <<>> => Fits(Head(frames), Head(frames'))
  BY Popped DEF KInv

LEMMA FewEnds ==
  ASSUME NEW w, NEW x, NEW y, NEW z
  PROVE  /\ <<x>> # <<>> /\ Head(<<x>>) = x /\ <<x>>[Len(<<x>>)] = x
         /\ <<x, y>> # <<>> /\ Head(<<x, y>>) = x /\ <<x, y>>[Len(<<x, y>>)] = y
         /\ <<w, x, y>> # <<>> /\ Head(<<w, x, y>>) = w /\ <<w, x, y>>[Len(<<w, x, y>>)] = y
         /\ <<w, x, y, z>> # <<>> /\ Head(<<w, x, y, z>>) = w /\ <<w, x, y, z>>[Len(<<w, x, y, z>>)] = z
<1>1. <<x>> # <<>> /\ Head(<<x>>) = x /\ <<x>>[Len(<<x>>)] = x
  OBVIOUS
<1>2. <<x, y>> # <<>> /\ Head(<<x, y>>) = x /\ <<x, y>>[Len(<<x, y>>)] = y
  OBVIOUS
<1>3. <<w, x, y>> # <<>> /\ Head(<<w, x, y>>) = w /\ <<w, x, y>>[Len(<<w, x, y>>)] = y
  OBVIOUS
<1>4. <<w, x, y, z>> # <<>> /\ Head(<<w, x, y, z>>) = w /\ <<w, x, y, z>>[Len(<<w, x, y, z>>)] = z
  OBVIOUS
<1> QED BY <1>1, <1>2, <1>3, <1>4

LEMMA StackedFew ==
  ASSUME NEW w \in Frame, NEW x \in Frame, NEW y \in Frame, NEW z \in Frame
  PROVE  /\ Stacked(<<x>>)
         /\ Fits(x, y) => Stacked(<<x, y>>)
         /\ Fits(w, x) /\ Fits(x, y) => Stacked(<<w, x, y>>)
         /\ Fits(w, x) /\ Fits(x, y) /\ Fits(y, z) => Stacked(<<w, x, y, z>>)
<1>1. Stacked(<<x>>)
  BY DEF Stacked
<1>2. Fits(x, y) => Stacked(<<x, y>>)
  BY DEF Stacked
<1>3. Fits(w, x) /\ Fits(x, y) => Stacked(<<w, x, y>>)
  BY DEF Stacked
<1>4. Fits(w, x) /\ Fits(x, y) /\ Fits(y, z) => Stacked(<<w, x, y, z>>)
  BY DEF Stacked
<1> QED BY <1>1, <1>2, <1>3, <1>4

\* What drop() catches, it goes on with at the wait that timed out.
LEMMA CaughtAtWait ==
  ASSUME NEW fs, Stacked(fs), NEW exc
  PROVE  /\ Stacked(Caught(fs, exc))
         /\ Caught(fs, exc) # <<>> => exc = "timeout" /\ Head(Caught(fs, exc)) \in Tried
<1>1. fs \in Seq(Frame) /\ Len(fs) \in Nat /\ DOMAIN fs = 1..Len(fs)
  BY LenProperties DEF Stacked
<1> DEFINE T == {i \in DOMAIN fs : fs[i] \in Tried}
           First(i) == i \in DOMAIN fs /\ fs[i] \in Tried /\ \A j \in 1..(i - 1) : fs[j] \notin Tried
<1>2. CASE exc = "timeout" /\ T # {}
  <2>1. T \in SUBSET Nat
    BY <1>1
  <2>2. PICK i \in T : \A j \in T : i <= j
    BY <1>2, <2>1, LeastNatural
  <2>3. First(i)
    BY <1>1, <2>1, <2>2
  <2> DEFINE k == CHOOSE n \in DOMAIN fs : fs[n] \in Tried /\ \A j \in 1..(n - 1) : fs[j] \notin Tried
  <2>4. k \in DOMAIN fs /\ fs[k] \in Tried
    BY <2>3
  <2>5. Caught(fs, exc) = SubSeq(fs, k, Len(fs))
    BY <1>2 DEF Caught, Tried
  <2> HIDE DEF k
  <2>6. k \in 1..Len(fs)
    BY <1>1, <2>4
  <2> DEFINE c == SubSeq(fs, k, Len(fs))
  <2>7. /\ c \in Seq(Frame) /\ Len(c) = Len(fs) - k + 1
        /\ \A j \in 1..(Len(fs) - k + 1) : c[j] = fs[k + j - 1]
    <3>1. \A j \in k..Len(fs) : fs[j] \in Frame
      BY <1>1, <2>6, ElementOfSeq
    <3> QED BY <1>1, <2>6, <3>1, SubSeqProperties
  <2> HIDE DEF c
  <2>8. \A j \in 1..(Len(c) - 1) : Fits(c[j], c[j + 1])
    <3> SUFFICES ASSUME NEW j \in 1..(Len(c) - 1) PROVE Fits(c[j], c[j + 1])
      OBVIOUS
    <3> DEFINE h == k + j - 1
    <3>1. Len(fs) \in Nat /\ k \in 1..Len(fs) /\ Len(c) = Len(fs) - k + 1
      BY <1>1, <2>6, <2>7
    <3>2. j \in 1..(Len(fs) - k + 1) /\ j + 1 \in 1..(Len(fs) - k + 1) /\ h \in 1..(Len(fs) - 1)
          /\ k + (j + 1) - 1 = h + 1
      BY <3>1
    <3>3. c[j] = fs[h] /\ c[j + 1] = fs[h + 1]
      BY <2>7, <3>2
    <3> HIDE DEF h
    <3>4. Fits(fs[h], fs[h + 1])
      BY <3>2 DEF Stacked
    <3> QED BY <3>3, <3>4
  <2>9. Head(c) = fs[k]
    BY <1>1, <2>6, <2>7, HeadTailProperties, EmptySeq
  <2> QED BY <1>2, <2>4, <2>5, <2>7, <2>8, <2>9 DEF Stacked, c
<1>3. CASE ~(exc = "timeout" /\ T # {})
  <2>1. Caught(fs, exc) = <<>>
    BY <1>3 DEF Caught, Tried
  <2> QED BY <2>1, EmptySeq DEF Stacked
<1> QED BY <1>2, <1>3

\* A step that changes the frames and what a wait told, for a new innermost frame that relies on nothing it has not.
LEMMA QuietKeeps ==
  ASSUME KInv, frames # <<>>, UNCHANGED <<host, object>>, Stacked(frames)', HeadRelies',
         answer' \in BOOLEAN, warned' \in BOOLEAN, UNCHANGED stopped
  PROVE  KInv'
<1> USE DEF KInv, host, object
<1>1. ClusterTypeOK' /\ HandleInv' /\ Over' = Over
  BY DEF ClusterTypeOK, HandleInv, Over
<1> QED BY <1>1

\* The frames that rely on something.
Relying == NeedsAnswer \cup Tried \cup {"read pid file", "probe", "rmdir"}
LEMMA HeadFree ==
  ASSUME frames' = <<>> \/ Head(frames') \notin Relying
  PROVE  HeadRelies'
  BY DEF HeadRelies, Relying

LEMMA PoppedFree ==
  ASSUME NEW x, NEW y, Fits(x, y), x \notin Asking \cup Tried \cup {"wait_until_stopped", "check stopped"}
  PROVE  y \notin Relying
  BY DEF Fits, Relying

LEMMA RaiseKeeps ==
  ASSUME KInv, frames # <<>>, UNCHANGED <<host, object, answer, warned>>, NEW exc, Raise(exc), ClusterAssumption
  PROVE  KInv'
<1>1. raised' = exc /\ frames' = Caught(frames, exc) /\ UNCHANGED stopped
  BY DEF Raise
<1>2. Stacked(frames)' /\ (frames' # <<>> => exc = "timeout" /\ Head(frames') \in Tried)
  BY <1>1, CaughtAtWait DEF KInv
<1>3. HeadRelies'
  BY <1>1, <1>2 DEF HeadRelies, Tried, NeedsAnswer, ClusterAssumption
<1> QED BY <1>1, <1>2, <1>3, QuietKeeps DEF KInv

\* The innermost frame replaced by frames that begin with one that relies on nothing.
LEMMA GotoFreeKeeps ==
  ASSUME KInv, frames # <<>>, UNCHANGED <<host, object, answer, warned>>, NEW new, Goto(new),
         Stacked(new), new # <<>>, \A y \in Frame : Fits(Head(frames), y) => Fits(new[Len(new)], y),
         Head(new) \notin Relying
  PROVE  KInv'
<1>1. frames' = new \o Tail(frames) /\ UNCHANGED stopped
  BY DEF Goto
<1>2. Stacked(frames)' /\ Head(frames') = Head(new)
  BY <1>1, GotoKeeps
<1> QED BY <1>1, <1>2, HeadFree, QuietKeeps DEF KInv

\* The innermost frame taken away from one that relies on nothing.
LEMMA GoneFreeKeeps ==
  ASSUME KInv, frames # <<>>, UNCHANGED <<host, object, warned>>, answer' \in BOOLEAN, frames' = Tail(frames),
         UNCHANGED stopped, Head(frames) \notin Asking \cup Tried \cup {"wait_until_stopped", "check stopped"}
  PROVE  KInv'
<1>1. Stacked(frames)' /\ (frames' # <<>> => Fits(Head(frames), Head(frames')))
  BY ReturnKeeps
<1>2. frames' = <<>> \/ Head(frames') \notin Relying
  BY <1>1, PoppedFree
<1> QED BY <1>1, <1>2, HeadFree, QuietKeeps DEF KInv

LEMMA NothingFirst == \A fs : Stacked(fs) => <<>> \o Tail(fs) = Tail(fs) \/ fs = <<>>
<1> SUFFICES ASSUME NEW fs, Stacked(fs), fs # <<>> PROVE <<>> \o Tail(fs) = Tail(fs)
  OBVIOUS
<1>1. Tail(fs) \in Seq(Frame)
  BY Popped DEF Stacked
<1> QED BY <1>1, ConcatEmptySeq

-----------------------------------------------------------------------------
(* The actions *)

LEMMA KInvInit == ASSUME ClusterAssumption, ClusterInit PROVE KInv
<1> USE DEF ClusterInit, ClusterAssumption
<1>1. ClusterTypeOK /\ HandleInv /\ Over
  BY DEF ClusterTypeOK, HandleInv, Over, Serving
<1>2. Stacked(frames) /\ HeadRelies
  BY EmptySeq DEF Stacked, HeadRelies
<1> QED BY <1>1, <1>2 DEF KInv

LEMMA KeptByHost == ASSUME KInv, HostStep PROVE KInv'
<1>1. ProcEvolves /\ pidfile' \in Pids \cup {None}
  BY HostStepEvolves DEF KInv
<1>2. UNCHANGED <<datadir, object, frames, answer, seen, raised, stopped, warned>>
  BY DEF HostStep
<1>3. HandleInv' /\ (Over => Over')
  BY <1>1, <1>2, EvolvesKeeps DEF KInv
<1>4. ClusterTypeOK'
  BY <1>1, <1>2 DEF ClusterTypeOK, ProcEvolves, object, KInv
<1>5. Stacked(frames)' /\ HeadRelies'
  BY <1>2, <1>3 DEF KInv, Stacked, HeadRelies, object
<1> QED BY <1>2, <1>3, <1>4, <1>5 DEF KInv

LEMMA KeptByCall == ASSUME KInv, CallMethod PROVE KInv'
<1>1. PICK method \in Methods : frames' = <<method>>
  BY DEF CallMethod
<1>2. Stacked(frames)'
  BY <1>1, StackedFew DEF Frame
<1>3. HeadRelies'
  <2>1. Head(frames') = method
    BY <1>1
  <2>2. method \notin Relying
    BY DEF Methods, Relying, NeedsAnswer, Tried
  <2> QED BY <2>1, <2>2, HeadFree
<1>4. /\ UNCHANGED <<host, object, answer>> /\ stopped' = FALSE /\ warned' = FALSE /\ datadir
  BY DEF CallMethod
<1>5. ClusterTypeOK' /\ HandleInv'
  BY <1>4 DEF KInv, ClusterTypeOK, HandleInv, host, object
<1> QED BY <1>2, <1>3, <1>4, <1>5 DEF KInv, host

LEMMA KeptByEnter ==
  ASSUME KInv,
         \/ EnterMethod("start", <<"running", "unless running">>)
         \/ EnterMethod("wait_until_started", <<"running", "check starting">>)
         \/ EnterMethod("wait_until_stopped", <<"running", "check stopped">>)
         \/ EnterMethod("restart", <<"running", "restart running">>) \/ EnterMethod("drop", <<"running", "drop running">>)
  PROVE  KInv'
<1>1. ASSUME NEW m \in Frame, NEW f \in Frame, EnterMethod(m, <<"running", f>>), f \notin {"read pid file", "probe", "rmdir"} \cup Tried,
             \A y \in Frame : Fits(m, y) => Fits(f, y)
      PROVE  KInv'
  <2>1. Stacked(<<"running", f>>)
    BY <1>1, StackedFew DEF Fits, Frame, Asking
  <2>2. "running" \notin Relying
    BY DEF Relying, NeedsAnswer, Tried
  <2> DEFINE new == <<"running", f>>
  <2>3. Head(new) = "running" /\ new[Len(new)] = f /\ new # <<>>
    BY FewEnds
  <2>4. frames # <<>> /\ Head(frames) = m /\ Goto(new) /\ UNCHANGED <<host, object, answer, warned>>
    BY <1>1 DEF EnterMethod, InFrame
  <2> HIDE DEF new
  <2> QED BY <1>1, <2>1, <2>2, <2>3, <2>4, GotoFreeKeeps DEF new
<1> USE DEF Frame, Methods, Asking, NeedsAnswer, Tried, Fits
<1>2. CASE EnterMethod("start", <<"running", "unless running">>)
  BY <1>1, <1>2
<1>3. CASE EnterMethod("wait_until_started", <<"running", "check starting">>)
  BY <1>1, <1>3
<1>4. CASE EnterMethod("wait_until_stopped", <<"running", "check stopped">>)
  BY <1>1, <1>4
<1>5. CASE EnterMethod("restart", <<"running", "restart running">>)
  BY <1>1, <1>5
<1>6. CASE EnterMethod("drop", <<"running", "drop running">>)
  BY <1>1, <1>6
<1> QED BY <1>2, <1>3, <1>4, <1>5, <1>6

LEMMA StepKeeps ==
  ASSUME KInv, frames # <<>>, UNCHANGED datadir, ClusterTypeOK', HandleInv', Stacked(frames)', HeadRelies',
         answer' \in BOOLEAN, warned' \in BOOLEAN, stopped' \in BOOLEAN, stopped' => Over'
  PROVE  KInv'
  BY DEF KInv

LEMMA GotoNothing ==
  ASSUME KInv, frames # <<>>, Goto(<<>>) PROVE frames' = Tail(frames) /\ UNCHANGED <<raised, stopped>>
  BY NothingFirst DEF Goto, KInv

\* running() returns its answer: FALSE only when no server of this object is left.
LEMMA AnswerKeeps ==
  ASSUME KInv, frames # <<>>, Head(frames) \in Asking, NEW b \in BOOLEAN, Return(b), b \/ Over,
         UNCHANGED <<host, object, warned>>
  PROVE  KInv'
<1>1. frames' = Tail(frames) /\ UNCHANGED <<raised, stopped>> /\ answer' = b
  BY GotoNothing DEF Return
<1>2. Stacked(frames)' /\ (frames' # <<>> => Fits(Head(frames), Head(frames')))
  BY <1>1, ReturnKeeps
<1>3. Over' = Over
  BY DEF Over, host, object
<1>4. HeadRelies'
  <2> SUFFICES ASSUME frames' # <<>> PROVE HeadRelies'
    BY DEF HeadRelies
  <2>1. Head(frames') \notin {"read pid file", "probe", "rmdir"} \cup Tried
    BY <1>2 DEF Fits, Asking, Tried
  <2> QED BY <1>1, <1>3, <2>1 DEF HeadRelies
<1> QED BY <1>1, <1>2, <1>4, QuietKeeps DEF KInv

\* daemon_process.poll()
Polls ==
  /\ daemon # None /\ polled' = (polled \/ proc[daemon] = "zombie")
  /\ proc' = IF ~polled /\ proc[daemon] = "zombie" THEN [proc EXCEPT ![daemon] = "gone"] ELSE proc
  /\ UNCHANGED <<pidfile, datadir, daemon, mine>>
LEMMA PollKeeps ==
  ASSUME ClusterTypeOK, HandleInv, Polls PROVE ClusterTypeOK' /\ HandleInv' /\ (Over => Over')
<1> USE DEF ClusterTypeOK, HandleInv, Polls
<1>1. CASE ~polled /\ proc[daemon] = "zombie"
  <2>1. daemon \in Pids /\ proc' = [proc EXCEPT ![daemon] = "gone"] /\ polled'
    BY <1>1
  <2>2. \A p \in Pids : proc'[p] = IF p = daemon THEN "gone" ELSE proc[p]
    BY <2>1
  <2>3. ClusterTypeOK'
    BY <2>1
  <2>4. HandleInv'
    BY <1>1, <2>1, <2>2 DEF Serving
  <2>5. Over => Over'
    BY <2>2 DEF Over, Serving
  <2> QED BY <2>3, <2>4, <2>5
<1>2. CASE ~(~polled /\ proc[daemon] = "zombie")
  <2>1. proc' = proc /\ polled' \in BOOLEAN
    BY <1>2
  <2>2. ClusterTypeOK' /\ (Over => Over')
    BY <2>1 DEF Over
  <2>3. HandleInv'
    <3>1. polled' = polled
      BY <1>2
    <3> QED BY <2>1, <3>1
  <2> QED BY <2>2, <2>3
<1> QED BY <1>1, <1>2

\* One frame replaced by one that may stand where it stood.
LEMMA GotoOne ==
  ASSUME KInv, frames # <<>>, NEW f \in Frame, Goto(<<f>>), \A y \in Frame : Fits(Head(frames), y) => Fits(f, y)
  PROVE  Stacked(frames)' /\ frames' # <<>> /\ Head(frames') = f /\ UNCHANGED <<raised, stopped>>
<1>1. frames' = <<f>> \o Tail(frames) /\ UNCHANGED <<raised, stopped>>
  BY DEF Goto
<1>2. Stacked(<<f>>)
  BY StackedFew
<1>3. <<f>> # <<>> /\ Head(<<f>>) = f /\ <<f>>[Len(<<f>>)] = f
  BY FewEnds
<1> QED BY <1>1, <1>2, <1>3, GotoKeeps

LEMMA KeptByPoll == ASSUME KInv, Poll, ClusterAssumption PROVE KInv'
<1>1. frames # <<>> /\ Head(frames) = "running" /\ UNCHANGED <<pidfile, datadir, daemon, mine, seen, warned>>
  BY DEF Poll, InFrame
<1>2. CASE ~(daemon = None) /\ ~(polled \/ proc[daemon] = "zombie")
  <2>1. Return(TRUE) /\ UNCHANGED <<host, object>>
    BY <1>1, <1>2 DEF Poll, host, object
  <2> QED BY <1>1, <2>1, AnswerKeeps DEF Asking
<1>3. CASE daemon = None \/ polled \/ proc[daemon] = "zombie"
  <2>1. Goto(<<"read pid file">>) /\ UNCHANGED answer
    BY <1>3 DEF Poll
  <2>2. Stacked(frames)' /\ frames' # <<>> /\ Head(frames') = "read pid file" /\ UNCHANGED <<raised, stopped>>
    <3>1. "read pid file" \in Frame /\ \A y \in Frame : Fits("running", y) => Fits("read pid file", y)
      BY DEF Frame, Asking, Fits, Tried
    <3> QED BY <1>1, <2>1, <3>1, GotoOne
  <2>3. CASE daemon = None
    <3>1. UNCHANGED <<host, object>>
      BY <1>1, <2>3 DEF Poll, host, object
    <3>2. HeadRelies'
      BY <2>2, <2>3, <1>1 DEF HeadRelies, NeedsAnswer, Tried
    <3> QED BY <1>1, <2>1, <2>2, <3>1, <3>2, QuietKeeps DEF KInv
  <2>4. CASE daemon # None
    <3>1. polled \in BOOLEAN /\ polled' = TRUE /\ proc' = IF polled THEN proc ELSE [proc EXCEPT ![daemon] = "gone"]
      BY <1>3, <2>4 DEF Poll, KInv, ClusterTypeOK
    <3>2. Polls
      <4>1. polled => proc[daemon] # "zombie"
        BY <2>4 DEF KInv, HandleInv
      <4> QED BY <1>1, <1>3, <2>4, <3>1, <4>1 DEF Polls
    <3>3. ClusterTypeOK' /\ HandleInv' /\ (Over => Over')
      BY <3>2, PollKeeps DEF KInv
    <3>4. HeadRelies'
      BY <2>2, <3>1 DEF HeadRelies, NeedsAnswer, Tried
    <3> QED BY <1>1, <2>1, <2>2, <3>3, <3>4, StepKeeps DEF KInv
  <2> QED BY <2>3, <2>4
<1> QED BY <1>2, <1>3

LEMMA KeptByReadPidFile == ASSUME KInv, ReadPidFile, ClusterAssumption PROVE KInv'
<1>1. frames # <<>> /\ Head(frames) = "read pid file" /\ UNCHANGED <<host, mine, warned>>
  BY DEF ReadPidFile, InFrame
<1>2. (daemon = None \/ polled) /\ Over
  BY <1>1, NoHandleIsOver DEF KInv, HeadRelies, ClusterTypeOK
<1>3. CASE pidfile = None
  <2>1. Return(FALSE) /\ UNCHANGED <<host, object>>
    BY <1>1, <1>3 DEF ReadPidFile, object
  <2> QED BY <1>1, <1>2, <2>1, AnswerKeeps DEF Asking
<1>4. CASE pidfile # None /\ daemon # None
  <2>1. daemon' = None /\ polled' = FALSE /\ Goto(<<"running">>) /\ UNCHANGED answer
    BY <1>4 DEF ReadPidFile
  <2>2. "running" \in Frame /\ \A y \in Frame : Fits("read pid file", y) => Fits("running", y)
    BY DEF Frame, Asking, Fits, Tried
  <2>3. Stacked(frames)' /\ frames' # <<>> /\ Head(frames') = "running" /\ UNCHANGED <<raised, stopped>>
    BY <1>1, <2>1, <2>2, GotoOne
  <2>4. HandleInv' /\ ClusterTypeOK' /\ Over'
    BY <1>1, <1>2, <2>1 DEF KInv, HandleInv, ClusterTypeOK, Over, host
  <2>5. HeadRelies'
    BY <2>3, HeadFree DEF Relying, NeedsAnswer, Tried
  <2> QED BY <1>1, <2>1, <2>3, <2>4, <2>5, StepKeeps DEF KInv, host
<1>5. CASE pidfile # None /\ daemon = None
  <2>1. Goto(<<"probe">>) /\ UNCHANGED <<daemon, polled, answer>>
    BY <1>5 DEF ReadPidFile
  <2>2. "probe" \in Frame /\ \A y \in Frame : Fits("read pid file", y) => Fits("probe", y)
    BY DEF Frame, Asking, Fits, Tried
  <2>3. Stacked(frames)' /\ frames' # <<>> /\ Head(frames') = "probe" /\ UNCHANGED <<raised, stopped>>
    BY <1>1, <2>1, <2>2, GotoOne
  <2>4. HeadRelies'
    BY <1>5, <2>1, <2>3 DEF HeadRelies, NeedsAnswer, Tried
  <2> QED BY <1>1, <2>1, <2>3, <2>4, QuietKeeps DEF KInv, object
<1> QED BY <1>3, <1>4, <1>5

LEMMA KeptByProbe == ASSUME KInv, Probe, ClusterAssumption PROVE KInv'
<1>1. /\ frames # <<>> /\ Head(frames) = "probe" /\ UNCHANGED <<host, object, warned>>
      /\ Return(Exists(proc[seen])) /\ Exists(proc[seen]) \in BOOLEAN
  BY DEF Probe, InFrame, Exists
<1>2. Over
  BY <1>1, NoHandleIsOver DEF KInv, HeadRelies, ClusterTypeOK
<1> QED BY <1>1, <1>2, AnswerKeeps DEF Asking

LEMMA KeptByReadPid == ASSUME KInv, ReadPid PROVE KInv'
<1>1. frames # <<>> /\ Head(frames) \in Signals /\ UNCHANGED <<host, object, answer, warned>>
  BY DEF ReadPid
<1>2. CASE Goto(<<>>)
  <2>1. frames' = Tail(frames) /\ UNCHANGED stopped
    BY <1>1, <1>2, GotoNothing
  <2>2. Head(frames) \notin Asking \cup Tried \cup {"wait_until_stopped", "check stopped"}
    BY <1>1 DEF Signals, Asking, Tried
  <2> QED BY <1>1, <2>1, <2>2, GoneFreeKeeps DEF KInv
<1>3. ASSUME NEW f \in {"SIGKILL", "SIGTERM or SIGINT"}, Goto(<<f>>) PROVE KInv'
  <2>1. f \in Frame /\ f \notin Relying
    BY DEF Frame, Relying, NeedsAnswer, Tried
  <2>2. \A y \in Frame : Fits(Head(frames), y) => Fits(f, y)
    BY <1>1 DEF Fits, Signals, Tried, Asking
  <2>3. Stacked(frames)' /\ frames' # <<>> /\ Head(frames') = f /\ UNCHANGED <<raised, stopped>>
    BY <1>1, <1>3, <2>1, <2>2, GotoOne
  <2>4. HeadRelies'
    BY <2>1, <2>3, HeadFree
  <2> QED BY <1>1, <2>3, <2>4, QuietKeeps DEF KInv
<1>4. Goto(<<>>) \/ Goto(<<"SIGKILL">>) \/ Goto(<<"SIGTERM or SIGINT">>)
  BY DEF ReadPid
<1> QED BY <1>2, <1>3, <1>4

LEMMA KeptBySignal == ASSUME KInv, Signal, ClusterAssumption PROVE KInv'
<1>1. /\ frames # <<>> /\ Head(frames) \in {"SIGKILL", "SIGTERM or SIGINT"} /\ Goto(<<>>)
      /\ UNCHANGED <<pidfile, datadir, object, answer, warned>>
  BY DEF Signal
<1>2. frames' = Tail(frames) /\ UNCHANGED <<raised, stopped>>
  BY <1>1, GotoNothing
<1>3. Stacked(frames)' /\ (frames' # <<>> => Fits(Head(frames), Head(frames')))
  BY <1>1, <1>2, ReturnKeeps
<1>4. Head(frames) \notin Asking \cup Tried \cup {"wait_until_stopped", "check stopped"}
  BY <1>1 DEF Asking, Tried
<1>5. HeadRelies'
  BY <1>3, <1>4, PoppedFree, HeadFree
<1>6. ProcEvolves
  <2> USE DEF KInv, ClusterTypeOK, HandleInv, Serving
  <2>1. CASE proc' = proc
    BY <2>1 DEF ProcEvolves
  <2>2. CASE proc' = Dead(seen) /\ proc[seen] \in Serving \cup {"foreign"} /\ seen \in Pids
    BY <2>2 DEF ProcEvolves, Dead
  <2>3. CASE proc' = [proc EXCEPT ![seen] = "stopping"] /\ proc[seen] \in Serving /\ seen \in Pids
    BY <2>3 DEF ProcEvolves
  <2>4. CASE seen \notin Pids /\ \E s : proc' = [proc EXCEPT ![seen] = s]
    <3>1. proc' = proc
      BY <2>4
    <3> QED BY <2>1, <3>1
  <2> QED BY <2>1, <2>2, <2>3, <2>4 DEF Signal, Dead
<1>7. HandleInv' /\ (Over => Over')
  BY <1>1, <1>6, EvolvesKeeps DEF KInv
<1>8. ClusterTypeOK'
  BY <1>1, <1>6 DEF KInv, ClusterTypeOK, ProcEvolves, object
<1> QED BY <1>1, <1>2, <1>3, <1>5, <1>7, <1>8, StepKeeps DEF KInv

LEMMA KeptByPopen == ASSUME KInv, Popen, ClusterAssumption PROVE KInv'
<1>1. /\ frames # <<>> /\ Head(frames) = "unless running" /\ frames' = Tail(frames)
      /\ UNCHANGED <<pidfile, datadir, answer, seen, warned, raised>>
  BY DEF Popen, InFrame
<1>2. Head(frames) \notin Asking \cup Tried \cup {"wait_until_stopped", "check stopped"}
  BY <1>1 DEF Asking, Tried
<1>3. CASE answer
  <2>1. UNCHANGED <<host, object>> /\ stopped' = stopped
    BY <1>1, <1>3 DEF Popen, host, KInv
  <2> QED BY <1>1, <1>2, <2>1, GoneFreeKeeps DEF KInv
<1>4. CASE ~answer
  <2>1. PICK p \in Pids : /\ proc[p] = "none" /\ proc' = [proc EXCEPT ![p] = "new"]
                          /\ daemon' = p /\ polled' = FALSE /\ mine' = mine \cup {p}
    BY <1>4 DEF Popen
  <2>2. Over /\ stopped' = FALSE
    BY <1>1, <1>4 DEF KInv, HeadRelies, NeedsAnswer, Popen
  <2>3. ClusterTypeOK'
    BY <1>1, <2>1 DEF KInv, ClusterTypeOK, Serving
  <2>4. HandleInv'
    BY <2>1, <2>2 DEF KInv, ClusterTypeOK, HandleInv, Over, Serving
  <2>5. Stacked(frames)' /\ (frames' # <<>> => Fits(Head(frames), Head(frames')))
    BY <1>1, ReturnKeeps
  <2>6. HeadRelies'
    BY <1>2, <2>5, PoppedFree, HeadFree
  <2> QED BY <1>1, <2>2, <2>3, <2>4, <2>5, <2>6, StepKeeps DEF KInv
<1> QED BY <1>3, <1>4

LEMMA KeptByStarting == ASSUME KInv, CheckStarting \/ Connect \/ CheckStarted, ClusterAssumption PROVE KInv'
<1>1. /\ frames # <<>> /\ Head(frames) \in {"check starting", "connect", "check started"}
      /\ UNCHANGED <<host, object, warned>>
  BY DEF CheckStarting, Connect, CheckStarted, InFrame
<1>2. Head(frames) \notin Asking \cup Tried \cup {"wait_until_stopped", "check stopped"}
  BY <1>1 DEF Asking, Tried
<1>3. ASSUME NEW exc, Raise(exc), UNCHANGED answer PROVE KInv'
  BY <1>1, <1>3, RaiseKeeps
<1>4. CASE CheckStarting /\ Goto(<<"running", "connect", "check started">>)
  <2>1. Stacked(<<"running", "connect", "check started">>)
    BY StackedFew DEF Frame, Asking, Fits, NeedsAnswer, Tried
  <2>2. \A y \in Frame : Fits(Head(frames), y) => Fits("check started", y)
    BY <1>4 DEF CheckStarting, InFrame, Fits, Asking, Tried
  <2>3. "running" \notin Relying
    BY DEF Relying, NeedsAnswer, Tried
  <2> DEFINE new == <<"running", "connect", "check started">>
  <2>4. Head(new) = "running" /\ new[Len(new)] = "check started" /\ new # <<>>
    BY FewEnds
  <2>5. Goto(new) /\ Stacked(new) /\ UNCHANGED answer
    BY <1>4, <2>1 DEF CheckStarting
  <2> HIDE DEF new
  <2> QED BY <1>1, <2>2, <2>3, <2>4, <2>5, GotoFreeKeeps
<1>5. CASE CheckStarted /\ Goto(<<"running", "check starting">>)
  <2>1. Stacked(<<"running", "check starting">>)
    BY StackedFew DEF Frame, Asking, Fits, NeedsAnswer, Tried
  <2>2. \A y \in Frame : Fits(Head(frames), y) => Fits("check starting", y)
    BY <1>5 DEF CheckStarted, InFrame, Fits, Asking, Tried
  <2>3. "running" \notin Relying
    BY DEF Relying, NeedsAnswer, Tried
  <2> DEFINE new == <<"running", "check starting">>
  <2>4. Head(new) = "running" /\ new[Len(new)] = "check starting" /\ new # <<>>
    BY FewEnds
  <2>5. Goto(new) /\ Stacked(new) /\ UNCHANGED answer
    BY <1>5, <2>1 DEF CheckStarted
  <2> HIDE DEF new
  <2> QED BY <1>1, <2>2, <2>3, <2>4, <2>5, GotoFreeKeeps
<1>6. CASE (CheckStarted \/ Connect) /\ Goto(<<>>) /\ answer' \in BOOLEAN
  BY <1>1, <1>2, <1>6, GotoNothing, GoneFreeKeeps
<1>7. CASE CheckStarting
  BY <1>3, <1>4, <1>7 DEF CheckStarting
<1>8. CASE Connect
  BY <1>3, <1>6, <1>8 DEF Connect, Return, KInv
<1>9. CASE CheckStarted
  BY <1>3, <1>5, <1>6, <1>9 DEF CheckStarted, KInv
<1> QED BY <1>7, <1>8, <1>9

LEMMA KeptByStopped == ASSUME KInv, CheckStopped, ClusterAssumption PROVE KInv'
<1>1. frames # <<>> /\ Head(frames) = "check stopped" /\ UNCHANGED <<pidfile, datadir, daemon, mine, answer, seen, warned>>
  BY DEF CheckStopped, InFrame
<1>2. CASE ~answer
  <2>1. frames' = Tail(frames) /\ stopped' = TRUE /\ UNCHANGED <<raised, proc, polled>>
    BY <1>2 DEF CheckStopped
  <2>2. Over
    BY <1>1, <1>2 DEF KInv, HeadRelies, NeedsAnswer
  <2>3. ClusterTypeOK' /\ HandleInv' /\ Over'
    BY <1>1, <2>1, <2>2 DEF KInv, ClusterTypeOK, HandleInv, Over
  <2>4. Stacked(frames)' /\ (frames' # <<>> => Fits(Head(frames), Head(frames')))
    BY <1>1, <2>1, ReturnKeeps
  <2>5. HeadRelies'
    BY <1>1, <2>1, <2>3, <2>4 DEF HeadRelies, Fits, Asking, NeedsAnswer, Tried
  <2> QED BY <1>1, <2>1, <2>3, <2>4, <2>5, StepKeeps DEF KInv
<1>3. CASE answer
  <2>1. ClusterTypeOK' /\ HandleInv' /\ (Over => Over')
    <3>1. CASE daemon # None
      <4>1. Polls
        BY <1>1, <1>3, <3>1 DEF CheckStopped, Polls
      <4> QED BY <4>1, PollKeeps DEF KInv
    <3>2. CASE daemon = None
      <4>1. UNCHANGED <<proc, polled>>
        BY <1>3, <3>2 DEF CheckStopped
      <4> QED BY <1>1, <4>1 DEF KInv, ClusterTypeOK, HandleInv, Over
    <3> QED BY <3>1, <3>2
  <2>2. Goto(<<"running", "check stopped">>) \/ Raise("timeout") \/ Raise("error")
    BY <1>3 DEF CheckStopped
  <2>3. UNCHANGED stopped
    BY <2>2 DEF Goto, Raise
  <2>4. Stacked(frames)' /\ HeadRelies'
    <3>1. CASE Goto(<<"running", "check stopped">>)
      <4>1. Stacked(<<"running", "check stopped">>)
        BY StackedFew DEF Frame, Asking, Fits, NeedsAnswer, Tried
      <4>2. <<"running", "check stopped">> # <<>> /\ Head(<<"running", "check stopped">>) = "running"
            /\ <<"running", "check stopped">>[Len(<<"running", "check stopped">>)] = "check stopped"
        BY FewEnds
      <4>3. Stacked(frames)' /\ Head(frames') = "running"
        BY <1>1, <3>1, <4>1, <4>2, GotoKeeps DEF Goto
      <4> QED BY <4>3, HeadFree DEF Relying, NeedsAnswer, Tried
    <3>2. CASE Raise("timeout") \/ Raise("error")
      <4>1. PICK exc \in {"timeout", "error"} : raised' = exc /\ frames' = Caught(frames, exc)
        BY <3>2 DEF Raise
      <4>2. Stacked(frames)' /\ (frames' # <<>> => exc = "timeout" /\ Head(frames') \in Tried)
        BY <4>1, CaughtAtWait DEF KInv
      <4>3. HeadRelies'
        BY <4>1, <4>2 DEF HeadRelies, Tried, NeedsAnswer, ClusterAssumption
      <4> QED BY <4>2, <4>3
    <3> QED BY <2>2, <3>1, <3>2
  <2> QED BY <1>1, <2>1, <2>3, <2>4, StepKeeps DEF KInv
<1> QED BY <1>2, <1>3 DEF KInv

LEMMA TwoAndTwo ==
  ASSUME NEW w, NEW x, NEW y, NEW z
  PROVE  <<w, x>> \o <<y, z>> = <<w, x, y, z>> /\ <<>> \o <<y, z>> = <<y, z>>
<1> DEFINE T == {w, x, y, z}
           s == <<w, x>>
           t == <<y, z>>
           u == <<w, x, y, z>>
<1>1. /\ s \in Seq(T) /\ t \in Seq(T) /\ u \in Seq(T) /\ Len(s) = 2 /\ Len(t) = 2 /\ Len(u) = 4
      /\ s[1] = w /\ s[2] = x /\ t[1] = y /\ t[2] = z /\ u[1] = w /\ u[2] = x /\ u[3] = y /\ u[4] = z
  OBVIOUS
<1> HIDE DEF T, s, t, u
<1>2. s \o t \in Seq(T) /\ Len(s \o t) = 4 /\ \A i \in 1..4 : (s \o t)[i] = IF i <= 2 THEN s[i] ELSE t[i - 2]
  <2>1. /\ s \o t \in Seq(T) /\ Len(s \o t) = Len(s) + Len(t)
        /\ \A i \in 1..(Len(s) + Len(t)) : (s \o t)[i] = IF i <= Len(s) THEN s[i] ELSE t[i - Len(s)]
    BY <1>1, ConcatProperties
  <2> QED BY <1>1, <2>1
<1>3. \A i \in 1..4 : (s \o t)[i] = u[i]
  BY <1>1, <1>2
<1>4. s \o t = u
  BY <1>1, <1>2, <1>3, SeqEqual
<1>5. <<>> \o t = t
  BY <1>1, ConcatEmptySeq
<1> QED BY <1>4, <1>5 DEF s, t, u

LEMMA KeptByRestart == ASSUME KInv, Restart, ClusterAssumption PROVE KInv'
<1>1. /\ frames # <<>> /\ Head(frames) \in {"restart running", "restart stopped"}
      /\ UNCHANGED <<host, object, answer, seen, warned, ncalls>>
  BY DEF Restart, CheckRestart, InFrame
<1>2. "running" \notin Relying /\ "stop" \notin Relying /\ "start" \notin Relying
  BY DEF Relying, NeedsAnswer, Tried
<1>3. \A y \in Frame : Fits(Head(frames), y) => Fits("restart stopped", y) /\ Fits("wait_until_started", y)
  BY <1>1 DEF Fits, Asking, Tried
<1>4. CASE Goto(<<"stop", "wait_until_stopped", "running", "restart stopped">>)
  <2>1. Stacked(<<"stop", "wait_until_stopped", "running", "restart stopped">>)
    BY StackedFew DEF Frame, Methods, Asking, Fits, NeedsAnswer, Tried
  <2> DEFINE new == <<"stop", "wait_until_stopped", "running", "restart stopped">>
  <2>2. Head(new) = "stop" /\ new[Len(new)] = "restart stopped" /\ new # <<>>
    BY FewEnds
  <2>3. Goto(new) /\ Stacked(new)
    BY <1>4, <2>1
  <2> HIDE DEF new
  <2> QED BY <1>1, <1>2, <1>3, <2>2, <2>3, GotoFreeKeeps
<1>5. CASE Goto(<<"running", "restart stopped">>)
  <2>1. Stacked(<<"running", "restart stopped">>)
    BY StackedFew DEF Frame, Asking, Fits, NeedsAnswer, Tried
  <2> DEFINE new == <<"running", "restart stopped">>
  <2>2. Head(new) = "running" /\ new[Len(new)] = "restart stopped" /\ new # <<>>
    BY FewEnds
  <2>3. Goto(new) /\ Stacked(new)
    BY <1>5, <2>1
  <2> HIDE DEF new
  <2> QED BY <1>1, <1>2, <1>3, <2>2, <2>3, GotoFreeKeeps
<1>6. CASE Goto(<<"start", "wait_until_started">>)
  <2>1. Stacked(<<"start", "wait_until_started">>)
    BY StackedFew DEF Frame, Methods, Fits, NeedsAnswer, Tried
  <2> DEFINE new == <<"start", "wait_until_started">>
  <2>2. Head(new) = "start" /\ new[Len(new)] = "wait_until_started" /\ new # <<>>
    BY FewEnds
  <2>3. Goto(new) /\ Stacked(new)
    BY <1>6, <2>1
  <2> HIDE DEF new
  <2> QED BY <1>1, <1>2, <1>3, <2>2, <2>3, GotoFreeKeeps
<1>7. CASE Raise("ClusterError")
  BY <1>1, <1>7, RaiseKeeps
<1>8. /\ <<"stop", "wait_until_stopped">> \o <<"running", "restart stopped">>
           = <<"stop", "wait_until_stopped", "running", "restart stopped">>
      /\ <<>> \o <<"running", "restart stopped">> = <<"running", "restart stopped">>
  <2>1. \A w, x, y, z : <<w, x>> \o <<y, z>> = <<w, x, y, z>> /\ <<>> \o <<y, z>> = <<y, z>>
    BY TwoAndTwo
  <2> QED BY <2>1
<1> QED BY <1>4, <1>5, <1>6, <1>7, <1>8 DEF Restart, CheckRestart

LEMMA KeptByDrop == ASSUME KInv, Drop, ClusterAssumption PROVE KInv'
<1>1. frames # <<>> /\ UNCHANGED <<host, object, answer>>
  BY DEF Drop, CheckDrop, InFrame
<1>2. CASE Head(frames) = "drop running" /\ answer
  <2>1. Goto(<<"shutdown", "wait_until_stopped", "tried shutdown", "rmdir">>) /\ UNCHANGED warned
    BY <1>2 DEF Drop, CheckDrop, InFrame
  <2>2. Stacked(<<"shutdown", "wait_until_stopped", "tried shutdown", "rmdir">>)
    BY StackedFew DEF Frame, Methods, Fits, NeedsAnswer, Tried
  <2>3. \A y \in Frame : ~Fits("drop running", y)
    BY DEF Fits
  <2>4. "shutdown" \notin Relying
    BY DEF Relying, NeedsAnswer, Tried
  <2> DEFINE new == <<"shutdown", "wait_until_stopped", "tried shutdown", "rmdir">>
  <2>5. Head(new) = "shutdown" /\ new # <<>>
    BY FewEnds
  <2>6. Goto(new) /\ Stacked(new)
    BY <2>1, <2>2
  <2> HIDE DEF new
  <2> QED BY <1>1, <1>2, <2>1, <2>3, <2>4, <2>5, <2>6, GotoFreeKeeps
<1>3. CASE Head(frames) = "drop running" /\ ~answer
  <2>1. Goto(<<"rmdir">>) /\ UNCHANGED warned
    BY <1>3 DEF Drop, CheckDrop, InFrame
  <2>2. "rmdir" \in Frame /\ \A y \in Frame : ~Fits("drop running", y)
    BY DEF Fits, Frame
  <2>3. Stacked(frames)' /\ frames' # <<>> /\ Head(frames') = "rmdir" /\ UNCHANGED <<raised, stopped>>
    BY <1>1, <1>3, <2>1, <2>2, GotoOne
  <2>4. Over'
    BY <1>1, <1>3 DEF KInv, HeadRelies, NeedsAnswer, Over, host, object
  <2>5. HeadRelies'
    BY <2>3, <2>4 DEF HeadRelies, NeedsAnswer, Tried
  <2> QED BY <1>1, <2>1, <2>3, <2>5, QuietKeeps DEF KInv
<1>4. CASE Head(frames) = "tried shutdown" /\ raised # None
  <2>1. /\ frames' = <<"kill", "wait_until_stopped", "tried kill">> \o Tail(frames)
        /\ UNCHANGED <<stopped, warned>> /\ raised' = None
    BY <1>4 DEF Drop, CheckDrop, InFrame
  <2>2. Stacked(<<"kill", "wait_until_stopped", "tried kill">>)
    BY StackedFew DEF Frame, Methods, Fits, NeedsAnswer, Tried
  <2>3. \A y \in Frame : Fits("tried shutdown", y) => Fits("tried kill", y)
    BY DEF Fits, Asking, Tried
  <2>4. /\ <<"kill", "wait_until_stopped", "tried kill">> # <<>>
        /\ Head(<<"kill", "wait_until_stopped", "tried kill">>) = "kill"
        /\ <<"kill", "wait_until_stopped", "tried kill">>[Len(<<"kill", "wait_until_stopped", "tried kill">>)] = "tried kill"
    BY FewEnds
  <2> DEFINE new == <<"kill", "wait_until_stopped", "tried kill">>
  <2>5. /\ frames' = new \o Tail(frames) /\ Stacked(new) /\ new # <<>> /\ Head(new) = "kill"
        /\ new[Len(new)] = "tried kill"
    BY <2>1, <2>2, <2>4
  <2> HIDE DEF new
  <2>6. Stacked(frames)' /\ Head(frames') = "kill"
    BY <1>1, <1>4, <2>3, <2>5, GotoKeeps
  <2>7. HeadRelies'
    BY <2>6, HeadFree DEF Relying, NeedsAnswer, Tried
  <2> QED BY <1>1, <2>1, <2>6, <2>7, QuietKeeps DEF KInv
<1>5. CASE (Head(frames) = "tried shutdown" /\ raised = None) \/ Head(frames) = "tried kill"
  <2>1. frames' = Tail(frames) /\ raised' = None /\ UNCHANGED stopped
    <3>1. CASE Head(frames) = "tried shutdown"
      <4>1. frames' = <<>> \o Tail(frames) /\ raised' = None /\ UNCHANGED stopped
        BY <1>5, <3>1 DEF Drop, CheckDrop, InFrame
      <4> QED BY <1>1, <4>1, NothingFirst DEF KInv
    <3>2. CASE Head(frames) = "tried kill"
      BY <3>2 DEF Drop, CheckDrop, InFrame
    <3> QED BY <1>5, <3>1, <3>2
  <2>2. warned' \in BOOLEAN /\ (warned' \/ stopped)
    <3>1. CASE Head(frames) = "tried shutdown"
      BY <1>1, <1>5, <3>1 DEF Drop, CheckDrop, InFrame, KInv, HeadRelies, Tried
    <3>2. CASE Head(frames) = "tried kill"
      BY <1>1, <3>2 DEF Drop, CheckDrop, InFrame, KInv, HeadRelies, Tried
    <3> QED BY <1>5, <3>1, <3>2
  <2>3. Stacked(frames)' /\ (frames' # <<>> => Fits(Head(frames), Head(frames')))
    BY <1>1, <2>1, ReturnKeeps
  <2>4. stopped => Over'
    BY <1>1 DEF KInv, Over, host, object
  <2>5. HeadRelies'
    BY <1>5, <2>2, <2>3, <2>4 DEF HeadRelies, Fits, Asking, NeedsAnswer, Tried
  <2> QED BY <1>1, <2>1, <2>2, <2>3, <2>5, QuietKeeps DEF KInv
<1> QED BY <1>2, <1>3, <1>4, <1>5 DEF Drop, CheckDrop, InFrame

LEMMA KeptByRmdir == ASSUME KInv, Rmdir, ClusterAssumption PROVE KInv'
<1>1. /\ frames # <<>> /\ Head(frames) = "rmdir" /\ Goto(<<>>) /\ datadir' = FALSE /\ pidfile' = None
      /\ UNCHANGED <<proc, object, answer, seen, warned>>
  BY DEF Rmdir, InFrame
<1>2. frames' = Tail(frames) /\ UNCHANGED <<raised, stopped>>
  BY <1>1, GotoNothing
<1>3. Stacked(frames)' /\ (frames' # <<>> => Fits("rmdir", Head(frames')))
  BY <1>1, <1>2, ReturnKeeps
<1>4. frames' = <<>> /\ HeadRelies'
  BY <1>3 DEF Fits, HeadRelies
<1>5. warned \/ Over
  BY <1>1 DEF KInv, HeadRelies
<1>6. ClusterTypeOK' /\ HandleInv' /\ Over' = Over
  BY <1>1 DEF KInv, ClusterTypeOK, HandleInv, Over, object
<1> QED BY <1>1, <1>2, <1>3, <1>4, <1>5, <1>6 DEF KInv

\* Cluster: whatever happens to processes and the pid file, the object keeps the handle of a server it has started while
\* that lives, and has none left when wait_until_stopped() has returned or drop() has removed the directory unwarned.
THEOREM ServerIsKept == ClusterSpec => [](ClusterTypeOK /\ KeepsItsServer)
<1> USE ClusterAssumption
<1>1. KInv /\ [ClusterNext]_clusterVars => KInv'
  <2> SUFFICES ASSUME KInv, [ClusterNext]_clusterVars PROVE KInv'
    OBVIOUS
  <2>1. CASE UNCHANGED clusterVars
    BY <2>1 DEF clusterVars, KInv, ClusterTypeOK, Stacked, HandleInv, HeadRelies, Over
  <2> QED BY <2>1, KeptByHost, KeptByCall, KeptByEnter, KeptByPoll, KeptByReadPidFile, KeptByProbe, KeptByReadPid,
             KeptBySignal, KeptByPopen, KeptByStarting, KeptByStopped, KeptByRestart, KeptByDrop, KeptByRmdir
          DEF ClusterNext, Method
<1>2. KInv => ClusterTypeOK /\ KeepsItsServer
  BY DEF KInv, HandleInv, Over, KeepsItsServer
<1> QED BY <1>1, <1>2, KInvInit, PTL DEF ClusterSpec

-----------------------------------------------------------------------------
(* Temporal                                                                *)
(*                                                                         *)
(* The invariant adds to SandboxesEnd what it rests on: the levels have no *)
(* connection in common, there is a level for each block being executed,   *)
(* and previous is what the names were before the first level.             *)

Levels == [db : Conn, extras : Seq(Conn)]
ConnsOf(level) == ToSet(OfLevel(level))
AllOf(stack) == UNION {ConnsOf(stack[i]) : i \in DOMAIN stack}
Apart(stack) == \A i, j \in DOMAIN stack : i # j => ConnsOf(stack[i]) \cap ConnsOf(stack[j]) = {}

StackInv ==
  /\ builtins_stack \in Seq(Levels) /\ Apart(builtins_stack) /\ sandbox_id = Len(builtins_stack)
  /\ builtins_stack # <<>> => \A k \in builtins_keys : previous[k] = had[k]
  /\ \A k \in builtins_keys : bound[k] = IF builtins_stack = <<>> THEN had[k] ELSE Last(builtins_stack).db

CountInv ==
  /\ entered \in Nat /\ entered <= Len(builtins_stack) /\ mishaps \in Nat
  /\ IsFiniteSet(schemas) /\ Cardinality(schemas \ 1..Len(builtins_stack)) <= mishaps
  /\ mishaps = 0 => schemas = 1..entered /\ entered = Len(builtins_stack)

OpenInv ==
  /\ DOMAIN opened_conns \subseteq Conn
  /\ ~exited => AllOf(builtins_stack) \subseteq DOMAIN opened_conns
  /\ \A i \in DOMAIN builtins_stack : \A c \in ConnsOf(builtins_stack[i]) \cap DOMAIN opened_conns :
       opened_conns[c] = i \/ (opened_conns[c] = 0 /\ entered < Len(builtins_stack))
  /\ mishaps = 0 => DOMAIN opened_conns = AllOf(builtins_stack)

TInv == StackInv /\ CountInv /\ OpenInv /\ (exited => ~cluster)

\* A function on the numbers up to n is a sequence of length n.
LEMMA FunctionIsSeq ==
  ASSUME NEW S, NEW n \in Nat, NEW f \in [1..n -> S]
  PROVE  f \in Seq(S) /\ Len(f) = n
<1>1. f \in Seq(S)
  BY SeqDef
<1> QED BY <1>1, LenProperties

\* A level that is pushed has one connection; new() gives it one more.
LEMMA ConnsOfNew ==
  ASSUME NEW c \in Conn
  PROVE  [db |-> c, extras |-> <<>>] \in Levels /\ ConnsOf([db |-> c, extras |-> <<>>]) = {c}
<1> DEFINE l == [db |-> c, extras |-> <<>>]
<1>1. OfLevel(l) = <<c>> \o <<>>
  BY DEF OfLevel
<1>2. <<c>> \o <<>> = <<c>>
  OBVIOUS
<1>3. <<>> \in Seq(Conn)
  BY EmptySeq
<1>4. ToSet(<<c>>) = {c}
  BY DEF ToSet
<1> QED BY <1>1, <1>2, <1>3, <1>4 DEF ConnsOf, Levels

LEMMA LevelIs ==
  ASSUME NEW l \in Levels
  PROVE  /\ OfLevel(l) \in Seq(Conn) /\ l.db \in Conn /\ l.extras \in Seq(Conn)
         /\ Len(OfLevel(l)) = 1 + Len(l.extras) /\ OfLevel(l)[1] = l.db
         /\ \A i \in 1..Len(l.extras) : OfLevel(l)[1 + i] = l.extras[i]
<1>1. l.db \in Conn /\ l.extras \in Seq(Conn)
  BY DEF Levels
<1>2. OfLevel(l) = <<l.db>> \o l.extras
  BY DEF OfLevel
<1>3. <<l.db>> \in Seq(Conn) /\ Len(<<l.db>>) = 1 /\ <<l.db>>[1] = l.db
  BY <1>1
<1> QED BY <1>1, <1>2, <1>3, ConcatProperties

LEMMA ConnsOfExtended ==
  ASSUME NEW l \in Levels, NEW c \in Conn, NEW m, m = [l EXCEPT !.extras = Append(@, c)]
  PROVE  m \in Levels /\ m.db = l.db /\ ConnsOf(m) = ConnsOf(l) \cup {c}
<1>1. /\ m \in Levels /\ m.db = l.db /\ m.extras = Append(l.extras, c)
  BY LevelIs, AppendProperties DEF Levels
<1> DEFINE n == Len(l.extras)
<1>2. n \in Nat /\ Len(m.extras) = n + 1 /\ m.extras[n + 1] = c /\ \A i \in 1..n : m.extras[i] = l.extras[i]
  BY <1>1, LevelIs, AppendProperties, LenProperties
<1>3. /\ DOMAIN OfLevel(l) = 1..(n + 1) /\ DOMAIN OfLevel(m) = 1..(n + 2)
  <2>1. Len(OfLevel(l)) = 1 + n /\ Len(OfLevel(m)) = 1 + (n + 1)
    BY <1>1, <1>2, LevelIs
  <2>2. Len(OfLevel(l)) = n + 1 /\ Len(OfLevel(m)) = n + 2
    BY <1>2, <2>1
  <2>3. OfLevel(l) \in Seq(Conn) /\ OfLevel(m) \in Seq(Conn)
    BY <1>1, LevelIs
  <2> QED BY ONLY <2>2, <2>3, LenProperties
<1>4. OfLevel(l)[1] = l.db /\ OfLevel(m)[1] = l.db
  BY <1>1, LevelIs
<1>5. \A i \in 1..n : OfLevel(m)[1 + i] = OfLevel(l)[1 + i]
  <2> SUFFICES ASSUME NEW i \in 1..n PROVE OfLevel(m)[1 + i] = OfLevel(l)[1 + i]
    OBVIOUS
  <2>1. i \in 1..Len(l.extras) /\ i \in 1..Len(m.extras) /\ m.extras[i] = l.extras[i]
    BY <1>2
  <2>2. OfLevel(l)[1 + i] = l.extras[i]
    BY <2>1, LevelIs
  <2>3. OfLevel(m)[1 + i] = m.extras[i]
    BY <1>1, <2>1, LevelIs
  <2> QED BY <2>1, <2>2, <2>3
<1>6. OfLevel(m)[n + 2] = c
  <2>1. n + 1 \in 1..Len(m.extras) /\ 1 + (n + 1) = n + 2
    BY <1>2
  <2> QED BY <1>1, <1>2, <2>1, LevelIs
<1>7. \A i \in 1..(n + 1) : OfLevel(m)[i] = OfLevel(l)[i]
  <2> SUFFICES ASSUME NEW i \in 1..(n + 1) PROVE OfLevel(m)[i] = OfLevel(l)[i]
    OBVIOUS
  <2>1. CASE i = 1
    BY <1>4, <2>1
  <2>2. CASE i # 1
    <3>1. i - 1 \in 1..n /\ 1 + (i - 1) = i
      BY <1>2, <2>2
    <3> QED BY <1>5, <3>1
  <2> QED BY <2>1, <2>2
<1>8. 1..(n + 2) = 1..(n + 1) \cup {n + 2}
  BY <1>2
<1>9. ConnsOf(m) = ConnsOf(l) \cup {c}
  <2>1. ConnsOf(m) = {OfLevel(m)[i] : i \in 1..(n + 2)} /\ ConnsOf(l) = {OfLevel(l)[i] : i \in 1..(n + 1)}
    BY <1>3 DEF ConnsOf, ToSet
  <2>2. {OfLevel(m)[i] : i \in 1..(n + 1)} = {OfLevel(l)[i] : i \in 1..(n + 1)}
    BY <1>7
  <2> HIDE DEF n
  <2>3. {OfLevel(m)[i] : i \in 1..(n + 2)} = {OfLevel(m)[i] : i \in 1..(n + 1)} \cup {OfLevel(m)[n + 2]}
    BY ONLY <1>8
  <2> QED BY <1>6, <2>1, <2>2, <2>3
<1> QED BY <1>1, <1>9

\* The stack without its last level.
LEMMA PoppedIs ==
  ASSUME NEW s \in Seq(Levels), s # <<>>, Apart(s)
  PROVE  /\ Len(s) \in Nat \ {0} /\ Len(s) \in DOMAIN s /\ Last(s) = s[Len(s)] /\ Last(s) \in Levels
         /\ Front(s) \in Seq(Levels) /\ Len(Front(s)) = Len(s) - 1
         /\ \A i \in 1..(Len(s) - 1) : Front(s)[i] = s[i]
         /\ Apart(Front(s)) /\ AllOf(Front(s)) = AllOf(s) \ ConnsOf(Last(s))
<1> DEFINE n == Len(s)
<1>1. n \in Nat \ {0} /\ DOMAIN s = 1..n /\ n \in DOMAIN s /\ \A i \in 1..n : s[i] \in Levels
  BY EmptySeq, LenProperties, ElementOfSeq
<1>2. Last(s) = s[n] /\ Last(s) \in Levels
  BY <1>1 DEF Last
<1>3. /\ Front(s) \in Seq(Levels) /\ Len(Front(s)) = n - 1 /\ \A i \in 1..(n - 1) : Front(s)[i] = s[i]
  <2>1. 1 \in Int /\ n - 1 \in Int /\ \A i \in 1..(n - 1) : s[i] \in Levels
    BY <1>1
  <2>2. n - 1 >= 1 \/ n - 1 = 0
    BY <1>1
  <2> QED BY <1>1, <2>1, <2>2, SubSeqProperties DEF Front
<1>4. DOMAIN Front(s) = 1..(n - 1)
  BY <1>1, <1>3, LenProperties
<1>5. Apart(Front(s))
  <2>1. 1..(n - 1) \subseteq 1..n
    BY <1>1
  <2> HIDE DEF n
  <2> QED BY <1>1, <1>3, <1>4, <2>1 DEF Apart
<1>6. AllOf(Front(s)) = AllOf(s) \ ConnsOf(Last(s))
  <2>1. 1..n = 1..(n - 1) \cup {n} /\ n \notin 1..(n - 1)
    BY <1>1
  <2> HIDE DEF n
  <2>2. ASSUME NEW i \in 1..(n - 1) PROVE ConnsOf(Front(s)[i]) = ConnsOf(s[i]) /\ ConnsOf(s[i]) \cap ConnsOf(s[n]) = {}
    BY <1>1, <1>3, <2>1 DEF Apart
  <2>3. ASSUME NEW c PROVE c \in AllOf(Front(s)) <=> \E i \in 1..(n - 1) : c \in ConnsOf(s[i])
    BY <1>4, <2>2 DEF AllOf
  <2>4. ASSUME NEW c PROVE c \in AllOf(s) <=> c \in ConnsOf(s[n]) \/ \E i \in 1..(n - 1) : c \in ConnsOf(s[i])
    BY <1>1, <2>1 DEF AllOf
  <2> QED BY <1>2, <2>2, <2>3, <2>4
<1> QED BY <1>1, <1>2, <1>3, <1>5, <1>6

\* The stack with a level more, of connections that no other has.
Pushed(s, l, t) ==
  /\ t \in Seq(Levels) /\ t # <<>> /\ Len(s) \in Nat /\ Len(t) = Len(s) + 1 /\ Last(t) = l /\ t[Len(s) + 1] = l
  /\ DOMAIN s = 1..Len(s) /\ DOMAIN t = 1..(Len(s) + 1)
  /\ \A i \in 1..Len(s) : t[i] = s[i]
  /\ Apart(t) /\ AllOf(t) = AllOf(s) \cup ConnsOf(l) /\ Front(t) = s

LEMMA PushedIs ==
  ASSUME NEW s \in Seq(Levels), NEW l \in Levels, Apart(s), ConnsOf(l) \cap AllOf(s) = {}
  PROVE  Pushed(s, l, Append(s, l))
<1> SUFFICES ASSUME NEW t, t = Append(s, l) PROVE Pushed(s, l, t)
  OBVIOUS
<1> DEFINE n == Len(s)
<1>1. n \in Nat /\ DOMAIN s = 1..n /\ t \in Seq(Levels) /\ Len(t) = n + 1 /\ DOMAIN t = 1..(n + 1)
  BY AppendProperties, LenProperties
<1>2. t[n + 1] = l /\ \A i \in 1..n : t[i] = s[i]
  BY AppendProperties
<1>3. t # <<>> /\ Last(t) = l
  BY <1>1, <1>2, EmptySeq DEF Last
<1>4. 1..(n + 1) = 1..n \cup {n + 1} /\ n + 1 \notin 1..n
  BY <1>1
<1>5. Front(t) = s
  <2>1. Len(t) - 1 = n /\ n - 1 + 1 = n
    BY <1>1
  <2>2. n = 0 \/ n >= 1
    BY <1>1
  <2>3. SubSeq(t, 1, n) \in Seq(Levels) /\ Len(SubSeq(t, 1, n)) = n /\ \A i \in 1..n : SubSeq(t, 1, n)[i] = t[i]
    <3>1. \A i \in 1..n : t[i] \in Levels
      BY <1>1, <1>2, ElementOfSeq
    <3> QED BY <1>1, <2>2, <3>1, SubSeqProperties
  <2> QED BY <1>1, <1>2, <2>1, <2>3, SeqEqual DEF Front
<1> HIDE DEF n
<1>6. AllOf(t) = AllOf(s) \cup ConnsOf(l)
  <2>1. ASSUME NEW c PROVE c \in AllOf(t) <=> c \in ConnsOf(l) \/ \E i \in 1..n : c \in ConnsOf(s[i])
    BY <1>1, <1>2, <1>4 DEF AllOf
  <2>2. ASSUME NEW c PROVE c \in AllOf(s) <=> \E i \in 1..n : c \in ConnsOf(s[i])
    BY <1>1 DEF AllOf
  <2> QED BY <2>1, <2>2
<1>7. Apart(t)
  <2> SUFFICES ASSUME NEW i \in 1..(n + 1), NEW j \in 1..(n + 1), i # j
               PROVE  ConnsOf(t[i]) \cap ConnsOf(t[j]) = {}
    BY <1>1 DEF Apart
  <2>1. \A k \in 1..n : ConnsOf(s[k]) \subseteq AllOf(s)
    BY <1>1 DEF AllOf
  <2>2. CASE i = n + 1
    <3>1. j \in 1..n
      BY <1>4, <2>2
    <3> QED BY <1>2, <2>1, <2>2, <3>1
  <2>3. CASE j = n + 1
    <3>1. i \in 1..n
      BY <1>4, <2>3
    <3> QED BY <1>2, <2>1, <2>3, <3>1
  <2>4. CASE i \in 1..n /\ j \in 1..n
    BY <1>1, <1>2, <2>4 DEF Apart
  <2> QED BY <1>4, <2>2, <2>3, <2>4
<1> QED BY <1>1, <1>2, <1>3, <1>5, <1>6, <1>7 DEF n, Pushed

LEMMA NewConnIsFree ==
  ASSUME Fresh # {} PROVE NewConn \in Conn /\ NewConn \notin DOMAIN opened_conns
<1>1. Fresh \in SUBSET Nat
  BY TemporalAssumption DEF Fresh
<1>2. \E x \in Fresh : \A y \in Fresh : x <= y
  <2> HIDE DEF Fresh
  <2> QED BY <1>1, LeastNatural
<1>3. NewConn \in Fresh
  BY <1>2 DEF NewConn, Min
<1> QED BY <1>3 DEF Fresh

-----------------------------------------------------------------------------
(* Popping a level *)

\* Either all is cleaned up, or something is left and there has been a mishap.
Clears(opened, owned, sandbox) ==
  \E closed \in SUBSET owned :
    /\ DOMAIN opened_conns' = DOMAIN opened \ closed
    /\ \A c \in DOMAIN opened \ closed : opened_conns'[c] = opened[c]
    /\ \/ closed = owned /\ schemas' = schemas \ {sandbox} /\ mishaps' = mishaps
       \/ schemas' = schemas /\ mishaps' = mishaps + 1

LEMMA CleanedUpClears ==
  ASSUME NEW opened, NEW owned \in Seq(Conn), NEW sandbox, CleanedUp(opened, owned, sandbox)
  PROVE  Clears(opened, ToSet(owned), sandbox)
<1>1. PICK n \in 0..Len(owned), dropped \in BOOLEAN :
        /\ dropped => n = Len(owned) /\ sandbox \in schemas
        /\ opened_conns' = Closing(opened, ToSet(SubSeq(owned, 1, n)))
        /\ schemas' = schemas \ (IF dropped THEN {sandbox} ELSE {})
        /\ mishaps' = IF dropped \/ (n = Len(owned) /\ sandbox \notin schemas) THEN mishaps ELSE mishaps + 1
  BY DEF CleanedUp
<1> DEFINE closed == ToSet(SubSeq(owned, 1, n))
<1>2. Len(owned) \in Nat /\ DOMAIN owned = 1..Len(owned) /\ \A i \in 1..Len(owned) : owned[i] \in Conn
  BY LenProperties, ElementOfSeq
<1>3. /\ SubSeq(owned, 1, n) \in Seq(Conn) /\ Len(SubSeq(owned, 1, n)) = n
      /\ \A i \in 1..n : SubSeq(owned, 1, n)[i] = owned[i]
  <2>1. n \in Int /\ \A i \in 1..n : owned[i] \in Conn
    BY <1>2
  <2>2. n >= 1 \/ n = 0
    BY <1>2
  <2> QED BY <2>1, <2>2, SubSeqProperties
<1>4. DOMAIN SubSeq(owned, 1, n) = 1..n
  BY <1>3, LenProperties
<1>5. closed \in SUBSET ToSet(owned) /\ (n = Len(owned) => closed = ToSet(owned))
  <2>1. closed = {SubSeq(owned, 1, n)[i] : i \in 1..n} /\ ToSet(owned) = {owned[i] : i \in 1..Len(owned)}
    BY <1>2, <1>4 DEF ToSet
  <2>2. {SubSeq(owned, 1, n)[i] : i \in 1..n} = {owned[i] : i \in 1..n}
    BY <1>3
  <2>3. 1..n \subseteq 1..Len(owned)
    BY <1>2
  <2> HIDE DEF closed
  <2> QED BY <2>1, <2>2, <2>3
<1> HIDE DEF closed
<1>6. /\ DOMAIN opened_conns' = DOMAIN opened \ closed
      /\ \A c \in DOMAIN opened \ closed : opened_conns'[c] = opened[c]
  BY <1>1 DEF Closing, closed
<1>7. \/ closed = ToSet(owned) /\ schemas' = schemas \ {sandbox} /\ mishaps' = mishaps
      \/ schemas' = schemas /\ mishaps' = mishaps + 1
  <2>1. CASE dropped
    BY <1>1, <1>5, <2>1
  <2>2. CASE ~dropped /\ n = Len(owned) /\ sandbox \notin schemas
    BY <1>1, <1>5, <2>2
  <2>3. CASE ~dropped /\ ~(n = Len(owned) /\ sandbox \notin schemas)
    BY <1>1, <2>3
  <2> QED BY <2>1, <2>2, <2>3
<1> QED BY <1>5, <1>6, <1>7 DEF Clears

LEMMA PopClears ==
  ASSUME NEW stack, NEW names, NEW given, NEW opened, NEW sandbox, NEW exc, Last(stack) \in Levels,
         Pop(stack, names, given, opened, sandbox, exc)
  PROVE  Clears(opened, ConnsOf(Last(stack)), sandbox)
<1>1. CASE exc = "interrupt"
  <2>1. mishaps' = mishaps + 1 /\ opened_conns' = opened /\ schemas' = schemas
    BY <1>1 DEF Pop
  <2>2. {} \in SUBSET ConnsOf(Last(stack)) /\ DOMAIN opened = DOMAIN opened \ {}
    OBVIOUS
  <2> QED BY <2>1, <2>2 DEF Clears
<1>2. CASE exc # "interrupt"
  <2>1. CleanedUp(opened, OfLevel(Last(stack)), sandbox)
    BY <1>2 DEF Pop
  <2> QED BY <2>1, LevelIs, CleanedUpClears DEF ConnsOf
<1> QED BY <1>1, <1>2

LEMMA ExitKeeps ==
  ASSUME TInv, NEW exc, Exit(exc) PROVE TInv'
<1> DEFINE s == builtins_stack
           n == Len(s)
           owned == ConnsOf(Last(s))
<1>1. /\ s \in Seq(Levels) /\ s # <<>> /\ Apart(s) /\ sandbox_id = n /\ entered \in Nat /\ entered > 0 /\ entered <= n
      /\ ~exited /\ exited' = exited /\ cluster' = cluster /\ had' = had /\ entered' = entered - 1
      /\ Pop(s, bound, previous, opened_conns, sandbox_id, exc)
  <2>1. TInv /\ entered > 0
    BY DEF Exit
  <2>2. s # <<>>
    BY <2>1, EmptySeq DEF TInv, CountInv
  <2> QED BY <2>2 DEF TInv, StackInv, CountInv, Exit, life
<1>2. /\ n \in Nat \ {0} /\ DOMAIN s = 1..n /\ Last(s) = s[n] /\ Last(s) \in Levels
      /\ s' = Front(s) /\ s' \in Seq(Levels) /\ Len(s') = n - 1 /\ DOMAIN s' = 1..(n - 1)
      /\ \A i \in 1..(n - 1) : s'[i] = s[i]
      /\ Apart(s') /\ AllOf(s') = AllOf(s) \ owned
  <2>1. s' = Front(s)
    BY <1>1 DEF Pop
  <2>2. Front(s) \in Seq(Levels) /\ Len(Front(s)) = n - 1
    BY <1>1, PoppedIs
  <2>3. DOMAIN Front(s) = 1..(n - 1) /\ DOMAIN s = 1..n
    BY <1>1, <2>2, LenProperties
  <2> QED BY <1>1, <2>1, <2>2, <2>3, PoppedIs
<1>3. PICK closed \in SUBSET owned :
        /\ DOMAIN opened_conns' = DOMAIN opened_conns \ closed
        /\ \A c \in DOMAIN opened_conns \ closed : opened_conns'[c] = opened_conns[c]
        /\ \/ closed = owned /\ schemas' = schemas \ {n} /\ mishaps' = mishaps
           \/ schemas' = schemas /\ mishaps' = mishaps + 1
  BY <1>1, <1>2, PopClears DEF Clears
<1>4. StackInv'
  <2>1. sandbox_id' = n - 1 /\ bound' = Restored(bound, s', previous)
        /\ previous' = IF n > 1 THEN previous ELSE None
    BY <1>1, <1>2 DEF Pop
  <2>2. \A k \in builtins_keys : previous[k] = had[k]
    BY <1>1 DEF TInv, StackInv
  <2>3. s' = <<>> <=> n = 1
    BY <1>2, EmptySeq
  <2>4. s' # <<>> => \A k \in builtins_keys : previous'[k] = had'[k]
    BY <1>1, <1>2, <2>1, <2>2, <2>3
  <2>5. \A k \in builtins_keys : bound'[k] = IF s' = <<>> THEN had'[k] ELSE Last(s').db
    BY <1>1, <2>1, <2>2 DEF Restored, Builtins
  <2> QED BY <1>2, <2>1, <2>4, <2>5 DEF StackInv
<1>5. CountInv'
  <2>1. /\ mishaps \in Nat /\ IsFiniteSet(schemas) /\ Cardinality(schemas \ 1..n) <= mishaps
        /\ mishaps = 0 => schemas = 1..entered /\ entered = n
    BY DEF TInv, CountInv
  <2>2. /\ IsFiniteSet(schemas \ 1..n) /\ Cardinality(schemas \ 1..n) \in Nat
    BY <2>1, FS_Difference, FS_CardinalityType
  <2>3. 1..n = 1..(n - 1) \cup {n} /\ n \notin 1..(n - 1)
    BY <1>2
  <2>4. CASE closed = owned /\ schemas' = schemas \ {n} /\ mishaps' = mishaps
    <3>1. schemas' \ 1..(n - 1) = schemas \ 1..n
      BY <2>3, <2>4
    <3>2. IsFiniteSet(schemas')
      BY <2>1, <2>4, FS_Difference
    <3>3. mishaps' = 0 => schemas' = 1..(n - 1) /\ entered' = n - 1
      BY <1>1, <2>1, <2>3, <2>4
    <3>4. Cardinality(schemas' \ 1..(n - 1)) <= mishaps' /\ mishaps' \in Nat
      BY <2>1, <2>4, <3>1
    <3>5. entered' \in Nat /\ entered' <= n - 1
      BY <1>1, <1>2
    <3> HIDE DEF n, owned
    <3> QED BY <1>2, <3>2, <3>3, <3>4, <3>5 DEF CountInv
  <2>5. CASE schemas' = schemas /\ mishaps' = mishaps + 1
    <3>1. schemas \ 1..(n - 1) \subseteq (schemas \ 1..n) \cup {n}
      BY <2>3
    <3>2. /\ IsFiniteSet((schemas \ 1..n) \cup {n})
          /\ Cardinality((schemas \ 1..n) \cup {n}) <= Cardinality(schemas \ 1..n) + 1
      <4> DEFINE D == schemas \ 1..n
      <4>1. IsFiniteSet(D) /\ Cardinality(D) \in Nat
        BY <2>2
      <4> HIDE DEF D
      <4>2. IsFiniteSet(D \cup {n}) /\ Cardinality(D \cup {n}) <= Cardinality(D) + 1
        <5>1. /\ IsFiniteSet(D \cup {n})
              /\ Cardinality(D \cup {n}) = IF n \in D THEN Cardinality(D) ELSE Cardinality(D) + 1
          BY <4>1, FS_AddElement
        <5> QED BY <4>1, <5>1
      <4> QED BY <4>2 DEF D
    <3>3. Cardinality(schemas \ 1..(n - 1)) <= Cardinality((schemas \ 1..n) \cup {n})
      BY <3>1, <3>2, FS_Subset
    <3>4. Cardinality(schemas \ 1..(n - 1)) \in Nat /\ Cardinality((schemas \ 1..n) \cup {n}) \in Nat
      BY <2>1, <3>2, FS_Difference, FS_CardinalityType
    <3>5. Cardinality(schemas \ 1..(n - 1)) <= mishaps + 1
      BY <2>1, <2>2, <3>2, <3>3, <3>4
    <3> QED BY <1>1, <1>2, <2>1, <2>5, <3>5 DEF CountInv
  <2> QED BY <1>3, <2>4, <2>5
<1>6. OpenInv'
  <2>1. /\ DOMAIN opened_conns \subseteq Conn /\ AllOf(s) \subseteq DOMAIN opened_conns
        /\ \A i \in 1..n : \A c \in ConnsOf(s[i]) \cap DOMAIN opened_conns :
             opened_conns[c] = i \/ (opened_conns[c] = 0 /\ entered < n)
        /\ mishaps = 0 => DOMAIN opened_conns = AllOf(s)
    BY <1>1, <1>2 DEF TInv, OpenInv
  <2>2. mishaps' = 0 => DOMAIN opened_conns' = AllOf(s')
    <3>1. mishaps \in Nat
      BY DEF TInv, CountInv
    <3> HIDE DEF s, owned
    <3> QED BY <1>2, <1>3, <2>1, <3>1
  <2>3. AllOf(s') \subseteq DOMAIN opened_conns'
    <3> HIDE DEF s, owned
    <3> QED BY <1>2, <1>3, <2>1
  <2>4. ASSUME NEW i \in 1..(n - 1), NEW c \in ConnsOf(s'[i]) \cap DOMAIN opened_conns'
        PROVE  opened_conns'[c] = i \/ (opened_conns'[c] = 0 /\ entered' < Len(s'))
    <3>1. i \in 1..n /\ s'[i] = s[i]
      BY <1>2
    <3>2. c \in ConnsOf(s[i]) \cap DOMAIN opened_conns /\ opened_conns'[c] = opened_conns[c]
      BY <1>3, <3>1
    <3>3. opened_conns[c] = i \/ (opened_conns[c] = 0 /\ entered < n)
      BY <2>1, <3>1, <3>2
    <3>4. entered < n => entered' < Len(s')
      BY <1>1, <1>2
    <3> QED BY <3>2, <3>3, <3>4
  <2>5. DOMAIN opened_conns' \subseteq Conn
    BY <1>3, <2>1
  <2> HIDE DEF n, owned
  <2> QED BY <1>2, <2>2, <2>3, <2>4, <2>5 DEF OpenInv
<1> QED BY <1>1, <1>4, <1>5, <1>6 DEF TInv

-----------------------------------------------------------------------------
(* Pushing a level *)

\* A level for the connection that is made for it.
LEMMA WithLevelIs ==
  ASSUME TInv, ~exited, Fresh # {}, NEW t, t = WithLevel(NewConn)
  PROVE  /\ t \in Seq(Levels) /\ t # <<>> /\ Len(t) = Len(builtins_stack) + 1 /\ Len(builtins_stack) \in Nat
         /\ Last(t) \in Levels /\ Last(t).db = NewConn /\ ConnsOf(Last(t)) = {NewConn}
         /\ DOMAIN builtins_stack = 1..Len(builtins_stack) /\ DOMAIN t = 1..(Len(builtins_stack) + 1)
         /\ t[Len(builtins_stack) + 1] = Last(t) /\ \A i \in 1..Len(builtins_stack) : t[i] = builtins_stack[i]
         /\ Apart(t) /\ AllOf(t) = AllOf(builtins_stack) \cup {NewConn} /\ Front(t) = builtins_stack
         /\ NewConn \in Conn /\ NewConn \notin DOMAIN opened_conns /\ NewConn \notin AllOf(builtins_stack)
<1>1. NewConn \in Conn /\ NewConn \notin DOMAIN opened_conns
  BY NewConnIsFree
<1>2. PICK l \in Levels : ConnsOf(l) = {NewConn} /\ l.db = NewConn /\ l = [db |-> NewConn, extras |-> <<>>]
  BY <1>1, ConnsOfNew
<1>3. builtins_stack \in Seq(Levels) /\ Apart(builtins_stack) /\ AllOf(builtins_stack) \subseteq DOMAIN opened_conns
  BY DEF TInv, StackInv, OpenInv
<1>4. t = Append(builtins_stack, l)
  BY <1>2 DEF WithLevel
<1>5. ConnsOf(l) \cap AllOf(builtins_stack) = {}
  BY <1>1, <1>2, <1>3
<1>6. Pushed(builtins_stack, l, t)
  BY ONLY <1>3, <1>4, <1>5, PushedIs
<1> QED BY <1>1, <1>2, <1>3, <1>6 DEF Pushed

LEMMA EnterFailsKeeps ==
  ASSUME TInv, EnterFails PROVE TInv'
<1> DEFINE s == builtins_stack
           n == Len(s)
           c == NewConn
           t == WithLevel(c)
           o == WithConn(c, 0)
<1>1. /\ ~exited /\ cluster /\ Fresh # {} /\ exited' = exited /\ cluster' = cluster /\ had' = had /\ entered' = entered
      /\ Pop(t, [k \in Builtins |-> c], Given, o, sandbox_id + 1, "exception")
  BY DEF EnterFails, CanEnter, life
<1>2. /\ t \in Seq(Levels) /\ Len(t) = n + 1 /\ n \in Nat /\ Last(t) \in Levels /\ ConnsOf(Last(t)) = {c}
      /\ DOMAIN s = 1..n /\ Front(t) = s /\ c \in Conn /\ c \notin DOMAIN opened_conns /\ c \notin AllOf(s)
  BY <1>1, WithLevelIs
<1>3. /\ s' = s /\ sandbox_id' = (sandbox_id + 1) - 1
      /\ previous' = IF Len(t) > 1 THEN Given ELSE None
      /\ bound' = Restored([k \in Builtins |-> c], Front(t), Given)
  <2> HIDE DEF t, o, c
  <2>1. /\ s' = Front(t) /\ sandbox_id' = (sandbox_id + 1) - 1
        /\ previous' = IF Len(t) > 1 THEN Given ELSE None
        /\ bound' = Restored([k \in Builtins |-> c], Front(t), Given)
    BY <1>1, Zenon DEF Pop
  <2> QED BY ONLY <1>2, <2>1, Zenon
<1>4. s \in Seq(Levels) /\ Apart(s) /\ sandbox_id = n
  BY DEF TInv, StackInv
<1>5. PICK closed \in SUBSET {c} :
        /\ DOMAIN opened_conns' = DOMAIN o \ closed
        /\ \A x \in DOMAIN o \ closed : opened_conns'[x] = o[x]
        /\ \/ closed = {c} /\ schemas' = schemas \ {n + 1} /\ mishaps' = mishaps
           \/ schemas' = schemas /\ mishaps' = mishaps + 1
  <2> HIDE DEF t, o, c
  <2>1. Clears(o, ConnsOf(Last(t)), sandbox_id + 1)
    BY <1>1, <1>2, PopClears
  <2> QED BY <1>2, <1>4, <2>1 DEF Clears
<1>6. DOMAIN o = DOMAIN opened_conns \cup {c} /\ \A x \in DOMAIN opened_conns : o[x] = opened_conns[x]
  BY <1>2 DEF WithConn
<1> HIDE DEF t, o, c
<1>7. StackInv'
  <2>1. s = <<>> <=> n = 0
    BY <1>4, EmptySeq
  <2>2. s # <<>> => Given = previous /\ previous' = previous
    BY <1>2, <1>3, <2>1 DEF Given
  <2>3. \A k \in builtins_keys : s = <<>> => Given[k] = had[k]
    BY DEF Given, TInv, StackInv
  <2>4. s' # <<>> => \A k \in builtins_keys : previous'[k] = had'[k]
    BY <1>1, <1>3, <2>2 DEF TInv, StackInv
  <2>5. \A k \in builtins_keys : bound'[k] = IF s' = <<>> THEN had'[k] ELSE Last(s').db
    BY <1>1, <1>2, <1>3, <2>3 DEF Restored, Builtins
  <2>6. sandbox_id' = n
    BY <1>2, <1>3, <1>4
  <2> QED BY <1>3, <1>4, <2>4, <2>5, <2>6 DEF StackInv
<1>8. CountInv'
  <2>1. /\ mishaps \in Nat /\ IsFiniteSet(schemas) /\ Cardinality(schemas \ 1..n) <= mishaps
        /\ mishaps = 0 => schemas = 1..entered /\ entered = n
        /\ entered \in Nat /\ entered <= n
    BY DEF TInv, CountInv
  <2>2. CASE schemas' = schemas \ {n + 1} /\ mishaps' = mishaps
    <3>1. IsFiniteSet(schemas') /\ IsFiniteSet(schemas \ 1..n) /\ IsFiniteSet(schemas' \ 1..n)
      BY <2>1, <2>2, FS_Difference
    <3>2. schemas' \ 1..n \subseteq schemas \ 1..n
      BY <2>2
    <3>3. /\ Cardinality(schemas' \ 1..n) <= Cardinality(schemas \ 1..n)
          /\ Cardinality(schemas' \ 1..n) \in Nat /\ Cardinality(schemas \ 1..n) \in Nat
      <4> DEFINE A == schemas' \ 1..n
                 B == schemas \ 1..n
      <4>1. IsFiniteSet(A) /\ IsFiniteSet(B) /\ A \subseteq B
        BY <3>1, <3>2
      <4> HIDE DEF A, B
      <4>2. Cardinality(A) <= Cardinality(B) /\ Cardinality(A) \in Nat /\ Cardinality(B) \in Nat
        BY <4>1, FS_Subset, FS_CardinalityType
      <4> QED BY <4>2 DEF A, B
    <3>4. Cardinality(schemas' \ 1..n) <= mishaps'
      BY <2>1, <2>2, <3>3
    <3>5. mishaps' = 0 => schemas' = 1..entered /\ entered = n
      <4>1. n + 1 \notin 1..n
        BY <1>2
      <4> QED BY <2>1, <2>2, <4>1
    <3> QED BY <1>1, <1>3, <2>1, <2>2, <3>1, <3>4, <3>5 DEF CountInv
  <2>3. CASE schemas' = schemas /\ mishaps' = mishaps + 1
    <3>1. Cardinality(schemas \ 1..n) \in Nat
      BY <2>1, FS_Difference, FS_CardinalityType
    <3>2. Cardinality(schemas' \ 1..n) <= mishaps' /\ mishaps' \in Nat /\ mishaps' # 0
      BY <2>1, <2>3, <3>1
    <3> QED BY <1>1, <1>3, <2>1, <2>3, <3>2 DEF CountInv
  <2> QED BY <1>5, <2>2, <2>3
<1>9. OpenInv'
  <2>1. /\ DOMAIN opened_conns \subseteq Conn /\ AllOf(s) \subseteq DOMAIN opened_conns
        /\ \A i \in 1..n : \A x \in ConnsOf(s[i]) \cap DOMAIN opened_conns :
             opened_conns[x] = i \/ (opened_conns[x] = 0 /\ entered < n)
        /\ mishaps = 0 => DOMAIN opened_conns = AllOf(s)
        /\ mishaps \in Nat
    BY <1>1, <1>2 DEF TInv, OpenInv, CountInv
  <2>2. DOMAIN opened_conns' \subseteq Conn /\ AllOf(s) \subseteq DOMAIN opened_conns'
    BY <1>2, <1>5, <1>6, <2>1
  <2>3. ASSUME mishaps' = 0 PROVE DOMAIN opened_conns' = AllOf(s)
    <3>1. mishaps = 0 /\ closed = {c}
      BY <1>5, <2>1, <2>3
    <3> QED BY <1>2, <1>5, <1>6, <2>1, <3>1
  <2>4. ASSUME NEW i \in 1..n, NEW x \in ConnsOf(s[i]) \cap DOMAIN opened_conns'
        PROVE  opened_conns'[x] = i \/ (opened_conns'[x] = 0 /\ entered' < n)
    <3>1. x \in AllOf(s)
      BY <1>2 DEF AllOf
    <3>2. x \in DOMAIN opened_conns /\ opened_conns'[x] = opened_conns[x]
      BY <1>2, <1>5, <1>6, <2>1, <3>1
    <3> QED BY <1>1, <2>1, <3>2
  <2> QED BY <1>1, <1>2, <1>3, <2>2, <2>3, <2>4 DEF OpenInv
<1> QED BY <1>1, <1>7, <1>8, <1>9 DEF TInv

\* What both ways of leaving a level behind in __enter__() have in common: sandbox is what the connection
\* searches, and is 0 if the level is not one of a block being executed.
LEMMA PushKeeps ==
  ASSUME TInv, ~exited, exited' = exited, cluster' = cluster, had' = had, Fresh # {}, Push(NewConn),
         NEW sandbox, opened_conns' = WithConn(NewConn, sandbox), mishaps' \in {mishaps, mishaps + 1},
         entered' \in {entered, entered + 1}, entered' = entered => mishaps' = mishaps + 1,
         sandbox = sandbox_id + 1 \/ (sandbox = 0 /\ entered' = entered),
         schemas' = schemas \/ schemas' = schemas \cup {sandbox_id + 1},
         mishaps' = mishaps => schemas' = schemas \cup {sandbox_id + 1}
  PROVE  TInv'
<1> DEFINE s == builtins_stack
           n == Len(s)
           c == NewConn
           t == WithLevel(c)
<1>1. /\ t \in Seq(Levels) /\ Len(t) = n + 1 /\ n \in Nat /\ t # <<>> /\ Last(t).db = c
      /\ DOMAIN s = 1..n /\ DOMAIN t = 1..(n + 1) /\ ConnsOf(t[n + 1]) = {c} /\ \A i \in 1..n : t[i] = s[i]
      /\ Apart(t) /\ AllOf(t) = AllOf(s) \cup {c} /\ c \in Conn /\ c \notin DOMAIN opened_conns /\ c \notin AllOf(s)
  BY WithLevelIs
<1>2. s' = t /\ sandbox_id' = sandbox_id + 1 /\ previous' = Given /\ bound' = [k \in Builtins |-> c]
  BY DEF Push
<1>3. sandbox_id = n
  BY DEF TInv, StackInv
<1> HIDE DEF t, c
<1>4. StackInv'
  <2>1. \A k \in builtins_keys : Given[k] = had[k]
    BY DEF Given, TInv, StackInv
  <2> QED BY <1>1, <1>2, <1>3, <2>1 DEF StackInv, Builtins
<1>5. CountInv'
  <2>1. /\ mishaps \in Nat /\ IsFiniteSet(schemas) /\ Cardinality(schemas \ 1..n) <= mishaps
        /\ mishaps = 0 => schemas = 1..entered /\ entered = n
        /\ entered \in Nat /\ entered <= n
    BY DEF TInv, CountInv
  <2>2. IsFiniteSet(schemas')
    <3>1. IsFiniteSet(schemas \cup {n + 1})
      BY <2>1, FS_AddElement
    <3> QED BY <1>3, <2>1, <3>1
  <2>3. /\ Cardinality(schemas' \ 1..(n + 1)) <= Cardinality(schemas \ 1..n)
        /\ Cardinality(schemas' \ 1..(n + 1)) \in Nat /\ Cardinality(schemas \ 1..n) \in Nat
    <3> DEFINE A == schemas' \ 1..(n + 1)
               B == schemas \ 1..n
    <3>1. 1..(n + 1) = 1..n \cup {n + 1}
      BY <1>1
    <3>2. A \subseteq B
      BY <1>3, <3>1
    <3>3. IsFiniteSet(B) /\ IsFiniteSet(A)
      BY <2>1, <2>2, FS_Difference
    <3> HIDE DEF A, B
    <3>4. Cardinality(A) <= Cardinality(B) /\ Cardinality(A) \in Nat /\ Cardinality(B) \in Nat
      BY <3>2, <3>3, FS_Subset, FS_CardinalityType
    <3> QED BY <3>4 DEF A, B
  <2>4. Cardinality(schemas' \ 1..(n + 1)) <= mishaps' /\ mishaps' \in Nat
    <3>1. mishaps' \in Nat /\ mishaps <= mishaps'
      BY <2>1
    <3> QED BY <2>1, <2>3, <3>1
  <2>5. ASSUME mishaps' = 0 PROVE schemas' = 1..entered' /\ entered' = n + 1
    <3>1. mishaps = 0 /\ mishaps' = mishaps /\ mishaps' # mishaps + 1
      BY <2>1, <2>5
    <3>2. entered' = entered + 1 /\ schemas' = schemas \cup {n + 1} /\ schemas = 1..n /\ entered = n
      BY <1>3, <2>1, <3>1
    <3>3. 1..n \cup {n + 1} = 1..(n + 1)
      BY <1>1
    <3>4. entered' = n + 1
      BY ONLY <3>2
    <3> QED BY ONLY <3>2, <3>3, <3>4
  <2>6. entered' \in Nat /\ entered' <= n + 1
    <3>1. entered' = entered \/ entered' = entered + 1
      OBVIOUS
    <3> HIDE DEF n
    <3> QED BY ONLY <1>1, <2>1, <3>1
  <2> QED BY <1>1, <1>2, <2>2, <2>4, <2>5, <2>6 DEF CountInv
<1>6. OpenInv'
  <2>1. /\ DOMAIN opened_conns \subseteq Conn /\ AllOf(s) \subseteq DOMAIN opened_conns
        /\ \A i \in 1..n : \A x \in ConnsOf(s[i]) \cap DOMAIN opened_conns :
             opened_conns[x] = i \/ (opened_conns[x] = 0 /\ entered < n)
        /\ mishaps = 0 => DOMAIN opened_conns = AllOf(s)
        /\ mishaps \in Nat /\ entered \in Nat /\ entered <= n
    BY <1>1 DEF TInv, OpenInv, CountInv
  <2>2. /\ DOMAIN opened_conns' = DOMAIN opened_conns \cup {c} /\ opened_conns'[c] = sandbox
        /\ \A x \in DOMAIN opened_conns : opened_conns'[x] = opened_conns[x]
    BY <1>1 DEF WithConn, c
  <2>3. mishaps' = 0 => DOMAIN opened_conns' = AllOf(t)
    BY <1>1, <2>1, <2>2
  <2>4. ASSUME NEW i \in 1..(n + 1), NEW x \in ConnsOf(t[i]) \cap DOMAIN opened_conns'
        PROVE  opened_conns'[x] = i \/ (opened_conns'[x] = 0 /\ entered' < n + 1)
    <3>1. CASE i = n + 1
      <4>1. x = c
        BY <1>1, <3>1
      <4> QED BY <1>1, <1>3, <2>1, <2>2, <3>1, <4>1
    <3>2. CASE i \in 1..n
      <4>1. x \in ConnsOf(s[i]) /\ x \in AllOf(s)
        BY <1>1, <3>2 DEF AllOf
      <4>2. x \in DOMAIN opened_conns /\ opened_conns'[x] = opened_conns[x]
        BY <2>1, <2>2, <4>1
      <4>3. entered < n => entered' < n + 1
        BY <1>1, <2>1
      <4> QED BY <2>1, <3>2, <4>1, <4>2, <4>3
    <3> QED BY <1>1, <3>1, <3>2
  <2> QED BY <1>1, <1>2, <2>1, <2>2, <2>3, <2>4 DEF OpenInv
<1> QED BY <1>4, <1>5, <1>6 DEF TInv

LEMMA EnterKeeps ==
  ASSUME TInv, Enter PROVE TInv'
<1>1. /\ ~exited /\ Fresh # {} /\ Push(NewConn) /\ opened_conns' = WithConn(NewConn, sandbox_id')
      /\ schemas' = schemas \cup {sandbox_id'} /\ entered' = entered + 1 /\ mishaps' = mishaps
      /\ exited' = exited /\ cluster' = cluster /\ had' = had /\ sandbox_id' = sandbox_id + 1
  BY DEF Enter, CanEnter, Push, life
<1>2. entered' # entered
  BY <1>1 DEF TInv, CountInv
<1> QED BY <1>1, <1>2, PushKeeps

LEMMA EnterInterruptedKeeps ==
  ASSUME TInv, EnterInterrupted PROVE TInv'
<1>1. /\ ~exited /\ Fresh # {} /\ Push(NewConn) /\ entered' = entered /\ mishaps' = mishaps + 1
      /\ exited' = exited /\ cluster' = cluster /\ had' = had /\ sandbox_id' = sandbox_id + 1
      /\ \/ opened_conns' = WithConn(NewConn, 0) /\ schemas' \in {schemas, schemas \cup {sandbox_id'}}
         \/ opened_conns' = WithConn(NewConn, sandbox_id') /\ schemas' = schemas \cup {sandbox_id'}
  BY DEF EnterInterrupted, CanEnter, Push, life
<1>2. mishaps' # mishaps
  BY <1>1 DEF TInv, CountInv
<1>3. CASE opened_conns' = WithConn(NewConn, 0) /\ schemas' \in {schemas, schemas \cup {sandbox_id'}}
  BY <1>1, <1>2, <1>3, PushKeeps
<1>4. CASE opened_conns' = WithConn(NewConn, sandbox_id') /\ schemas' = schemas \cup {sandbox_id'}
  BY <1>1, <1>2, <1>4, PushKeeps
<1> QED BY <1>1, <1>3, <1>4

LEMMA NewKeeps ==
  ASSUME TInv, New PROVE TInv'
<1> DEFINE s == builtins_stack
           n == Len(s)
           c == NewConn
           l == [s[n] EXCEPT !.extras = Append(@, c)]
<1>1. /\ s # <<>> /\ ~exited /\ Fresh # {} /\ s' = [s EXCEPT ![n].extras = Append(@, c)]
      /\ opened_conns' = WithConn(c, sandbox_id)
      /\ bound' = bound /\ previous' = previous /\ sandbox_id' = sandbox_id /\ exited' = exited /\ cluster' = cluster
      /\ had' = had /\ schemas' = schemas /\ entered' = entered /\ mishaps' = mishaps
  BY DEF New, life
<1>2. /\ s \in Seq(Levels) /\ Apart(s) /\ sandbox_id = n
  BY DEF TInv, StackInv
<1>3. c \in Conn /\ c \notin DOMAIN opened_conns
  BY <1>1, NewConnIsFree
<1>4. n \in Nat \ {0} /\ DOMAIN s = 1..n /\ n \in 1..n /\ \A i \in 1..n : s[i] \in Levels
  BY <1>1, <1>2, EmptySeq, LenProperties, ElementOfSeq
<1> HIDE DEF c
<1>5. l \in Levels /\ l.db = s[n].db /\ ConnsOf(l) = ConnsOf(s[n]) \cup {c}
  BY <1>3, <1>4, ConnsOfExtended
<1>6. s' = [s EXCEPT ![n] = l]
  BY <1>1
<1> HIDE DEF l
<1>7. /\ s' \in Seq(Levels) /\ Len(s') = n /\ DOMAIN s' = 1..n /\ s'[n] = l /\ \A i \in 1..n : i # n => s'[i] = s[i]
  <2>1. s' \in [1..n -> Levels] /\ s'[n] = l /\ \A i \in 1..n : i # n => s'[i] = s[i]
    <3>1. s \in [1..n -> Levels]
      BY <1>2, LenProperties
    <3> HIDE DEF n, s
    <3> QED BY <1>4, <1>5, <1>6, <3>1
  <2>2. s' \in Seq(Levels) /\ Len(s') = n
    <3> HIDE DEF n, s
    <3> QED BY ONLY <1>4, <2>1, FunctionIsSeq
  <2>3. DOMAIN s' = 1..n
    <3> HIDE DEF n, s
    <3> QED BY ONLY <2>1
  <2> HIDE DEF n, s
  <2> QED BY ONLY <2>1, <2>2, <2>3
<1>8. \A i \in 1..n : i # n => c \notin ConnsOf(s[i])
  <2>1. AllOf(s) \subseteq DOMAIN opened_conns
    BY <1>1 DEF TInv, OpenInv
  <2> HIDE DEF n, s
  <2> QED BY ONLY <1>3, <1>4, <2>1 DEF AllOf
<1> HIDE DEF n, s
<1>9. AllOf(s') = AllOf(s) \cup {c}
  <2>1. ASSUME NEW x PROVE x \in AllOf(s') <=> \E i \in 1..n : x \in ConnsOf(s'[i])
    BY <1>7 DEF AllOf
  <2>2. ASSUME NEW x PROVE x \in AllOf(s) <=> \E i \in 1..n : x \in ConnsOf(s[i])
    BY <1>4 DEF AllOf
  <2>3. ASSUME NEW x, NEW i \in 1..n PROVE x \in ConnsOf(s'[i]) <=> x \in ConnsOf(s[i]) \/ (i = n /\ x = c)
    BY <1>5, <1>7
  <2> QED BY <1>4, <2>1, <2>2, <2>3
<1>10. Apart(s')
  <2> SUFFICES ASSUME NEW i \in 1..n, NEW j \in 1..n, i # j PROVE ConnsOf(s'[i]) \cap ConnsOf(s'[j]) = {}
    BY <1>7 DEF Apart
  <2>1. ConnsOf(s[i]) \cap ConnsOf(s[j]) = {}
    BY <1>2, <1>4 DEF Apart
  <2>2. CASE i = n
    BY <1>5, <1>7, <1>8, <2>1, <2>2
  <2>3. CASE j = n
    BY <1>5, <1>7, <1>8, <2>1, <2>3
  <2>4. CASE i # n /\ j # n
    BY <1>7, <2>1, <2>4
  <2> QED BY <2>2, <2>3, <2>4
<1>11. StackInv'
  <2>1. s' # <<>> /\ Last(s').db = Last(s).db
    <3>1. Len(<<>>) = 0
      OBVIOUS
    <3> QED BY <1>4, <1>5, <1>7, <3>1 DEF Last, n
  <2>2. /\ s # <<>> => \A k \in builtins_keys : previous[k] = had[k]
        /\ \A k \in builtins_keys : bound[k] = IF s = <<>> THEN had[k] ELSE Last(s).db
    BY DEF TInv, StackInv, s
  <2>3. builtins_stack = s /\ builtins_stack' = s'
    BY DEF s
  <2> QED BY <1>1, <1>2, <1>7, <1>10, <2>1, <2>2, <2>3 DEF StackInv
<1>12. CountInv'
  BY <1>1, <1>7 DEF TInv, CountInv, n, s
<1>13. OpenInv'
  <2>1. /\ DOMAIN opened_conns \subseteq Conn /\ AllOf(s) \subseteq DOMAIN opened_conns
        /\ \A i \in 1..n : \A x \in ConnsOf(s[i]) \cap DOMAIN opened_conns :
             opened_conns[x] = i \/ (opened_conns[x] = 0 /\ entered < n)
        /\ mishaps = 0 => DOMAIN opened_conns = AllOf(s)
    BY <1>1, <1>4 DEF TInv, OpenInv, n, s
  <2>2. /\ DOMAIN opened_conns' = DOMAIN opened_conns \cup {c} /\ opened_conns'[c] = n
        /\ \A x \in DOMAIN opened_conns : opened_conns'[x] = opened_conns[x]
    BY <1>1, <1>2, <1>3 DEF WithConn
  <2>3. ASSUME NEW i \in 1..n, NEW x \in ConnsOf(s'[i]) \cap DOMAIN opened_conns'
        PROVE  opened_conns'[x] = i \/ (opened_conns'[x] = 0 /\ entered' < n)
    <3>1. CASE x = c
      <4>1. i = n
        BY <1>7, <1>8, <3>1, <2>3
      <4> QED BY <2>2, <3>1, <4>1
    <3>2. CASE x # c
      <4>1. x \in ConnsOf(s[i]) /\ x \in DOMAIN opened_conns
        BY <1>5, <1>7, <2>2, <3>2
      <4> QED BY <1>1, <2>1, <2>2, <4>1
    <3> QED BY <3>1, <3>2
  <2>4. builtins_stack' = s'
    BY DEF s
  <2>5. DOMAIN opened_conns' \subseteq Conn /\ AllOf(s') \subseteq DOMAIN opened_conns'
    BY <1>3, <1>9, <2>1, <2>2
  <2>6. mishaps' = 0 => DOMAIN opened_conns' = AllOf(s')
    BY <1>1, <1>9, <2>1, <2>2
  <2> QED BY <1>7, <2>3, <2>4, <2>5, <2>6 DEF OpenInv
<1> QED BY <1>1, <1>11, <1>12, <1>13 DEF TInv

LEMMA CollectKeeps ==
  ASSUME TInv, Collect PROVE TInv'
<1>1. PICK c \in DOMAIN opened_conns :
        /\ \A i \in DOMAIN builtins_stack : c \notin ConnsOf(builtins_stack[i])
        /\ opened_conns' = Closing(opened_conns, {c})
  BY DEF Collect, ConnsOf
<1>2. /\ UNCHANGED <<builtins_stack, previous, sandbox_id, bound, had, cluster, exited, schemas, entered, mishaps>>
      /\ ~exited
  BY DEF Collect, stackVars, life
<1>3. StackInv' /\ CountInv' /\ (exited' => ~cluster')
  BY <1>2 DEF TInv, StackInv, CountInv
<1>4. c \notin AllOf(builtins_stack)
  BY <1>1 DEF AllOf
<1>5. /\ DOMAIN opened_conns' = DOMAIN opened_conns \ {c}
      /\ \A x \in DOMAIN opened_conns' : opened_conns'[x] = opened_conns[x]
  BY <1>1 DEF Closing
<1>6. OpenInv'
  <2>1. OpenInv
    BY DEF TInv
  <2>2. AllOf(builtins_stack') = AllOf(builtins_stack)
    BY <1>2
  <2>3. /\ DOMAIN opened_conns' \subseteq Conn
        /\ ~exited' => AllOf(builtins_stack') \subseteq DOMAIN opened_conns'
        /\ mishaps' = 0 => DOMAIN opened_conns' = AllOf(builtins_stack')
    BY <1>2, <1>4, <1>5, <2>1, <2>2 DEF OpenInv
  <2>4. ASSUME NEW i \in DOMAIN builtins_stack', NEW x \in ConnsOf(builtins_stack'[i]) \cap DOMAIN opened_conns'
        PROVE  opened_conns'[x] = i \/ (opened_conns'[x] = 0 /\ entered' < Len(builtins_stack'))
    BY <1>2, <1>5, <2>1 DEF OpenInv
  <2> QED BY <2>3, <2>4 DEF OpenInv
<1> QED BY <1>3, <1>6 DEF TInv

LEMMA DestroyKeeps ==
  ASSUME TInv, Destroy PROVE TInv'
<1>1. /\ entered = 0 /\ exited' = TRUE /\ cluster' = FALSE /\ opened_conns' = << >>
      /\ UNCHANGED <<builtins_stack, previous, sandbox_id, bound, schemas, entered, mishaps, had>>
  BY DEF Destroy, stackVars
<1>2. StackInv' /\ CountInv'
  BY <1>1 DEF TInv, StackInv, CountInv
<1>3. DOMAIN opened_conns' = {}
  <2>1. DOMAIN << >> = {}
    OBVIOUS
  <2> QED BY <1>1, <2>1
<1>4. mishaps' = 0 => AllOf(builtins_stack') = {}
  <2> SUFFICES ASSUME mishaps = 0 PROVE AllOf(builtins_stack) = {}
    BY <1>1
  <2>1. builtins_stack \in Seq(Levels) /\ Len(builtins_stack) = 0
    BY <1>1 DEF TInv, StackInv, CountInv
  <2>2. DOMAIN builtins_stack = {}
    BY <2>1, LenProperties
  <2> QED BY <2>2 DEF AllOf
<1>5. OpenInv'
  BY <1>1, <1>3, <1>4 DEF OpenInv
<1> QED BY <1>1, <1>2, <1>5 DEF TInv

LEMMA TInvStep == TInv /\ [TemporalNext]_temporalVars => TInv'
<1> SUFFICES ASSUME TInv, [TemporalNext]_temporalVars PROVE TInv'
  OBVIOUS
<1>1. CASE InitFails \/ ClusterInitialized
  <2>1. /\ UNCHANGED <<builtins_stack, previous, sandbox_id, bound, had, exited, schemas, opened_conns, entered, mishaps>>
        /\ ~exited
    BY <1>1 DEF InitFails, ClusterInitialized, stackVars, serverVars
  <2>2. StackInv' /\ CountInv'
    BY <2>1 DEF TInv, StackInv, CountInv
  <2>3. OpenInv'
    BY <2>1 DEF TInv, OpenInv
  <2> QED BY <2>1, <2>2, <2>3 DEF TInv
<1>2. CASE Destroy
  BY <1>2, DestroyKeeps
<1>3. CASE Enter
  BY <1>3, EnterKeeps
<1>4. CASE EnterFails
  BY <1>4, EnterFailsKeeps
<1>5. CASE EnterInterrupted
  BY <1>5, EnterInterruptedKeeps
<1>6. CASE New
  BY <1>6, NewKeeps
<1>7. CASE Collect
  BY <1>7, CollectKeeps
<1>8. CASE \E exc \in {None, "exception", "interrupt"} : Exit(exc)
  BY <1>8, ExitKeeps
<1>9. CASE UNCHANGED temporalVars
  BY <1>9 DEF temporalVars, TInv, StackInv, CountInv, OpenInv
<1> QED BY <1>1, <1>2, <1>3, <1>4, <1>5, <1>6, <1>7, <1>8, <1>9 DEF TemporalNext

\* temporal.py: for any number of connections, levels and mishaps, the names belong to the block being executed, a
\* level's connections are open and search its own sandbox, and only a mishap leaves a connection or sandbox behind.
THEOREM SandboxesAlwaysEnd == TemporalSpec => [](TemporalTypeOK /\ SandboxesEnd)
<1>1. TemporalInit => TInv
  <2> SUFFICES ASSUME TemporalInit PROVE TInv
    OBVIOUS
  <2>1. /\ builtins_stack = <<>> /\ sandbox_id = 0 /\ opened_conns = << >> /\ schemas = {} /\ entered = 0
        /\ mishaps = 0 /\ exited = FALSE /\ cluster = FALSE /\ had = bound
    BY DEF TemporalInit
  <2>2. builtins_stack \in Seq(Levels) /\ Len(builtins_stack) = 0 /\ DOMAIN builtins_stack = {}
        /\ DOMAIN opened_conns = {}
    <3>1. <<>> \in Seq(Levels) /\ Len(<<>>) = 0
      BY EmptySeq
    <3>2. DOMAIN <<>> = {}
      OBVIOUS
    <3> QED BY <2>1, <3>1, <3>2
  <2>3. StackInv
    BY <2>1, <2>2 DEF StackInv, Apart
  <2>4. CountInv
    <3>1. IsFiniteSet({}) /\ Cardinality({}) = 0 /\ 1..0 = {} /\ {} \ 1..0 = {}
      BY FS_EmptySet
    <3> QED BY <2>1, <2>2, <3>1 DEF CountInv
  <2>5. OpenInv
    BY <2>1, <2>2 DEF OpenInv, AllOf
  <2> QED BY <2>1, <2>3, <2>4, <2>5 DEF TInv
<1>2. TInv => TemporalTypeOK /\ SandboxesEnd
  <2> SUFFICES ASSUME TInv PROVE TemporalTypeOK /\ SandboxesEnd
    OBVIOUS
  <2>1. OfLevels = AllOf(builtins_stack)
    BY DEF OfLevels, AllOf, ConnsOf
  <2> QED BY <2>1 DEF TInv, StackInv, CountInv, OpenInv, TemporalTypeOK, SandboxesEnd, ConnsOf
<1> QED BY <1>1, <1>2, TInvStep, PTL DEF TemporalSpec

-----------------------------------------------------------------------------
(* ALocks                                                                  *)
(*                                                                         *)
(* While an acquire() is under way, the session holds the identifiers that *)
(* were granted too, and its lock object is not counted.                   *)

NameIt(l, d, mode, id) ==
  IF l.database = d /\ l.mode = mode THEN Times(l.identifiers, DOMAIN l.identifiers, id) ELSE 0
Terms(counts, d, mode, id) == [l \in ALock |-> IF counts[l] > 0 THEN NameIt(l, d, mode, id) ELSE 0]
Underway(a, mode, id) ==
  IF a # None /\ a.lock.mode = mode THEN Times(a.lock.identifiers, 1 .. (a.next - 1), id) ELSE 0
Acquires(d) == {a \in [lock : ALock, next : Nat] : a.lock.database = d /\ a.next \in 1 .. (Len(a.lock.identifiers) + 1)}

LockTypes ==
  /\ count \in [ALock -> {0, 1}] /\ held \in [Databases -> [Modes \X Identifiers -> Nat]]
  /\ gone \subseteq Databases /\ broken \subseteq Databases
  /\ DOMAIN acquiring = Databases
  /\ \A d \in Databases : acquiring[d] = None \/ (acquiring[d] \in Acquires(d) /\ count[acquiring[d].lock] = 0)

HeldInv ==
  \A d \in Databases \ (gone \cup broken) : \A mode \in Modes, id \in Identifiers :
    held[d][<<mode, id>>] = SumOf(Terms(count, d, mode, id)) + Underway(acquiring[d], mode, id)

LInv == LockTypes /\ HeldInv

LEMMA LockIs ==
  ASSUME NEW l \in ALock
  PROVE  /\ l.database \in Databases /\ l.mode \in Modes /\ l.identifiers \in Seq(ToSet(l.identifiers))
         /\ Len(l.identifiers) \in Nat /\ DOMAIN l.identifiers = 1 .. Len(l.identifiers)
         /\ \A i \in 1 .. Len(l.identifiers) : l.identifiers[i] \in Identifiers
<1>1. l.database \in Databases /\ l.mode \in Modes /\ l.identifiers \in Seq(ToSet(l.identifiers))
  BY LocksAssumption DEF Modes
<1>2. Len(l.identifiers) \in Nat /\ DOMAIN l.identifiers = 1 .. Len(l.identifiers)
  BY <1>1, LenProperties
<1>3. \A i \in DOMAIN l.identifiers : l.identifiers[i] \in Identifiers
  BY DEF Identifiers, ToSet
<1> QED BY <1>1, <1>2, <1>3

LEMMA TimesIsNat ==
  ASSUME NEW ids, NEW id, NEW n \in Nat, NEW places \in SUBSET (1 .. n)
  PROVE  Times(ids, places, id) \in Nat
<1> DEFINE S == {i \in places : ids[i] = id}
<1>1. S \subseteq 1 .. n
  BY places \subseteq 1 .. n
<1>0. IsFiniteSet(1 .. n)
  BY FS_Interval
<1> HIDE DEF S
<1>2. Cardinality(S) \in Nat
  BY <1>0, <1>1, FS_Subset, FS_CardinalityType
<1> QED BY <1>2 DEF Times, S

LEMMA TimesOfNone ==
  ASSUME NEW ids, NEW id PROVE Times(ids, 1 .. 0, id) = 0
<1>1. {i \in 1 .. 0 : ids[i] = id} = {}
  OBVIOUS
<1> QED BY <1>1, FS_EmptySet DEF Times

LEMMA TimesOfNext ==
  ASSUME NEW ids, NEW id, NEW n \in Nat
  PROVE  Times(ids, 1 .. (n + 1), id) = Times(ids, 1 .. n, id) + (IF ids[n + 1] = id THEN 1 ELSE 0)
<1> DEFINE S == {i \in 1 .. n : ids[i] = id}
           T == {i \in 1 .. (n + 1) : ids[i] = id}
<1>1. S \subseteq 1 .. n /\ IsFiniteSet(1 .. n)
  BY FS_Interval
<1>2. 1 .. (n + 1) = 1 .. n \cup {n + 1} /\ n + 1 \notin 1 .. n
  OBVIOUS
<1>3. T = IF ids[n + 1] = id THEN S \cup {n + 1} ELSE S
  BY <1>2
<1>4. n + 1 \notin S
  BY <1>2
<1>5. Times(ids, 1 .. (n + 1), id) = Cardinality(T) /\ Times(ids, 1 .. n, id) = Cardinality(S)
  BY DEF Times
<1> HIDE DEF S, T
<1>6. IsFiniteSet(S) /\ Cardinality(S) \in Nat
  BY <1>1, FS_Subset, FS_CardinalityType
<1>7. Cardinality(S \cup {n + 1}) = Cardinality(S) + 1
  BY <1>4, <1>6, FS_AddElement
<1> QED BY <1>3, <1>5, <1>6, <1>7

LEMMA NameItIsNat ==
  ASSUME NEW l \in ALock, NEW d, NEW mode, NEW id PROVE NameIt(l, d, mode, id) \in Nat
<1>1. Times(l.identifiers, DOMAIN l.identifiers, id) \in Nat
  BY LockIs, TimesIsNat
<1> QED BY <1>1 DEF NameIt

\* What is counted, and how that changes with the count of a lock object.
LEMMA TermsAre ==
  ASSUME NEW counts \in [ALock -> {0, 1}], NEW d, NEW mode, NEW id
  PROVE  Terms(counts, d, mode, id) \in [ALock -> Nat] /\ SumOf(Terms(counts, d, mode, id)) \in Nat
<1> DEFINE f == Terms(counts, d, mode, id)
           z == [l \in ALock |-> 0]
<1>1. f \in [ALock -> Nat]
  BY NameItIsNat DEF Terms
<1>2. IsFiniteSet(ALock)
  BY LocksAssumption
<1>3. f \in [ALock -> Int] /\ z \in [ALock -> Int] /\ \A l \in ALock : z[l] = 0 /\ z[l] <= f[l]
  BY <1>1
<1> HIDE DEF f, z
<1>4. SumOf(f) \in Int /\ SumOf(z) = 0
  BY <1>2, <1>3, SumType, SumOfZeros
<1>5. SumOf(z) <= SumOf(f)
  BY <1>2, <1>3, SumMonotone
<1> QED BY <1>1, <1>4, <1>5 DEF f

LEMMA CountUp ==
  ASSUME NEW counts \in [ALock -> {0, 1}], NEW l \in ALock, counts[l] = 0, NEW d, NEW mode, NEW id,
         NEW c \in [ALock -> {0, 1}], c[l] = 1, \A k \in ALock : k # l => c[k] = counts[k]
  PROVE  SumOf(Terms(c, d, mode, id)) = SumOf(Terms(counts, d, mode, id)) + NameIt(l, d, mode, id)
<1> DEFINE f == Terms(counts, d, mode, id)
           g == Terms(c, d, mode, id)
           n == NameIt(l, d, mode, id)
<1>1. f \in [ALock -> Int] /\ n \in Int /\ n \in Nat
  BY TermsAre, NameItIsNat
<1>2. g \in [ALock -> Int] /\ g[l] = f[l] + n /\ \A k \in ALock : k # l => g[k] = f[k]
  <2>1. f[l] = 0 /\ g[l] = n
    BY DEF Terms
  <2>2. g \in [ALock -> Int]
    BY TermsAre
  <2>3. \A k \in ALock : k # l => g[k] = f[k]
    BY DEF Terms
  <2> HIDE DEF f, g, n
  <2> QED BY <1>1, <2>1, <2>2, <2>3
<1>3. IsFiniteSet(ALock)
  BY LocksAssumption
<1> HIDE DEF f, g, n
<1>4. SumOf(g) = SumOf(f) + n
  BY <1>1, <1>2, <1>3, SumAdded
<1> QED BY <1>4 DEF f, g, n

LEMMA CountDown ==
  ASSUME NEW counts \in [ALock -> {0, 1}], NEW l \in ALock, counts[l] = 1, NEW d, NEW mode, NEW id,
         NEW c \in [ALock -> {0, 1}], c[l] = 0, \A k \in ALock : k # l => c[k] = counts[k]
  PROVE  SumOf(Terms(c, d, mode, id)) + NameIt(l, d, mode, id) = SumOf(Terms(counts, d, mode, id))
  BY CountUp

LEMMA CountedIs ==
  ASSUME NEW d, NEW mode, NEW id PROVE Counted(d, mode, id) = SumOf(Terms(count, d, mode, id))
<1>1. [l \in ALock |-> IF l.database = d /\ l.mode = mode /\ count[l] > 0
                         THEN Times(l.identifiers, DOMAIN l.identifiers, id) ELSE 0] = Terms(count, d, mode, id)
  BY DEF Terms, NameIt
<1> QED BY <1>1 DEF Counted, SumOf

-----------------------------------------------------------------------------
(* What the statements do to what a session holds *)

Sessions == [Modes \X Identifiers -> Nat]

Holding(g, h, l, places) ==
  /\ g \in Sessions
  /\ \A mode \in Modes, id \in Identifiers :
       g[<<mode, id>>] = h[<<mode, id>>] + (IF mode = l.mode THEN Times(l.identifiers, places, id) ELSE 0)
Letting(g, h, l, places) ==
  /\ g \in Sessions
  /\ \A mode \in Modes, id \in Identifiers :
       g[<<mode, id>>] = IF mode = l.mode
                           THEN IF h[<<mode, id>>] > Times(l.identifiers, places, id)
                                  THEN h[<<mode, id>>] - Times(l.identifiers, places, id) ELSE 0
                           ELSE h[<<mode, id>>]

LEMMA TakeAllIs ==
  ASSUME NEW h \in Sessions, NEW l \in ALock, NEW places \in SUBSET DOMAIN l.identifiers
  PROVE  Holding(TakeAll(h, l.mode, l.identifiers, places), h, l, places)
<1> SUFFICES ASSUME NEW g, g = TakeAll(h, l.mode, l.identifiers, places) PROVE Holding(g, h, l, places)
  OBVIOUS
<1>1. \A id : Times(l.identifiers, places, id) \in Nat
  BY LockIs, TimesIsNat
<1>2. DOMAIN h = Modes \X Identifiers
  BY DEF Sessions
<1>3. g = [x \in Modes \X Identifiers |->
             IF x[1] = l.mode THEN h[x] + Times(l.identifiers, places, x[2]) ELSE h[x]]
  BY <1>2 DEF TakeAll
<1>4. ASSUME NEW mode \in Modes, NEW id \in Identifiers
      PROVE  /\ h[<<mode, id>>] \in Nat
             /\ g[<<mode, id>>] = IF mode = l.mode THEN h[<<mode, id>>] + Times(l.identifiers, places, id)
                                  ELSE h[<<mode, id>>]
  <2>1. <<mode, id>> \in Modes \X Identifiers
    OBVIOUS
  <2> QED BY <1>3, <2>1 DEF Sessions
<1>5. ASSUME NEW x \in Modes \X Identifiers
      PROVE  (IF x[1] = l.mode THEN h[x] + Times(l.identifiers, places, x[2]) ELSE h[x]) \in Nat
  <2>1. h[x] \in Nat
    BY DEF Sessions
  <2> QED BY <1>1, <2>1
<1>6. g \in Sessions
  BY <1>3, <1>5 DEF Sessions
<1>7. ASSUME NEW mode \in Modes, NEW id \in Identifiers
      PROVE  g[<<mode, id>>] = h[<<mode, id>>] + (IF mode = l.mode THEN Times(l.identifiers, places, id) ELSE 0)
  BY <1>1, <1>4
<1> QED BY <1>6, <1>7 DEF Holding

LEMMA UnlockAllIs ==
  ASSUME NEW h \in Sessions, NEW l \in ALock, NEW places \in SUBSET DOMAIN l.identifiers
  PROVE  Letting(UnlockAll(h, l.mode, l.identifiers, places), h, l, places)
<1> SUFFICES ASSUME NEW g, g = UnlockAll(h, l.mode, l.identifiers, places) PROVE Letting(g, h, l, places)
  OBVIOUS
<1>1. \A id : Times(l.identifiers, places, id) \in Nat
  BY LockIs, TimesIsNat
<1>2. DOMAIN h = Modes \X Identifiers
  BY DEF Sessions
<1> DEFINE left(x) == IF x[1] = l.mode
                        THEN IF h[x] > Times(l.identifiers, places, x[2])
                               THEN h[x] - Times(l.identifiers, places, x[2]) ELSE 0
                        ELSE h[x]
<1>3. g = [x \in Modes \X Identifiers |-> left(x)]
  BY <1>2 DEF UnlockAll
<1>4. ASSUME NEW mode \in Modes, NEW id \in Identifiers PROVE g[<<mode, id>>] = left(<<mode, id>>)
  <2>1. <<mode, id>> \in Modes \X Identifiers
    OBVIOUS
  <2> QED BY <1>3, <2>1
<1>5. ASSUME NEW x \in Modes \X Identifiers PROVE left(x) \in Nat
  <2>1. h[x] \in Nat
    BY DEF Sessions
  <2> QED BY <1>1, <2>1
<1>6. g \in Sessions
  <2> HIDE DEF left
  <2> QED BY <1>3, <1>5 DEF Sessions
<1> QED BY <1>4, <1>6 DEF Letting

LEMMA OthersAgree ==
  ASSUME NEW counts \in [ALock -> {0, 1}], NEW l \in ALock, NEW c, \A k \in ALock : k # l => c[k] = counts[k],
         NEW d, d # l.database, NEW mode, NEW id
  PROVE  Terms(c, d, mode, id) = Terms(counts, d, mode, id)
<1> DEFINE f == Terms(counts, d, mode, id)
           g == Terms(c, d, mode, id)
<1>1. \A k \in ALock : g[k] = f[k]
  <2> SUFFICES ASSUME NEW k \in ALock PROVE g[k] = f[k]
    OBVIOUS
  <2>1. CASE k = l
    BY <2>1 DEF Terms, NameIt
  <2>2. CASE k # l
    BY <2>2 DEF Terms
  <2> QED BY <2>1, <2>2
<1>2. g = [k \in ALock |-> g[k]] /\ f = [k \in ALock |-> f[k]]
  BY DEF Terms
<1> HIDE DEF f, g
<1>3. f = g
  BY <1>1, <1>2
<1> QED BY <1>3 DEF f, g

-----------------------------------------------------------------------------
(* The steps *)

LEMMA AcquireKeeps ==
  ASSUME MaxCount = 1, LInv, NEW l \in ALock, Acquire(l) PROVE LInv'
<1> DEFINE d == l.database
<1>1. /\ acquiring[d] = None /\ count[l] = 0 /\ acquiring' = [acquiring EXCEPT ![d] = [lock |-> l, next |-> 1]]
      /\ count' = count /\ held' = held /\ gone' = gone /\ broken' = broken
  BY DEF Acquire, Idle, LInv, LockTypes
<1>2. d \in Databases /\ [lock |-> l, next |-> 1] \in Acquires(d) /\ 1 \in 1 .. (Len(l.identifiers) + 1)
  BY LockIs DEF Acquires
<1>3. LockTypes'
  BY <1>1, <1>2 DEF LInv, LockTypes
<1>4. \A mode, id : Underway([lock |-> l, next |-> 1], mode, id) = 0 /\ Underway(None, mode, id) = 0
  BY TimesOfNone DEF Underway
<1>5. \A e \in Databases : e # d => acquiring'[e] = acquiring[e]
  BY <1>1 DEF LInv, LockTypes
<1>6. acquiring'[d] = [lock |-> l, next |-> 1]
  BY <1>1, <1>2 DEF LInv, LockTypes
<1>7. HeldInv'
  <2> SUFFICES ASSUME NEW e \in Databases \ (gone' \cup broken'), NEW mode \in Modes, NEW id \in Identifiers
               PROVE  held'[e][<<mode, id>>] = SumOf(Terms(count', e, mode, id)) + Underway(acquiring'[e], mode, id)
    BY DEF HeldInv
  <2>1. held[e][<<mode, id>>] = SumOf(Terms(count, e, mode, id)) + Underway(acquiring[e], mode, id)
    BY <1>1 DEF LInv, HeldInv
  <2>2. Underway(acquiring'[e], mode, id) = Underway(acquiring[e], mode, id)
    BY <1>1, <1>4, <1>5, <1>6
  <2> QED BY <1>1, <2>1, <2>2
<1> QED BY <1>3, <1>7 DEF LInv

LEMMA TryAcquireKeeps ==
  ASSUME LInv, NEW l \in ALock, TryAcquire(l) PROVE LInv'
<1> DEFINE d == l.database
           ids == l.identifiers
           did == {i \in DOMAIN ids : Free(d, l.mode, ids[i])}
           tried == TakeAll(held[d], l.mode, ids, did)
           untried == UnlockAll(tried, l.mode, ids, did)
<1>1. /\ acquiring[d] = None /\ d \notin gone /\ count[l] = 0 /\ acquiring' = acquiring /\ gone' = gone /\ broken' = broken
      /\ \/ held' = [held EXCEPT ![d] = untried] /\ count' = count
         \/ did = DOMAIN ids /\ held' = [held EXCEPT ![d] = tried] /\ count' = [count EXCEPT ![l] = 1]
  BY DEF TryAcquire, Idle
<1>2. did \in SUBSET DOMAIN ids
  OBVIOUS
<1>3. d \in Databases /\ held[d] \in Sessions /\ held \in [Databases -> Sessions] /\ count \in [ALock -> {0, 1}]
  BY LockIs DEF LInv, LockTypes, Sessions
<1> HIDE DEF did
<1>4. /\ tried \in Sessions
      /\ \A mode \in Modes, id \in Identifiers :
           tried[<<mode, id>>] = held[d][<<mode, id>>] + (IF mode = l.mode THEN Times(ids, did, id) ELSE 0)
  <2>1. Holding(tried, held[d], l, did)
    BY <1>2, <1>3, TakeAllIs
  <2> QED BY <2>1 DEF Holding
<1> HIDE DEF tried
<1>5. /\ untried \in Sessions
      /\ \A mode \in Modes, id \in Identifiers :
           untried[<<mode, id>>] = IF mode = l.mode
                                     THEN IF tried[<<mode, id>>] > Times(ids, did, id)
                                            THEN tried[<<mode, id>>] - Times(ids, did, id) ELSE 0
                                     ELSE tried[<<mode, id>>]
  <2>1. Letting(untried, tried, l, did)
    BY <1>2, <1>4, UnlockAllIs
  <2> QED BY <2>1 DEF Letting
<1> HIDE DEF untried
<1>6. untried = held[d]
  <2>1. ASSUME NEW mode \in Modes, NEW id \in Identifiers PROVE untried[<<mode, id>>] = held[d][<<mode, id>>]
    <3>1. Times(ids, did, id) \in Nat
      BY <1>2, LockIs, TimesIsNat
    <3>2. held[d][<<mode, id>>] \in Nat
      BY <1>3 DEF Sessions
    <3> QED BY <1>4, <1>5, <3>1, <3>2
  <2>2. \A x \in Modes \X Identifiers : untried[x] = held[d][x]
    BY <2>1
  <2> QED BY <1>3, <1>5, <2>2 DEF Sessions
<1>7. CASE held' = [held EXCEPT ![d] = untried] /\ count' = count
  <2>1. held' = held
    BY <1>3, <1>6, <1>7
  <2>2. LockTypes'
    BY <1>1, <1>7, <2>1 DEF LInv, LockTypes
  <2>3. HeldInv'
    <3> SUFFICES ASSUME NEW e \in Databases \ (gone' \cup broken'), NEW mode \in Modes, NEW id \in Identifiers
                 PROVE  held'[e][<<mode, id>>] = SumOf(Terms(count', e, mode, id)) + Underway(acquiring'[e], mode, id)
      BY DEF HeldInv
    <3>1. held[e][<<mode, id>>] = SumOf(Terms(count, e, mode, id)) + Underway(acquiring[e], mode, id)
      BY <1>1 DEF LInv, HeldInv
    <3> QED BY <1>1, <1>7, <2>1, <3>1
  <2> QED BY <2>2, <2>3 DEF LInv
<1>8. CASE did = DOMAIN ids /\ held' = [held EXCEPT ![d] = tried] /\ count' = [count EXCEPT ![l] = 1]
  <2>1. LockTypes'
    <3>1. count' \in [ALock -> {0, 1}]
      BY <1>3, <1>8
    <3>2. held' \in [Databases -> [Modes \X Identifiers -> Nat]]
      BY <1>3, <1>4, <1>8 DEF Sessions
    <3>3. ASSUME NEW e \in Databases, acquiring[e] # None PROVE count'[acquiring[e].lock] = 0
      <4>1. acquiring[e] \in Acquires(e) /\ count[acquiring[e].lock] = 0
        BY <3>3 DEF LInv, LockTypes
      <4>2. acquiring[e].lock # l
        BY <1>1, <3>3, <4>1 DEF Acquires
      <4>3. acquiring[e].lock \in ALock
        BY <4>1 DEF Acquires
      <4> QED BY <1>3, <1>8, <4>1, <4>2, <4>3
    <3> QED BY <1>1, <3>1, <3>2, <3>3 DEF LInv, LockTypes
  <2>2. HeldInv'
    <3> SUFFICES ASSUME NEW e \in Databases \ (gone' \cup broken'), NEW mode \in Modes, NEW id \in Identifiers
                 PROVE  held'[e][<<mode, id>>] = SumOf(Terms(count', e, mode, id)) + Underway(acquiring'[e], mode, id)
      BY DEF HeldInv
    <3>1. held[e][<<mode, id>>] = SumOf(Terms(count, e, mode, id)) + Underway(acquiring[e], mode, id)
      BY <1>1 DEF LInv, HeldInv
    <3>0. count' \in [ALock -> {0, 1}] /\ count'[l] = 1 /\ \A k \in ALock : k # l => count'[k] = count[k]
      BY <1>3, <1>8
    <3>2. CASE e # d
      <4>1. held'[e] = held[e]
        BY <1>3, <1>8, <3>2
      <4>2. Terms(count', e, mode, id) = Terms(count, e, mode, id)
        BY <1>3, <3>0, <3>2, OthersAgree
      <4> QED BY <1>1, <3>1, <4>1, <4>2
    <3>3. CASE e = d
      <4>1. held'[e] = tried
        BY <1>3, <1>8, <3>3
      <4>2. SumOf(Terms(count', d, mode, id)) = SumOf(Terms(count, d, mode, id)) + NameIt(l, d, mode, id)
        BY <1>1, <1>3, <3>0, CountUp
      <4>3. Underway(acquiring[e], mode, id) = 0
        BY <1>1, <3>3 DEF Underway
      <4>4. NameIt(l, d, mode, id) = IF mode = l.mode THEN Times(ids, did, id) ELSE 0
        BY <1>8 DEF NameIt
      <4>5. SumOf(Terms(count, d, mode, id)) \in Nat /\ NameIt(l, d, mode, id) \in Nat
        BY <1>3, TermsAre, NameItIsNat
      <4>6. tried[<<mode, id>>] = held[d][<<mode, id>>] + NameIt(l, d, mode, id)
        BY <1>4, <4>4
      <4> QED BY ONLY <1>1, <3>1, <3>3, <4>1, <4>2, <4>3, <4>5, <4>6
    <3> QED BY <3>2, <3>3
  <2> QED BY <2>1, <2>2 DEF LInv
<1> QED BY <1>1, <1>7, <1>8

LEMMA ReleaseKeeps ==
  ASSUME LInv, NEW l \in ALock, Release(l) PROVE LInv'
<1> DEFINE d == l.database
           ids == l.identifiers
           less == UnlockAll(held[d], l.mode, ids, DOMAIN ids)
<1>1. /\ acquiring[d] = None /\ count[l] >= 1 /\ count' = [count EXCEPT ![l] = count[l] - 1]
      /\ acquiring' = acquiring /\ gone' = gone /\ broken' = broken
      /\ held' = IF d \in gone THEN held ELSE [held EXCEPT ![d] = less]
  BY DEF Release, Freed
<1>2. d \in Databases /\ held[d] \in Sessions /\ held \in [Databases -> Sessions] /\ count \in [ALock -> {0, 1}]
  BY LockIs DEF LInv, LockTypes, Sessions
<1>3. count[l] = 1 /\ count' = [count EXCEPT ![l] = 0] /\ count' \in [ALock -> {0, 1}]
  <2>1. count[l] \in {0, 1}
    BY <1>2
  <2>2. count[l] = 1
    BY <1>1, <2>1
  <2> QED BY <1>1, <1>2, <2>2
<1>4. /\ less \in Sessions
      /\ \A mode \in Modes, id \in Identifiers :
           less[<<mode, id>>] = IF mode = l.mode
                                  THEN IF held[d][<<mode, id>>] > Times(ids, DOMAIN ids, id)
                                         THEN held[d][<<mode, id>>] - Times(ids, DOMAIN ids, id) ELSE 0
                                  ELSE held[d][<<mode, id>>]
  <2>1. Letting(less, held[d], l, DOMAIN ids)
    BY <1>2, UnlockAllIs
  <2> QED BY <2>1 DEF Letting
<1> HIDE DEF less
<1>5. LockTypes'
  <2>1. held' \in [Databases -> [Modes \X Identifiers -> Nat]]
    BY <1>1, <1>2, <1>4 DEF Sessions
  <2>2. ASSUME NEW e \in Databases, acquiring[e] # None PROVE count'[acquiring[e].lock] = 0
    <3>1. acquiring[e] \in Acquires(e) /\ count[acquiring[e].lock] = 0
      BY <2>2 DEF LInv, LockTypes
    <3>2. acquiring[e].lock \in ALock
      BY <3>1 DEF Acquires
    <3> QED BY <1>2, <1>3, <3>1, <3>2
  <2> QED BY <1>1, <1>3, <2>1, <2>2 DEF LInv, LockTypes
<1>6. HeldInv'
  <2> SUFFICES ASSUME NEW e \in Databases \ (gone' \cup broken'), NEW mode \in Modes, NEW id \in Identifiers
               PROVE  held'[e][<<mode, id>>] = SumOf(Terms(count', e, mode, id)) + Underway(acquiring'[e], mode, id)
    BY DEF HeldInv
  <2>1. held[e][<<mode, id>>] = SumOf(Terms(count, e, mode, id)) + Underway(acquiring[e], mode, id)
    BY <1>1 DEF LInv, HeldInv
  <2>0. count'[l] = 0 /\ \A k \in ALock : k # l => count'[k] = count[k]
    BY <1>2, <1>3
  <2>2. CASE e # d
    <3>1. held'[e] = held[e]
      BY <1>1, <1>2, <2>2
    <3>2. Terms(count', e, mode, id) = Terms(count, e, mode, id)
      BY <1>2, <2>0, <2>2, OthersAgree
    <3> QED BY <1>1, <2>1, <3>1, <3>2
  <2>3. CASE e = d
    <3>1. held'[e] = less
      BY <1>1, <1>2, <2>3
    <3>2. SumOf(Terms(count', d, mode, id)) + NameIt(l, d, mode, id) = SumOf(Terms(count, d, mode, id))
      <4>1. /\ count \in [ALock -> {0, 1}] /\ count[l] = 1 /\ count' \in [ALock -> {0, 1}] /\ count'[l] = 0
            /\ \A k \in ALock : k # l => count'[k] = count[k]
        BY <1>2, <1>3, <2>0
      <4> QED BY ONLY l \in ALock, <4>1, CountDown
    <3>3. Underway(acquiring[e], mode, id) = 0
      BY <1>1, <2>3 DEF Underway
    <3>4. NameIt(l, d, mode, id) = IF mode = l.mode THEN Times(ids, DOMAIN ids, id) ELSE 0
      BY DEF NameIt
    <3>5. SumOf(Terms(count', d, mode, id)) \in Nat /\ NameIt(l, d, mode, id) \in Nat
      BY <1>3, TermsAre, NameItIsNat
    <3>6. held[d][<<mode, id>>] = SumOf(Terms(count', d, mode, id)) + NameIt(l, d, mode, id)
      BY <2>1, <2>3, <3>2, <3>3, <3>5
    <3>7. less[<<mode, id>>] = SumOf(Terms(count', d, mode, id))
      <4>1. CASE mode = l.mode
        <5>1. less[<<mode, id>>] = IF held[d][<<mode, id>>] > NameIt(l, d, mode, id)
                                     THEN held[d][<<mode, id>>] - NameIt(l, d, mode, id) ELSE 0
          BY <1>4, <3>4, <4>1
        <5> QED BY ONLY <3>5, <3>6, <5>1
      <4>2. CASE mode # l.mode
        <5>1. less[<<mode, id>>] = held[d][<<mode, id>>] /\ NameIt(l, d, mode, id) = 0
          BY <1>4, <3>4, <4>2
        <5> QED BY ONLY <3>5, <3>6, <5>1
      <4> QED BY <4>1, <4>2
    <3> QED BY ONLY <1>1, <2>3, <3>1, <3>3, <3>5, <3>7
  <2> QED BY <2>2, <2>3
<1> QED BY <1>5, <1>6 DEF LInv

LEMMA GrantKeeps ==
  ASSUME LInv, NEW d \in Databases, Grant(d) PROVE LInv'
<1> DEFINE l == acquiring[d].lock
           i == acquiring[d].next
           ids == l.identifiers
<1>1. /\ acquiring[d] # None /\ gone' = gone /\ broken' = broken
      /\ \/ /\ i > Len(ids) /\ count' = [count EXCEPT ![l] = @ + 1]
            /\ acquiring' = [acquiring EXCEPT ![d] = None] /\ held' = held
         \/ /\ ~(i > Len(ids)) /\ held' = [held EXCEPT ![d] = Taken(held[d], l.mode, ids[i])]
            /\ acquiring' = [acquiring EXCEPT ![d].next = @ + 1] /\ count' = count
  BY DEF Grant
<1>2. /\ acquiring[d] \in Acquires(d) /\ count[l] = 0 /\ l \in ALock /\ l.database = d /\ i \in 1 .. (Len(ids) + 1)
  <2>1. acquiring[d] \in Acquires(d) /\ count[l] = 0
    BY <1>1 DEF LInv, LockTypes
  <2> QED BY <2>1 DEF Acquires
<1>3. held[d] \in Sessions /\ held \in [Databases -> Sessions] /\ count \in [ALock -> {0, 1}]
  BY DEF LInv, LockTypes, Sessions
<1>4. Len(ids) \in Nat /\ DOMAIN ids = 1 .. Len(ids) /\ l.mode \in Modes
  BY <1>2, LockIs
<1>5. DOMAIN acquiring = Databases
  BY DEF LInv, LockTypes
<1>6. CASE /\ i > Len(ids) /\ count' = [count EXCEPT ![l] = @ + 1]
           /\ acquiring' = [acquiring EXCEPT ![d] = None] /\ held' = held
  <2>0. /\ count' \in [ALock -> {0, 1}] /\ count'[l] = 1 /\ \A k \in ALock : k # l => count'[k] = count[k]
    BY <1>2, <1>3, <1>6
  <2>00. i = Len(ids) + 1 /\ i - 1 = Len(ids)
    <3>1. i \in 1 .. (Len(ids) + 1) /\ Len(ids) \in Nat /\ i > Len(ids)
      BY <1>2, <1>4, <1>6
    <3> HIDE DEF i, ids
    <3> QED BY ONLY <3>1
  <2>1. LockTypes'
    <3>1. ASSUME NEW e \in Databases
          PROVE  acquiring'[e] = None \/ (acquiring'[e] \in Acquires(e) /\ count'[acquiring'[e].lock] = 0)
      <4>1. CASE e = d
        BY <1>5, <1>6, <4>1
      <4>2. CASE e # d /\ acquiring[e] # None
        <5>1. acquiring[e] \in Acquires(e) /\ count[acquiring[e].lock] = 0 /\ acquiring'[e] = acquiring[e]
          BY <1>5, <1>6, <4>2 DEF LInv, LockTypes
        <5>2. acquiring[e].lock \in ALock /\ acquiring[e].lock # l
          BY <1>2, <4>2, <5>1 DEF Acquires
        <5> QED BY <2>0, <5>1, <5>2
      <4>3. CASE e # d /\ acquiring[e] = None
        BY <1>5, <1>6, <4>3
      <4> QED BY <4>1, <4>2, <4>3
    <3>2. DOMAIN acquiring' = Databases
      BY <1>5, <1>6
    <3> QED BY <1>1, <1>6, <2>0, <3>1, <3>2 DEF LInv, LockTypes
  <2>2. HeldInv'
    <3> SUFFICES ASSUME NEW e \in Databases \ (gone' \cup broken'), NEW mode \in Modes, NEW id \in Identifiers
                 PROVE  held'[e][<<mode, id>>] = SumOf(Terms(count', e, mode, id)) + Underway(acquiring'[e], mode, id)
      BY DEF HeldInv
    <3>1. held[e][<<mode, id>>] = SumOf(Terms(count, e, mode, id)) + Underway(acquiring[e], mode, id)
      BY <1>1 DEF LInv, HeldInv
    <3>2. CASE e # d
      <4>1. acquiring'[e] = acquiring[e]
        BY <1>5, <1>6, <3>2
      <4>2. Terms(count', e, mode, id) = Terms(count, e, mode, id)
        BY <1>2, <1>3, <2>0, <3>2, OthersAgree
      <4> QED BY <1>6, <3>1, <4>1, <4>2
    <3>3. CASE e = d
      <4>1. acquiring'[e] = None /\ Underway(acquiring'[e], mode, id) = 0
        BY <1>5, <1>6, <3>3 DEF Underway
      <4>2. Underway(acquiring[e], mode, id) = NameIt(l, d, mode, id)
        BY <1>1, <1>2, <1>4, <2>00, <3>3 DEF Underway, NameIt
      <4>3. SumOf(Terms(count', d, mode, id)) = SumOf(Terms(count, d, mode, id)) + NameIt(l, d, mode, id)
        BY ONLY <1>2, <1>3, <2>0, CountUp
      <4>4. SumOf(Terms(count', d, mode, id)) \in Nat
        BY <2>0, TermsAre
      <4> QED BY ONLY <1>6, <3>1, <3>3, <4>1, <4>2, <4>3, <4>4
    <3> QED BY <3>2, <3>3
  <2> QED BY <2>1, <2>2 DEF LInv
<1>7. CASE /\ ~(i > Len(ids)) /\ held' = [held EXCEPT ![d] = Taken(held[d], l.mode, ids[i])]
           /\ acquiring' = [acquiring EXCEPT ![d].next = @ + 1] /\ count' = count
  <2>0. i \in 1 .. Len(ids) /\ i \in Nat /\ i + 1 \in 1 .. (Len(ids) + 1) /\ i + 1 \in Nat /\ ids[i] \in Identifiers
    <3>1. i \in 1 .. Len(ids) /\ i + 1 \in 1 .. (Len(ids) + 1)
      BY <1>2, <1>4, <1>7
    <3> QED BY <1>2, <3>1, LockIs
  <2> DEFINE a == [acquiring[d] EXCEPT !.next = i + 1]
             t == Taken(held[d], l.mode, ids[i])
  <2>1. /\ acquiring'[d] = a /\ \A e \in Databases : e # d => acquiring'[e] = acquiring[e]
        /\ DOMAIN acquiring' = Databases
    BY <1>5, <1>7
  <2>2. a \in Acquires(d) /\ a.lock = l /\ a.next = i + 1
    BY <1>2, <2>0 DEF Acquires
  <2>3. t \in Sessions /\ \A mode \in Modes, id \in Identifiers :
          t[<<mode, id>>] = held[d][<<mode, id>>] + (IF mode = l.mode /\ id = ids[i] THEN 1 ELSE 0)
    <3>1. <<l.mode, ids[i]>> \in Modes \X Identifiers
      BY <1>4, <2>0
    <3>2. t = [held[d] EXCEPT ![<<l.mode, ids[i]>>] = @ + 1]
      BY DEF Taken
    <3> HIDE DEF t, l, i
    <3>3. t \in Sessions
      BY <1>3, <3>1, <3>2 DEF Sessions
    <3>4. ASSUME NEW mode \in Modes, NEW id \in Identifiers
          PROVE  t[<<mode, id>>] = held[d][<<mode, id>>] + (IF mode = l.mode /\ id = ids[i] THEN 1 ELSE 0)
      <4>1. <<mode, id>> \in DOMAIN held[d] /\ held[d][<<mode, id>>] \in Nat
        BY <1>3 DEF Sessions
      <4>2. CASE mode = l.mode /\ id = ids[i]
        BY <3>2, <4>1, <4>2
      <4>3. CASE ~(mode = l.mode /\ id = ids[i])
        <5>1. <<mode, id>> # <<l.mode, ids[i]>>
          BY <4>3
        <5> QED BY <3>2, <4>1, <4>3, <5>1
      <4> QED BY <4>2, <4>3
    <3> QED BY <3>3, <3>4
  <2>4. held'[d] = t /\ \A e \in Databases : e # d => held'[e] = held[e]
    BY <1>3, <1>7
  <2> HIDE DEF a, t
  <2>5. LockTypes'
    <3>1. ASSUME NEW e \in Databases
          PROVE  acquiring'[e] = None \/ (acquiring'[e] \in Acquires(e) /\ count'[acquiring'[e].lock] = 0)
      <4>1. CASE e = d
        BY <1>2, <1>7, <2>1, <2>2, <4>1
      <4>2. CASE e # d
        BY <1>7, <2>1, <4>2 DEF LInv, LockTypes
      <4> QED BY <4>1, <4>2
    <3>2. held' \in [Databases -> [Modes \X Identifiers -> Nat]]
      BY <1>3, <1>7, <2>3, <2>4 DEF Sessions, t
    <3> QED BY <1>1, <1>7, <2>1, <3>1, <3>2 DEF LInv, LockTypes
  <2>6. HeldInv'
    <3> SUFFICES ASSUME NEW e \in Databases \ (gone' \cup broken'), NEW mode \in Modes, NEW id \in Identifiers
                 PROVE  held'[e][<<mode, id>>] = SumOf(Terms(count', e, mode, id)) + Underway(acquiring'[e], mode, id)
      BY DEF HeldInv
    <3>1. held[e][<<mode, id>>] = SumOf(Terms(count, e, mode, id)) + Underway(acquiring[e], mode, id)
      BY <1>1 DEF LInv, HeldInv
    <3>2. CASE e # d
      BY <1>7, <2>1, <2>4, <3>1, <3>2
    <3>3. CASE e = d
      <4>1. Underway(acquiring[e], mode, id) = IF mode = l.mode THEN Times(ids, 1 .. (i - 1), id) ELSE 0
        BY <1>1, <3>3 DEF Underway
      <4>2. a # None
        <5>1. a = [lock |-> l, next |-> i + 1]
          BY <1>2, <2>2 DEF Acquires
        <5> QED BY <1>2, <2>0, <5>1, LocksAssumption
      <4>3. Underway(acquiring'[e], mode, id) = IF mode = l.mode THEN Times(ids, 1 .. i, id) ELSE 0
        <5>1. (i + 1) - 1 = i
          BY <2>0
        <5> QED BY <2>1, <2>2, <3>3, <4>2, <5>1 DEF Underway
      <4>4. Times(ids, 1 .. i, id) = Times(ids, 1 .. (i - 1), id) + (IF ids[i] = id THEN 1 ELSE 0)
        <5>1. i - 1 \in Nat /\ (i - 1) + 1 = i
          BY <2>0
        <5> QED BY <5>1, TimesOfNext
      <4>5. Times(ids, 1 .. (i - 1), id) \in Nat
        <5>1. i - 1 \in Nat /\ 1 .. (i - 1) \in SUBSET (1 .. (i - 1))
          BY <2>0
        <5> QED BY <5>1, TimesIsNat
      <4>6. SumOf(Terms(count, d, mode, id)) \in Nat
        BY <1>3, TermsAre
      <4>7. t[<<mode, id>>] = held[d][<<mode, id>>] + (IF mode = l.mode /\ id = ids[i] THEN 1 ELSE 0)
        BY <2>3
      <4>8. held'[e] = t /\ count' = count
        BY <1>7, <2>4, <3>3
      <4> HIDE DEF l, i
      <4> QED BY ONLY <3>1, <3>3, <4>1, <4>3, <4>4, <4>5, <4>6, <4>7, <4>8
    <3> QED BY <3>2, <3>3
  <2> QED BY <2>5, <2>6 DEF LInv
<1> QED BY <1>1, <1>6, <1>7

LEMMA AcquireFailsKeeps ==
  ASSUME LInv, NEW d \in Databases, AcquireFails(d) PROVE LInv'
<1>1. acquiring' = [acquiring EXCEPT ![d] = None] /\ broken' = broken \cup {d} /\ count' = count /\ held' = held
      /\ gone' = gone
  BY DEF AcquireFails
<1>2. DOMAIN acquiring = Databases
  BY DEF LInv, LockTypes
<1>3. acquiring'[d] = None /\ \A e \in Databases : e # d => acquiring'[e] = acquiring[e]
  BY <1>1, <1>2
<1>4. LockTypes'
  BY <1>1, <1>2, <1>3 DEF LInv, LockTypes
<1>5. HeldInv'
  <2> SUFFICES ASSUME NEW e \in Databases \ (gone' \cup broken'), NEW mode \in Modes, NEW id \in Identifiers
               PROVE  held'[e][<<mode, id>>] = SumOf(Terms(count', e, mode, id)) + Underway(acquiring'[e], mode, id)
    BY DEF HeldInv
  <2>1. held[e][<<mode, id>>] = SumOf(Terms(count, e, mode, id)) + Underway(acquiring[e], mode, id)
    BY <1>1 DEF LInv, HeldInv
  <2> QED BY <1>1, <1>3, <2>1
<1> QED BY <1>4, <1>5 DEF LInv

LEMMA SessionEndsKeeps ==
  ASSUME LInv, NEW d \in Databases, SessionEnds(d) PROVE LInv'
<1> DEFINE z == [x \in Modes \X Identifiers |-> 0]
<1>1. /\ gone' = gone \cup {d} /\ held' = [held EXCEPT ![d] = z] /\ acquiring' = [acquiring EXCEPT ![d] = None]
      /\ count' = count /\ broken' = broken
  BY DEF SessionEnds
<1>2. DOMAIN acquiring = Databases /\ held \in [Databases -> Sessions] /\ z \in Sessions
  BY DEF LInv, LockTypes, Sessions
<1> HIDE DEF z
<1>3. acquiring'[d] = None /\ \A e \in Databases : e # d => acquiring'[e] = acquiring[e] /\ held'[e] = held[e]
  BY <1>1, <1>2
<1>4. LockTypes'
  <2>1. held' \in [Databases -> [Modes \X Identifiers -> Nat]]
    BY <1>1, <1>2 DEF Sessions
  <2> QED BY <1>1, <1>2, <1>3, <2>1 DEF LInv, LockTypes
<1>5. HeldInv'
  <2> SUFFICES ASSUME NEW e \in Databases \ (gone' \cup broken'), NEW mode \in Modes, NEW id \in Identifiers
               PROVE  held'[e][<<mode, id>>] = SumOf(Terms(count', e, mode, id)) + Underway(acquiring'[e], mode, id)
    BY DEF HeldInv
  <2>1. held[e][<<mode, id>>] = SumOf(Terms(count, e, mode, id)) + Underway(acquiring[e], mode, id)
    BY <1>1 DEF LInv, HeldInv
  <2> QED BY <1>1, <1>3, <2>1
<1> QED BY <1>4, <1>5 DEF LInv

LEMMA LInvInit == LocksInit => LInv
<1> SUFFICES ASSUME LocksInit PROVE LInv
  OBVIOUS
<1>1. LockTypes
  BY DEF LocksInit, LockTypes
<1>2. HeldInv
  <2> SUFFICES ASSUME NEW e \in Databases \ (gone \cup broken), NEW mode \in Modes, NEW id \in Identifiers
               PROVE  held[e][<<mode, id>>] = SumOf(Terms(count, e, mode, id)) + Underway(acquiring[e], mode, id)
    BY DEF HeldInv
  <2>1. held[e][<<mode, id>>] = 0
    BY DEF LocksInit
  <2>2. Underway(acquiring[e], mode, id) = 0
    BY DEF LocksInit, Underway
  <2>3. Terms(count, e, mode, id) \in [ALock -> Int] /\ \A l \in ALock : Terms(count, e, mode, id)[l] = 0
    BY DEF LocksInit, Terms
  <2>4. SumOf(Terms(count, e, mode, id)) = 0
    <3>1. IsFiniteSet(ALock)
      BY LocksAssumption
    <3> QED BY <2>3, <3>1, SumOfZeros
  <2> QED BY <2>1, <2>2, <2>4
<1> QED BY <1>1, <1>2 DEF LInv

LEMMA LInvStep == MaxCount = 1 /\ LInv /\ [LocksNext]_lockVars => LInv'
<1> SUFFICES ASSUME MaxCount = 1, LInv, [LocksNext]_lockVars PROVE LInv'
  OBVIOUS
<1>1. ASSUME NEW l \in ALock, Acquire(l) \/ TryAcquire(l) \/ Release(l) PROVE LInv'
  BY <1>1, AcquireKeeps, TryAcquireKeeps, ReleaseKeeps
<1>2. ASSUME NEW d \in Databases, Grant(d) \/ AcquireFails(d) \/ SessionEnds(d) PROVE LInv'
  BY <1>2, GrantKeeps, AcquireFailsKeeps, SessionEndsKeeps
<1>3. CASE UNCHANGED lockVars
  <2>1. UNCHANGED <<count, held, acquiring, gone, broken>>
    BY <1>3 DEF lockVars
  <2>2. LockTypes'
    BY <2>1 DEF LInv, LockTypes
  <2>3. ASSUME NEW d \in Databases \ (gone' \cup broken'), NEW mode \in Modes, NEW id \in Identifiers
        PROVE  held'[d][<<mode, id>>] = SumOf(Terms(count', d, mode, id)) + Underway(acquiring'[d], mode, id)
    <3>1. held[d][<<mode, id>>] = SumOf(Terms(count, d, mode, id)) + Underway(acquiring[d], mode, id)
      BY <2>1 DEF LInv, HeldInv
    <3> QED BY <2>1, <3>1
  <2> QED BY <2>2, <2>3 DEF LInv, HeldInv
<1> QED BY <1>1, <1>2, <1>3 DEF LocksNext

\* ALock: for any lock objects, lists of identifiers and sessions, when each object is acquired once before it is
\* released, a session holds between calls what its lock objects count, however often each names an identifier.
THEOREM LocksHeldAsCounted == ASSUME MaxCount = 1 PROVE LocksSpec => [](LocksTypeOK /\ HeldAsCounted)
<1>1. LInv => LocksTypeOK /\ HeldAsCounted
  <2> SUFFICES ASSUME LInv PROVE LocksTypeOK /\ HeldAsCounted
    OBVIOUS
  <2>1. LocksTypeOK
    BY DEF LInv, LockTypes, LocksTypeOK, Acquires
  <2>2. HeldAsCounted
    <3> SUFFICES ASSUME NEW d \in Databases \ (gone \cup broken), acquiring[d] = None,
                        NEW mode \in Modes, NEW id \in Identifiers
                 PROVE  held[d][<<mode, id>>] = Counted(d, mode, id)
      BY DEF HeldAsCounted
    <3>1. held[d][<<mode, id>>] = SumOf(Terms(count, d, mode, id)) + Underway(acquiring[d], mode, id)
      BY DEF LInv, HeldInv
    <3>2. Underway(acquiring[d], mode, id) = 0
      BY DEF Underway
    <3>3. SumOf(Terms(count, d, mode, id)) \in Nat
      BY TermsAre DEF LInv, LockTypes
    <3> QED BY <3>1, <3>2, <3>3, CountedIs
  <2> QED BY <2>1, <2>2
<1>2. LInv /\ [LocksNext]_lockVars => LInv'
  BY LInvStep
<1> QED BY <1>1, <1>2, LInvInit, PTL DEF LocksSpec
================================================================================
