-------------------------------- MODULE Cursors --------------------------------
(***************************************************************************)
(* Cursor of driver/pq3.py: read() and seek() as the FETCH and MOVE        *)
(* commands they send for a cursor declared SCROLL WITH HOLD, and the      *)
(* direction that inverts them.  Rows are numbered as the server orders    *)
(* them.  The caller may change the direction at any time.                 *)
(***************************************************************************)
EXTENDS Common, Integers, Sequences

CONSTANTS
  N,        \* the number of rows of the cursor
  All,      \* None as a quantity, 'ALL' as an offset
  Calls,    \* the calls of read() and seek() the caller makes
  Inverted  \* the whences the caller uses on a cursor whose direction is backward

ASSUME RowsAssumption == N \in Nat /\ All \notin Int
ASSUME CallsAssumption ==
  \A c \in Calls :
    \/ c.op = "read" /\ c.quantity \in Nat \cup {All} /\ c.forward \in BOOLEAN
    \/ /\ c.op = "seek" /\ c.offset \in Int \cup {All}
       /\ c.whence \in {"ABSOLUTE", "RELATIVE", "FROM_END", "FORWARD", "BACKWARD"}
       /\ c.whence \in {"ABSOLUTE", "FROM_END"} => c.offset = All \/ c.offset >= 0
ASSUME InvertedAssumption == Inverted \subseteq {"ABSOLUTE", "RELATIVE", "FROM_END"}

VARIABLES
  direction,  \* Cursor.direction: TRUE is FORWARD
  position,   \* the server's position: 0 before the first row, N + 1 behind the last
  request,    \* the last call
  fetched     \* the rows the last read returned

cursorVars == <<direction, position, request, fetched>>

CursorInit ==
  /\ direction \in BOOLEAN
  /\ position = 0
  /\ request = [op |-> "declare"]
  /\ fetched = <<>>

-----------------------------------------------------------------------------
(* The server: MOVE and FETCH *)

Within(i) == IF i < 0 THEN 0 ELSE IF i > N + 1 THEN N + 1 ELSE i

\* Where MOVE <whence> <n>, or FETCH, leads from p.
Move(p, whence, n) ==
  CASE whence = "FORWARD"  -> IF n = All THEN N + 1 ELSE Within(p + n)
    [] whence = "BACKWARD" -> IF n = All THEN 0 ELSE Within(p - n)
    [] whence = "RELATIVE" -> Within(p + n)
    [] whence = "ABSOLUTE" -> IF n < 0 THEN Within(N + 1 + n) ELSE Within(n)
    [] whence = "LAST"     -> N
    [] whence = "NEXT"     -> Within(p + 1)

\* The rows between p and the place a FETCH moved to.
Fetched(p, q) ==
  IF q >= p THEN [k \in 1..((IF q > N THEN N ELSE q) - p) |-> p + k]
            ELSE [k \in 1..(p - (IF q < 1 THEN 1 ELSE q)) |-> p - k]

-----------------------------------------------------------------------------
(* The client *)

\* The direction of the cursor forgotten.
WhichWayForgotten(forward) == forward
\* _which_way(): a direction argument is relative to the direction of the cursor; None is forward.
WhichWay(forward) == direction = forward

Read(c) ==
  /\ c.op = "read"
  /\ request' = c
  /\ IF c.quantity = 0
       THEN fetched' = <<>> /\ UNCHANGED position
       ELSE /\ position' = Move(position, IF WhichWay(c.forward) THEN "FORWARD" ELSE "BACKWARD", c.quantity)
            /\ fetched' = Fetched(position, position')
  /\ UNCHANGED direction

\* seek(): what becomes of offset and whence before a command is chosen.
Ahead == IF direction THEN "FORWARD" ELSE "BACKWARD"

Adjusted(c) ==
  LET positive == IF c.offset < 0 /\ c.whence = "BACKWARD"
                    THEN [offset |-> -c.offset, whence |-> "FORWARD"]
                    ELSE [offset |-> c.offset, whence |-> c.whence]
  IN IF direction THEN positive
     ELSE CASE positive.whence = "RELATIVE" -> [positive EXCEPT !.offset = -@]
            [] positive.whence = "ABSOLUTE" -> [positive EXCEPT !.whence = "FROM_END"]
            [] OTHER                        -> [positive EXCEPT !.whence = "ABSOLUTE"]

Resolved(c) ==
  IF c.offset = All
    THEN [offset |-> All, whence |-> IF c.whence \in {"FORWARD", "BACKWARD"} THEN c.whence ELSE Ahead]
    ELSE Adjusted(c)

\* The MOVE commands for it: from the end, the last record is consumed first.
Moved(e) ==
  CASE e.whence \in {"RELATIVE", "FORWARD", "BACKWARD"} ->
         IF e.offset # All /\ e.offset < 0 THEN Move(position, "BACKWARD", -e.offset)
                                           ELSE Move(position, e.whence, e.offset)
    [] e.whence = "ABSOLUTE" -> Move(position, "ABSOLUTE", e.offset)
    [] e.whence = "FROM_END" -> Move(Move(Move(position, "LAST", 0), "NEXT", 0), "BACKWARD", e.offset)

Seek(c) ==
  /\ c.op = "seek"
  /\ direction \/ c.whence \in Inverted
  /\ request' = c
  /\ position' = Moved(Resolved(c))
  /\ UNCHANGED <<direction, fetched>>

SetDirection ==
  /\ direction' = ~direction
  /\ request' = [op |-> "turn"]
  /\ fetched' = <<>>
  /\ UNCHANGED position

CursorNext ==
  \/ \E c \in Calls : Read(c) \/ Seek(c)
  \/ SetDirection

CursorSpec == CursorInit /\ [][CursorNext]_cursorVars

-----------------------------------------------------------------------------
(* Properties *)

\* Types: the server's position is between "before the first row" and "behind the last", and rows are rows.
CursorTypeOK ==
  /\ direction \in BOOLEAN
  /\ position \in 0..(N + 1)
  /\ \A i \in DOMAIN fetched : fetched[i] \in 1..N

\* A cursor turned backward behaves as one over the rows in reverse order.
Mirror == INSTANCE ScrollableCursor WITH
  at <- IF direction THEN position ELSE N + 1 - position,
  call <- request,
  result <- IF direction THEN fetched ELSE [i \in DOMAIN fetched |-> N + 1 - fetched[i]]
\* Every read() and seek() does what ScrollableCursor says.
CursorMirrors == Mirror!AbsSpec
===============================================================================
