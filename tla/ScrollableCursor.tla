--------------------------- MODULE ScrollableCursor ---------------------------
(***************************************************************************)
(* What api.Cursor promises of a scrollable cursor: a place among N rows,  *)
(* like the position in a file, that read() and seek() move.  0 is before  *)
(* the first row, N + 1 is behind the last one.  Rows are named by their   *)
(* place in the order in which the cursor presents them.                   *)
(***************************************************************************)
EXTENDS Integers, Sequences

CONSTANTS
  N,        \* the number of rows
  All,      \* a quantity or an offset: as far as there are rows
  Calls     \* the calls of read() and seek() the caller makes

VARIABLES
  at,       \* the place of the cursor
  call,     \* the last call
  result    \* the rows the last read returned

absVars == <<at, call, result>>

Clamp(i) == IF i < 0 THEN 0 ELSE IF i > N + 1 THEN N + 1 ELSE i
Onward(i, n) == IF n = All THEN N + 1 ELSE Clamp(i + n)
Back(i, n) == IF n = All THEN 0 ELSE Clamp(i - n)

\* The rows between a place and the place a read moved to, in the order in which they are met.
Met(i, j) ==
  IF j >= i THEN [k \in 1..((IF j > N THEN N ELSE j) - i) |-> i + k]
            ELSE [k \in 1..(i - (IF j < 1 THEN 1 ELSE j)) |-> i - k]

\* Where a seek leads.
Sought(c) ==
  IF c.offset = All THEN IF c.whence = "BACKWARD" THEN 0 ELSE N + 1
  ELSE CASE c.whence = "ABSOLUTE"   -> Clamp(c.offset)
         [] c.whence = "FROM_END"   -> Clamp(N + 1 - c.offset)
         [] c.whence = "BACKWARD"   -> Clamp(at - c.offset)
         [] OTHER                   -> Clamp(at + c.offset)      \* RELATIVE, FORWARD

AbsInit == at \in {0, N + 1} /\ call = [op |-> "declare"] /\ result = <<>>

AbsRead(c) ==
  /\ at' = IF c.forward THEN Onward(at, c.quantity) ELSE Back(at, c.quantity)
  /\ result' = Met(at, at')

AbsSeek(c) == at' = Sought(c) /\ UNCHANGED result

\* The caller reverses the order of presentation: the same place, counted from the other side.
AbsTurn == call' = [op |-> "turn"] /\ at' = N + 1 - at /\ result' = <<>>

AbsNext ==
  \/ call' \in Calls /\ (IF call'.op = "read" THEN AbsRead(call') ELSE AbsSeek(call'))
  \/ AbsTurn

AbsSpec == AbsInit /\ [][AbsNext]_absVars
===============================================================================
