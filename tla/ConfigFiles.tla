------------------------------- MODULE ConfigFiles -------------------------------
(***************************************************************************)
(* configfile.py: update() rewrites postgresql.conf so that the server     *)
(* reads the asked settings, whatever lines, commented or not, the file    *)
(* has for them, and keeps the others.  A line is "other" text, a setting  *)
(* with "=", or one without, which the server accepts and parse_line does  *)
(* not; what follows the name is a sequence of characters.  The file is    *)
(* truncated and written line by line.                                     *)
(***************************************************************************)
EXTENDS Common, Integers, Sequences, FiniteSets, SequencesExt, FiniteSetsExt

CONSTANTS
  Files,        \* the files to begin with
  Updates       \* the arguments of update(): the new values, or None, of some settings

VARIABLES
  file,         \* its lines
  todo,         \* _save(): the lines still to be written, or None
  asked         \* the last update and the file before it, or None

configVars == <<file, todo, asked>>

Quote == "'"
Comment == "#"
Space == " "

-----------------------------------------------------------------------------
(* parse_line() and unquote() *)

\* The value in what follows "=": up to a space or a comment that is not quoted.
Blank(rest) == LET text == {i \in DOMAIN rest : rest[i] # Space} IN IF text = {} THEN Len(rest) ELSE Min(text) - 1
\* A quote inside of the quotes ends them, unless it is doubled.
Quoted(rest, st, i) ==
  LET doubled == i < Len(rest) /\ rest[i + 1] = Quote IN
  CASE ~st.in              -> [st EXCEPT !.in = TRUE, !.len = @ + 1]
    [] st.in /\ st.escaped -> [st EXCEPT !.escaped = FALSE, !.len = @ + 1]
    [] OTHER               -> [st EXCEPT !.escaped = doubled, !.in = doubled, !.len = @ + 1]
ValueEnd(rest) ==
  LET Scan(st, i) ==
        IF st.over \/ i <= Blank(rest) THEN st
        ELSE IF rest[i] = Quote THEN Quoted(rest, st, i)
        ELSE IF ~st.in /\ rest[i] \in {Space, Comment} THEN [st EXCEPT !.over = TRUE]
        ELSE [st EXCEPT !.len = @ + 1] IN
  Blank(rest) + FoldLeftDomain(Scan, [in |-> FALSE, escaped |-> FALSE, over |-> FALSE, len |-> 0], rest).len
ValueIn(rest) == SubSeq(rest, Blank(rest) + 1, ValueEnd(rest))

\* replace("''", "'") and back.
Undoubled(s) ==
  FoldLeft(LAMBDA a, c : IF c = Quote /\ a.odd THEN [a EXCEPT !.odd = FALSE]
                         ELSE [out |-> Append(a.out, c), odd |-> c = Quote], [out |-> <<>>, odd |-> FALSE], s).out
Doubled(s) == FlattenSeq([i \in DOMAIN s |-> IF s[i] = Quote THEN <<Quote, Quote>> ELSE <<s[i]>>])
Unquote(s) == IF s = <<>> \/ s[1] # Quote THEN s ELSE Undoubled(SubSeq(s, 2, Len(s) - 1))

-----------------------------------------------------------------------------
(* What the server reads: the last line that sets the name *)

Setting(key, commented, rest) == [kind |-> "setting", key |-> key, commented |-> commented, rest |-> rest]
SettingLines(lines, k) == {i \in DOMAIN lines : lines[i].kind # "other" /\ lines[i].key = k /\ ~lines[i].commented}
Reads(lines, k) == IF SettingLines(lines, k) = {} THEN None ELSE Unquote(ValueIn(lines[Max(SettingLines(lines, k))].rest))

-----------------------------------------------------------------------------
(* alter_config() *)

Candidates(lines, k) == SelectSeq([i \in DOMAIN lines |-> i], LAMBDA i : lines[i].kind = "setting" /\ lines[i].key = k)
CommentedOut(lines, i) == [lines EXCEPT ![i].commented = TRUE]

\* The winner is not commented, or has the value already, or both; the others are commented out.
Score(line, val) == (IF line.commented THEN 0 ELSE 1) + (IF Unquote(ValueIn(line.rest)) = val THEN 2 ELSE 0)
Elected(lines, k, val) ==
  FoldLeft(LAMBDA w, i :
             LET line == w.lines[i] IN
             IF w.line = 0 \/ Score(line, val) > Score(w.lines[w.line], val)
               THEN [line |-> i, lines |-> IF w.line # 0 THEN CommentedOut(w.lines, w.line) ELSE w.lines]
             ELSE IF line.commented THEN w ELSE [w EXCEPT !.lines = CommentedOut(w.lines, i)],
           [line |-> 0, lines |-> lines], Candidates(lines, k))

\* What is behind the value and is no comment becomes one.
After(rest) ==
  LET post == SubSeq(rest, ValueEnd(rest) + 1, Len(rest))  text == Blank(post) IN
  IF text = Len(post) \/ post[text + 1] = Comment THEN post
  ELSE SubSeq(post, 1, text) \o <<Comment>> \o SubSeq(post, text + 1, Len(post))

\* Everything is quoted.  Without its quotes doubled:
LiteralPlain(val) == <<Quote>> \o val \o <<Quote>>
Literal(val) == <<Quote>> \o Doubled(val) \o <<Quote>>
SetLine(line, val) ==
  [line EXCEPT !.commented = FALSE, !.rest = SubSeq(@, 1, Blank(@)) \o Literal(val) \o After(@)]

Altered(lines, k, val) ==
  LET found == Candidates(lines, k) IN
  IF val = None THEN [i \in DOMAIN lines |-> IF i \in ToSet(found) THEN [lines[i] EXCEPT !.commented = TRUE] ELSE lines[i]]
  ELSE IF found = <<>> THEN Append(lines, Setting(k, FALSE, <<Space>> \o Literal(val)))
  ELSE LET w == Elected(lines, k, val) IN [w.lines EXCEPT ![w.line] = SetLine(@, val)]
AlterConfig(lines, map) == FoldLeft(LAMBDA ls, k : Altered(ls, k, map[k]), lines, SetToSeq(DOMAIN map))

-----------------------------------------------------------------------------
(* ConfigFile *)

ConfigInit ==
  /\ file \in Files
  /\ todo = None /\ asked = None

\* The file is read and altered, then opened for writing.
UpdateFile(map) ==
  /\ todo = None /\ file # <<>>
  /\ todo' = AlterConfig(file, map) /\ file' = <<>>
  /\ asked' = [map |-> map, before |-> file]
WriteLine ==
  /\ todo # None /\ todo # <<>>
  /\ file' = Append(file, Head(todo)) /\ todo' = Tail(todo)
  /\ UNCHANGED asked
Saved ==
  /\ todo = <<>> /\ todo' = None
  /\ UNCHANGED <<file, asked>>
\* The process ends while it writes: the rest is lost, and so is what was asked for.
CrashWriting ==
  /\ todo # None /\ todo' = None /\ asked' = None
  /\ UNCHANGED file

ConfigNext == (\E map \in Updates : UpdateFile(map)) \/ WriteLine \/ Saved \/ CrashWriting

ConfigSpec == ConfigInit /\ [][ConfigNext]_configVars

-----------------------------------------------------------------------------
(* Properties *)

\* Types: the lines of the file are of one of the three kinds.
ConfigTypeOK == \A i \in DOMAIN file : file[i].kind \in {"other", "setting", "nosep"}

NamesIn(lines) == {lines[i].key : i \in {j \in DOMAIN lines : lines[j].kind # "other"}}
Others(lines, map) == SelectSeq(lines, LAMBDA l : l.kind # "setting" \/ l.key \notin DOMAIN map)

\* Once written, the server reads from the file what was asked for, a name with a line without "=" excepted,
\* and for the other names what it read before; the lines of these are all there, in their order.
ConfigAsAsked ==
  todo = None /\ asked # None =>
    /\ \A k \in NamesIn(asked.before) \cup DOMAIN asked.map :
         (\E i \in SettingLines(file, k) : file[i].kind = "nosep")
         \/ Reads(file, k) = IF k \in DOMAIN asked.map THEN asked.map[k] ELSE Reads(asked.before, k)
    /\ Others(file, asked.map) = Others(asked.before, asked.map)
===============================================================================
