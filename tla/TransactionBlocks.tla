--------------------------- MODULE TransactionBlocks ---------------------------
(***************************************************************************)
(* Transaction of driver/pq3.py: nested "with db.xact():" blocks as        *)
(* START TRANSACTION / SAVEPOINT and COMMIT / RELEASE / ROLLBACK TO, the   *)
(* state of the transaction block that decides between them (pq.state, the *)
(* last Ready read), and the chunk a cursor may have requested ahead.      *)
(***************************************************************************)
EXTENDS Common, Integers, Sequences, SequencesExt

CONSTANTS
  Blocks,    \* Transaction objects: 1..n, made and entered in this order
  MaxWork    \* bound: statements executed

ASSUME BlocksAssumption ==
  /\ Blocks \subseteq Nat /\ MaxWork \in Nat
  /\ None \notin {"rows", "error", "other", "dead", "ActiveTransactionError"}

VARIABLES
  server,    \* levels: the open block and its savepoints; failed; durable: what was committed
  pq,        \* state: the last Ready; ahead: the answer to a pushed Execute that was not read; closed
  xact,      \* Transaction: state and type
  withs,     \* the with statements being executed, innermost last
  did,       \* the statements that succeeded, and the levels they were executed in
  excused    \* blocks for which the documentation or a hard exit lets go of the promise

blockVars == <<server, pq, xact, withs, did, excused>>

Closed == pq.closed

BlocksInit ==
  /\ server = [levels |-> <<>>, failed |-> FALSE, durable |-> {}]
  /\ pq = [state |-> "I", ahead |-> None, closed |-> FALSE]
  /\ xact = [b \in Blocks |-> [state |-> "initialized", type |-> None]]
  /\ withs = <<>>
  /\ did = {}
  /\ excused = {}

-----------------------------------------------------------------------------
(* The server: a query and what may become of it *)

Ready(s) == IF s.levels = <<>> THEN "I" ELSE IF s.failed THEN "E" ELSE "T"
Done(s) == [server |-> s, error |-> None]
Failing(s, code) == [server |-> [s EXCEPT !.failed = s.levels # <<>>], error |-> code]
Aborted(s) == [s EXCEPT !.levels = <<>>, !.failed = FALSE]
WorkFrom(s, i) == UNION {s.levels[j].work : j \in i..Len(s.levels)}
LevelOf(s, b) == {i \in DOMAIN s.levels : s.levels[i].xact = b}

Opened(s, b) == [s EXCEPT !.levels = Append(@, [xact |-> b, work |-> {}])]

\* One statement of the application.
Worked(s, w) ==
  IF s.levels = <<>> THEN [s EXCEPT !.durable = @ \cup {w}]
                     ELSE [s EXCEPT !.levels[Len(s.levels)].work = @ \cup {w}]

\* RELEASE gives the work of the savepoint to the level above it; ROLLBACK TO ...; RELEASE drops it.
Released(s, i) ==
  LET above == SubSeq(s.levels, 1, i - 1)
  IN  [s EXCEPT !.levels = [above EXCEPT ![i - 1].work = @ \cup WorkFrom(s, i)]]
Dropped(s, i) == [s EXCEPT !.levels = SubSeq(@, 1, i - 1), !.failed = FALSE]

Answers(s, query) ==
  CASE query.text = "START TRANSACTION" -> {Done(Opened(s, query.xact))}
    [] query.text = "SAVEPOINT" ->
         {IF s.failed \/ s.levels = <<>> THEN Failing(s, "other") ELSE Done(Opened(s, query.xact))}
    [] query.text = "statement" ->
         {Failing(s, "other")} \cup IF s.failed THEN {} ELSE {Done(Worked(s, query.work))}
    [] query.text = "COMMIT" ->        \* of a failed transaction: an ABORT; a deferred constraint may refuse it
         IF s.failed \/ s.levels = <<>> THEN {Done(Aborted(s))}
         ELSE { Done([Aborted(s) EXCEPT !.durable = @ \cup WorkFrom(s, 1)]),
                [server |-> Aborted(s), error |-> "other"], Failing(s, "ActiveTransactionError") }
    [] query.text = "ABORT" -> {Done(Aborted(s))}
    [] query.text = "RELEASE" ->
         {IF s.failed \/ LevelOf(s, query.xact) \subseteq {1} THEN Failing(s, "other")
          ELSE Done(Released(s, CHOOSE i \in LevelOf(s, query.xact) : TRUE))}
    [] query.text = "ROLLBACK TO" ->
         {IF LevelOf(s, query.xact) \subseteq {1} THEN Failing(s, "other")
          ELSE Done(Dropped(s, CHOOSE i \in LevelOf(s, query.xact) : TRUE))}

-----------------------------------------------------------------------------
(* The client *)

\* Connection.execute(): _pq_push completes the pending protocol transaction first, and raises its
\* error instead of sending the query; the connection may end before, or after, the server ran it.
Execute(s, p, query) ==
  IF p.closed THEN {[server |-> s, pq |-> p, error |-> "dead"]}
  ELSE IF p.ahead = "error"
    THEN {[server |-> s, pq |-> [p EXCEPT !.ahead = None, !.state = Ready(s)], error |-> "other"]}
  ELSE { [server |-> a.server, pq |-> [p EXCEPT !.ahead = None, !.state = Ready(a.server)], error |-> a.error] :
           a \in Answers(s, query) }
       \cup { [server |-> Aborted(e), pq |-> [p EXCEPT !.ahead = None, !.closed = TRUE], error |-> "dead"] :
                e \in {s} \cup {a.server : a \in Answers(s, query)} }

Query(text, b) == [text |-> text, xact |-> b]
CommitQuery(b) == Query(IF xact[b].type = "block" THEN "COMMIT" ELSE "RELEASE", b)
RollbackQuery(b) == Query(IF xact[b].type = "block" THEN "ABORT" ELSE "ROLLBACK TO", b)

\* commit() and rollback(), from a state of the connection and of the object: what each may lead to.
Stays(s, p, st, error) == [server |-> s, pq |-> p, state |-> st, error |-> error]
Ending(s, p, st, query, final) ==
  IF st = final THEN {Stays(s, p, st, None)}
  ELSE IF st # "open" THEN {Stays(s, p, st, "other")}
  ELSE { Stays(r.server, r.pq, IF r.error = None THEN final ELSE st, r.error) : r \in Execute(s, p, query) }
Commit(b, s, p, st) == Ending(s, p, st, CommitQuery(b), "committed")
Rollback(b, s, p, st) == Ending(s, p, st, RollbackQuery(b), "aborted")

\* __exit__ after an exception, in a failed transaction, and otherwise.
AbortAlive(b, s, p, st) == IF p.closed THEN {Stays(s, p, st, "other")} ELSE Rollback(b, s, p, st)
\* A refused COMMIT that is not followed by an ABORT.
CommitOnly(b, s, p, st) == Commit(b, s, p, st)
CommitOrAbort(b, s, p, st) ==
  UNION { IF c.error = "ActiveTransactionError" THEN AbortAlive(b, c.server, c.pq, "open") ELSE {c} :
            c \in Commit(b, s, p, st) }
\* The state of the transaction not asked for.
ExitWithoutState(b, typ) ==
  CASE typ = "exception"     -> AbortAlive(b, server, pq, xact[b].state)
    [] typ = "none"          -> CommitOrAbort(b, server, pq, xact[b].state)
    [] typ = "BaseException" -> {Stays(server, pq, xact[b].state, "other")}
ExitWith(b, typ) ==
  CASE typ = "exception"                      -> AbortAlive(b, server, pq, xact[b].state)
    [] typ = "none" /\ pq.state = "E"         -> AbortAlive(b, server, pq, xact[b].state)
    [] typ = "none" /\ pq.state # "E"         -> CommitOrAbort(b, server, pq, xact[b].state)
    [] typ = "BaseException"                  -> {Stays(server, pq, xact[b].state, "other")}

Becomes(r, b) == server' = r.server /\ pq' = r.pq /\ xact' = [xact EXCEPT ![b].state = r.state]

\* An isolation or a mode cannot be configured for a savepoint: refused before anything is sent.
Started(b, type, configured) ==
  IF type = "savepoint" /\ configured THEN {[server |-> server, pq |-> pq, error |-> "other"]}
  ELSE Execute(server, pq, Query(IF type = "block" THEN "START TRANSACTION" ELSE "SAVEPOINT", b))

Start(b) ==
  LET type == IF pq.state = "I" THEN "block" ELSE "savepoint" IN
  /\ xact[b].state = "initialized" /\ ~Closed
  /\ \A c \in Blocks : c < b => xact[c].state # "initialized"
  /\ \E configured \in BOOLEAN : \E r \in Started(b, type, configured) :
       /\ server' = r.server /\ pq' = r.pq
       /\ xact' = [xact EXCEPT ![b] = [state |-> IF r.error = None THEN "open" ELSE "initialized", type |-> type]]
       /\ withs' = IF r.error = None THEN Append(withs, b) ELSE withs
  /\ UNCHANGED <<did, excused>>

Statement(w) ==
  /\ ~Closed /\ {d.work : d \in did} = 1..(w - 1)
  /\ \E r \in Execute(server, pq, [text |-> "statement", work |-> w]) :
       /\ server' = r.server /\ pq' = r.pq
       /\ did' = IF r.error = None
                   THEN did \cup {[work |-> w, within |-> {server.levels[i].xact : i \in DOMAIN server.levels}]}
                   ELSE did
  /\ UNCHANGED <<xact, withs, excused>>

\* MultiXactInsideBlock pushes the Execute of the next chunk and does not wait for it.
RequestAhead ==
  /\ pq.state = "T" /\ pq.ahead = None /\ ~Closed
  /\ \E answer \in {"rows", "error"} :
       /\ pq' = [pq EXCEPT !.ahead = answer]
       /\ server' = [server EXCEPT !.failed = answer = "error"]
  /\ UNCHANGED <<xact, withs, did, excused>>

\* x.commit(), x.rollback() within the innermost block.  commit() of a failed block rolls back, as
\* documented; one that was refused has ended the transaction, and a second one is then a no-op.
CommitCalled(b) ==
  /\ \E r \in Commit(b, server, pq, xact[b].state) :
       /\ Becomes(r, b)
       /\ excused' = IF Ready(server) = "E" \/ r.error # None THEN excused \cup {b} ELSE excused
  /\ UNCHANGED <<withs, did>>
RollbackCalled(b) ==
  /\ \E r \in Rollback(b, server, pq, xact[b].state) : Becomes(r, b)
  /\ UNCHANGED <<withs, did, excused>>

ExitBlock(b, typ) ==
  /\ \E r \in ExitWith(b, typ) : Becomes(r, b)
  /\ excused' = IF typ = "BaseException" \/ pq.ahead = "error" THEN excused \cup {b} ELSE excused
  /\ withs' = Front(withs)
  /\ UNCHANGED did

BlocksNext ==
  \/ \E b \in Blocks : Start(b)
  \/ \E w \in 1..MaxWork : Statement(w)
  \/ RequestAhead
  \/ /\ withs # <<>>
     /\ LET b == Last(withs) IN
          \/ CommitCalled(b) \/ RollbackCalled(b)
          \/ \E typ \in {"none", "exception", "BaseException"} : ExitBlock(b, typ)

BlocksSpec == BlocksInit /\ [][BlocksNext]_blockVars

-----------------------------------------------------------------------------
(* Properties *)

\* Types: the levels of the server, the status read last and the states of the blocks.
BlocksTypeOK ==
  /\ \A i \in DOMAIN server.levels : server.levels[i].xact \in Blocks /\ server.levels[i].work \subseteq 1..MaxWork
  /\ server.failed => server.levels # <<>>
  /\ pq.state \in {"I", "T", "E"} /\ pq.ahead \in {None, "rows", "error"}
  /\ \A b \in Blocks : xact[b].state \in {"initialized", "open", "committed", "aborted"}

\* When no transaction is open, exactly the statements are durable whose blocks all say 'committed'.
\* After the connection was lost, a COMMIT may have been executed that was not acknowledged.
DurableAsTold ==
  server.levels = <<>> =>
    \A d \in {e \in did : e.within \cap excused = {}} :
      LET told == \A b \in d.within : xact[b].state = "committed" IN
      /\ told => d.work \in server.durable
      /\ d.work \in server.durable => told \/ Closed

\* The end of the outermost with statement ends the transaction at the server, whatever happened in it.
BlockEnds ==
  withs = <<>> /\ server.levels # <<>> => \E i \in DOMAIN server.levels : server.levels[i].xact \in excused
===============================================================================
