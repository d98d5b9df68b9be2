---------------------------------- MODULE DbApi ----------------------------------
(***************************************************************************)
(* driver/dbapi20.py: the DB-API cursors of one connection, whose portals  *)
(* buffer the chunks of Streams, and the connection's transaction that     *)
(* commit() and rollback() replace and "autocommit" removes.  A fetch is a *)
(* call of several steps, one for each chunk it asks for.  The end of the  *)
(* connection, after which every call raises, is left out.                 *)
(***************************************************************************)
EXTENDS Streams, SequencesExt

CONSTANTS
  DbCursors,    \* the cursors of the connection
  FewRows       \* bound: the rows of every result but the first

\* The portals of a cursor, each with the stream it takes chunks of; what is closed is no sequence of them.
PortalRecords == [chunks : Streams, buf : Seq(Nat), pos : Nat]

ASSUME DbApiAssumption ==
  /\ None \notin Nat /\ None \notin Seq(PortalRecords)
  /\ None \notin {"open", "initialized"}

VARIABLES
  _xact,        \* Connection._xact: the state of the Transaction, or None in autocommit mode
  portals,      \* Cursor.__portals: None once closed
  call,         \* the fetch being executed, or None
  returned,      \* the rows each stream gave to callers, and whether one was told that there are no more
  refused       \* the last COMMIT was refused and has ended the block of _xact

dbapiVars == <<_xact, portals, call, returned, refused, streamVars>>
connVars == <<_xact, refused>>
fetchVars == <<portals, call, returned>>

\* The state connect() leaves: a transaction was started.
DbApiRest ==
  /\ refused = FALSE
  /\ portals = [c \in DbCursors |-> <<>>] /\ call = None
  /\ returned = [s \in Streams |-> [rows |-> <<>>, ended |-> FALSE]]
DbApiInit ==
  /\ stream = [s \in Streams |-> Unmade] /\ busy = None /\ blamed = {} /\ block = "T"
  /\ _xact = "open" /\ DbApiRest

NoCall == call = None
IsOpen(c) == portals[c] # None

-----------------------------------------------------------------------------
(* Any statement first completes what is pending, and fails if that failed *)

RaisesPending ==
  /\ PendingFails
  /\ stream' = CompletePending(stream) /\ busy' = None /\ blamed' = blamed \cup {busy} /\ block' = AfterFailure

\* Sent and answered: portals do not outlive their transaction block.
Executed(next, ends) ==
  /\ ~PendingFails
  /\ block' = next /\ busy' = None /\ UNCHANGED blamed
  /\ stream' = [s \in Streams |-> [CompletePending(stream)[s] EXCEPT !.alive = @ /\ ~(ends /\ stream[s].kind = "inside")]]

-----------------------------------------------------------------------------
(* Cursor.execute(), callproc(), executemany() *)

\* prepare() raises: the text is refused, or the block has failed.
PrepareFails(c) ==
  /\ NoCall /\ IsOpen(c)
  /\ RaisesPending \/ Executed(AfterFailure, FALSE)
  /\ UNCHANGED <<connVars, fetchVars>>

\* A statement that returns rows: its portal goes before the others.
ExecuteRows(c, s) ==
  /\ NoCall /\ IsOpen(c) /\ block # "E" /\ ~PendingFails
  /\ Open(s) /\ stream'[s].kind # "single" /\ (s = 1 \/ stream'[s].rows <= FewRows)
  /\ portals' = [portals EXCEPT ![c] = <<[chunks |-> s, buf |-> <<>>, pos |-> 0]>> \o @]
  /\ UNCHANGED <<connVars, call, returned>>

\* One that does not, and bumps the current portal.
ExecuteWork(c) ==
  /\ NoCall /\ IsOpen(c) /\ block # "E"
  /\ Executed(block, FALSE)
  /\ portals' = [portals EXCEPT ![c] = IF @ = <<>> THEN @ ELSE Tail(@)]
  /\ UNCHANGED <<connVars, call, returned>>

-----------------------------------------------------------------------------
(* Portal.__next__(), read() and readall() *)

Unfetched(p) == SubSeq(p.buf, p.pos + 1, Len(p.buf))

\* The rows a call takes: fetchone() one, fetchmany(n) n of them, fetchall() (None) all that come.
Enough(p, amount) == amount # None /\ Len(Unfetched(p)) >= amount

\* What the portal keeps: __next__ moves its position, the others cut the buffer.  A position kept with a
\* buffer that was cut:
KeptByUncut(p, n, one) == [p EXCEPT !.buf = IF one THEN @ ELSE SubSeq(@, p.pos + n + 1, Len(@)), !.pos = @ + n]
KeptBy(p, n, one) ==
  IF one THEN [p EXCEPT !.pos = @ + 1] ELSE [p EXCEPT !.buf = SubSeq(@, p.pos + n + 1, Len(@)), !.pos = 0]

Answered(c, one, n, ended) ==
  LET p == portals[c][1] IN
  /\ portals' = [portals EXCEPT ![c][1] = IF n = 0 THEN p ELSE KeptBy(p, n, one)]
  /\ returned' = [returned EXCEPT ![p.chunks] =
       [rows |-> @.rows \o SubSeq(Unfetched(p), 1, n), ended |-> @.ended \/ ended]]
  /\ call' = None
  /\ UNCHANGED <<connVars, streamVars>>

\* next(self.chunks): a chunk goes to the buffer and the call goes on, until it has enough, the chunks end
\* or an error is raised, which leaves the buffer to the next call.
Extended(p, new, one, amount) ==
  CASE one           -> [p EXCEPT !.buf = new, !.pos = 0]
    [] amount = None -> [p EXCEPT !.buf = Unfetched(p) \o new, !.pos = 0]
    [] OTHER         -> [p EXCEPT !.buf = @ \o new]
FetchBy(c, one, amount) ==
  /\ IsOpen(c) /\ portals[c] # <<>> /\ call \in {None, <<c, one, amount>>}
  /\ LET p == portals[c][1]  s == p.chunks IN
     IF Enough(p, amount) THEN Answered(c, one, amount, FALSE)
     ELSE IF stream[s].xact = None THEN Answered(c, one, Len(Unfetched(p)), TRUE)
     ELSE /\ NextChunk(s)
          /\ LET new == SubSeq(stream'[s].out, Len(stream[s].out) + 1, Len(stream'[s].out))
                 raised == new = <<>> /\ ~stream'[s].ended IN
             /\ call' = IF raised THEN None ELSE <<c, one, amount>>
             /\ portals' = [portals EXCEPT ![c][1] = IF new = <<>> /\ amount # None THEN p ELSE Extended(p, new, one, amount)]
          /\ UNCHANGED <<connVars, returned>>

Fetchone(c) == FetchBy(c, TRUE, 1)
Fetchmany(c, n) == FetchBy(c, FALSE, n)
Fetchall(c) == FetchBy(c, FALSE, None)

Nextset(c) ==
  /\ NoCall /\ IsOpen(c) /\ portals[c] # <<>>
  /\ portals' = [portals EXCEPT ![c] = Tail(@)]
  /\ UNCHANGED <<connVars, call, returned, streamVars>>
CloseCursor(c) ==
  /\ NoCall /\ IsOpen(c)
  /\ portals' = [portals EXCEPT ![c] = None]
  /\ UNCHANGED <<connVars, call, returned, streamVars>>

-----------------------------------------------------------------------------
(* Connection.commit(), rollback() and autocommit *)

\* A Transaction ended and the next one not started.
ReplacedUnstarted(final) == Executed("I", TRUE) /\ _xact' = final /\ refused' = FALSE
Replaced(final) == Executed(IF final = None THEN "I" ELSE "T", TRUE) /\ _xact' = final /\ refused' = FALSE

\* A deferred constraint may refuse the COMMIT, which has then ended the block and not the Transaction.
CommitDb ==
  /\ NoCall /\ _xact = "open"
  /\ \/ RaisesPending /\ UNCHANGED connVars
     \/ (block = "T" /\ Executed("I", TRUE) /\ refused' = TRUE /\ UNCHANGED _xact)
     \/ Replaced("open")
  /\ UNCHANGED fetchVars
RollbackDb ==
  /\ NoCall /\ _xact = "open"
  /\ (RaisesPending /\ UNCHANGED connVars) \/ Replaced("open")
  /\ UNCHANGED fetchVars

AutocommitOn ==
  /\ NoCall /\ _xact = "open"
  /\ (RaisesPending /\ UNCHANGED connVars) \/ Replaced(None)
  /\ UNCHANGED fetchVars
\* The new Transaction is kept even if start() raises the error of a stream: neither commit() nor
\* rollback() nor autocommit can get rid of it then.
AutocommitOff ==
  /\ NoCall /\ _xact = None
  /\ \/ RaisesPending /\ _xact' = "initialized"
     \/ Executed("T", FALSE) /\ _xact' = "open"
  /\ UNCHANGED <<refused, fetchVars>>

DbApiNext ==
  \/ \E c \in DbCursors :
       \/ PrepareFails(c) \/ ExecuteWork(c) \/ Nextset(c) \/ CloseCursor(c)
       \/ \E s \in Streams : ExecuteRows(c, s)
       \/ Fetchone(c) \/ Fetchmany(c, 2) \/ Fetchall(c)
  \/ CommitDb \/ RollbackDb \/ AutocommitOn \/ AutocommitOff

DbApiSpec == DbApiInit /\ [][DbApiNext]_dbapiVars

-----------------------------------------------------------------------------
(* Properties *)

\* Types: the state of the connection and of its cursors.
DbApiTypeOK ==
  /\ _xact \in {"open", "initialized", None}
  /\ \A c \in DbCursors : IsOpen(c) => \A i \in DOMAIN portals[c] : portals[c][i].pos \in 0..Len(portals[c][i].buf)

\* Whatever mix of fetches reads it, a result is returned in order, each row once; None, [] or a short list
\* says that it is over only after its last row, or after some caller was told that the stream failed.
FetchedInOrder ==
  \A s \in Streams :
    /\ \A i \in DOMAIN returned[s].rows : returned[s].rows[i] = i
    /\ returned[s].ended => Len(returned[s].rows) = stream[s].rows \/ s \in blamed

\* What the connection says of its transaction is true of the session: in autocommit mode no block is
\* open, and otherwise one is, but for the time after a COMMIT that was refused.
TransactionKept ==
  /\ _xact = None => block = "I"
  /\ _xact = "open" => block # "I" \/ refused

\* What PEP 249 asks of the results and of the transaction of a connection: both.
DbApiPromises == FetchedInOrder /\ TransactionKept
===============================================================================
