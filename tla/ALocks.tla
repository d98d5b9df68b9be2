--------------------------------- MODULE ALocks ---------------------------------
(***************************************************************************)
(* alock.ALock: sequences of advisory locks that are acquired, tried and   *)
(* released together, by the sessions of several connections.  The server  *)
(* counts what each session holds; a statement that fails or is cancelled  *)
(* keeps the session-level locks it had taken.                             *)
(***************************************************************************)
EXTENDS Common, Integers, Sequences, FiniteSets, SequencesExt

CONSTANTS
  Databases,    \* the connections
  ALock,        \* lock objects: [database, mode, identifiers]
  MaxCount      \* bound: how often one lock object is acquired

ASSUME LocksAssumption ==
  /\ IsFiniteSet(ALock) /\ MaxCount \in Nat
  /\ \A l \in ALock :
       /\ l.database \in Databases /\ l.mode \in {"share", "exclusive"}
       /\ l.identifiers \in Seq(ToSet(l.identifiers))
       /\ \A n \in 1 .. Len(l.identifiers) + 1 : None # [lock |-> l, next |-> n]

VARIABLES
  count,        \* ALock._count
  held,         \* server: how often a session holds an identifier in a mode
  acquiring,    \* database -> the blocking acquire() in progress: lock and next identifier, or None
  gone,         \* databases that are closed
  broken        \* databases with a blocking acquire() that failed

lockVars == <<count, held, acquiring, gone, broken>>

Identifiers == UNION {ToSet(l.identifiers) : l \in ALock}
Modes == {"share", "exclusive"}

LocksInit ==
  /\ count = [l \in ALock |-> 0]
  /\ held = [d \in Databases |-> [x \in Modes \X Identifiers |-> 0]]
  /\ acquiring = [d \in Databases |-> None]
  /\ gone = {} /\ broken = {}

-----------------------------------------------------------------------------
(* pg_advisory_lock and its relatives *)

\* Nobody else holds it in a mode that conflicts.
Free(d, mode, id) ==
  \A e \in Databases \ {d} : held[e][<<"exclusive", id>>] = 0 /\ (mode = "exclusive" => held[e][<<"share", id>>] = 0)

Taken(h, mode, id) == [h EXCEPT ![<<mode, id>>] = @ + 1]

\* How often id is listed at these places.
Times(ids, places, id) == Cardinality({i \in places : ids[i] = id})
TakeAll(h, mode, ids, places) ==
  [x \in DOMAIN h |-> IF x[1] = mode THEN h[x] + Times(ids, places, x[2]) ELSE h[x]]
\* An identifier that is listed twice, unlocked once.
UnlockEach(h, mode, ids, places) ==
  [x \in DOMAIN h |-> IF x[1] = mode /\ h[x] > 0 /\ Times(ids, places, x[2]) > 0 THEN h[x] - 1 ELSE h[x]]
\* An unlock of what is not held is a warning.
UnlockAll(h, mode, ids, places) ==
  [x \in DOMAIN h |-> LET n == Times(ids, places, x[2]) IN
                      IF x[1] = mode THEN IF h[x] > n THEN h[x] - n ELSE 0 ELSE h[x]]

-----------------------------------------------------------------------------
(* The client; one thread per connection *)

Idle(d) == d \notin gone /\ acquiring[d] = None

Acquire(l) ==
  /\ Idle(l.database) /\ count[l] < MaxCount
  /\ IF count[l] = 0
       THEN acquiring' = [acquiring EXCEPT ![l.database] = [lock |-> l, next |-> 1]] /\ UNCHANGED count
       ELSE count' = [count EXCEPT ![l] = @ + 1] /\ UNCHANGED acquiring
  /\ UNCHANGED <<held, gone, broken>>

\* The statement takes the identifiers in their order, waits for each, and returns after the last.
Grant(d) ==
  /\ acquiring[d] # None
  /\ LET l == acquiring[d].lock
         i == acquiring[d].next IN
     IF i > Len(l.identifiers)
       THEN /\ count' = [count EXCEPT ![l] = @ + 1]
            /\ acquiring' = [acquiring EXCEPT ![d] = None]
            /\ UNCHANGED held
       ELSE /\ Free(d, l.mode, l.identifiers[i])
            /\ held' = [held EXCEPT ![d] = Taken(@, l.mode, l.identifiers[i])]
            /\ acquiring' = [acquiring EXCEPT ![d].next = @ + 1]
            /\ UNCHANGED count
  /\ UNCHANGED <<gone, broken>>

\* A deadlock, or an interrupt: acquire() raises before it counts (bounded to one failure per connection).
AcquireFails(d) ==
  /\ d \notin broken /\ acquiring[d] # None /\ acquiring[d].next <= Len(acquiring[d].lock.identifiers)
  /\ acquiring' = [acquiring EXCEPT ![d] = None]
  /\ broken' = broken \cup {d}
  /\ UNCHANGED <<count, held, gone>>

\* acquire(blocking = False): all, or those that could be locked are released again.
TryAcquire(l) ==
  LET d == l.database
      did == {i \in DOMAIN l.identifiers : Free(d, l.mode, l.identifiers[i])}
      tried == TakeAll(held[d], l.mode, l.identifiers, did) IN
  /\ Idle(d) /\ count[l] = 0
  /\ IF did # DOMAIN l.identifiers
       THEN held' = [held EXCEPT ![d] = UnlockAll(tried, l.mode, l.identifiers, did)] /\ UNCHANGED count
       ELSE held' = [held EXCEPT ![d] = tried] /\ count' = [count EXCEPT ![l] = 1]
  /\ UNCHANGED <<acquiring, gone, broken>>

Freed(l) ==
  IF l.database \in gone THEN held
  ELSE [held EXCEPT ![l.database] = UnlockAll(@, l.mode, l.identifiers, DOMAIN l.identifiers)]
\* release() without asking whether the lock was acquired.
ReleaseUnasked(l) ==
  /\ acquiring[l.database] = None
  /\ held' = Freed(l) /\ count' = [count EXCEPT ![l] = @ - 1]
  /\ UNCHANGED <<acquiring, gone, broken>>
\* release() unlocks whatever the count is; on a closed connection it only counts.
Release(l) ==
  /\ acquiring[l.database] = None /\ count[l] >= 1
  /\ held' = Freed(l) /\ count' = [count EXCEPT ![l] = @ - 1]
  /\ UNCHANGED <<acquiring, gone, broken>>

SessionEnds(d) ==
  /\ d \notin gone
  /\ gone' = gone \cup {d}
  /\ held' = [held EXCEPT ![d] = [x \in Modes \X Identifiers |-> 0]]
  /\ acquiring' = [acquiring EXCEPT ![d] = None]
  /\ UNCHANGED <<count, broken>>

LocksNext ==
  \/ \E l \in ALock : Acquire(l) \/ TryAcquire(l) \/ Release(l)
  \/ \E d \in Databases : Grant(d) \/ AcquireFails(d) \/ SessionEnds(d)

LocksSpec == LocksInit /\ [][LocksNext]_lockVars

-----------------------------------------------------------------------------
(* Properties *)

\* Types: counts stay within their bound, and an acquire() in progress is of its own connection.
LocksTypeOK ==
  /\ count \in [ALock -> 0..MaxCount] /\ gone \subseteq Databases /\ broken \subseteq Databases
  /\ \A d \in Databases : acquiring[d] = None \/ acquiring[d].lock.database = d

\* locked()
Locked(l) == count[l] > 0 /\ l.database \notin gone

\* A lock object that says it is locked holds each of its locks: "whether the locks are held or not".
LockedIsHeld ==
  \A l \in ALock : Locked(l) => \A id \in ToSet(l.identifiers) : held[l.database][<<l.mode, id>>] > 0

\* How often the lock objects of a session that are locked name an identifier.
Counted(d, mode, id) ==
  FoldFunction(LAMBDA x, y : x + y, 0,
    [l \in ALock |-> IF l.database = d /\ l.mode = mode /\ count[l] > 0
                       THEN Times(l.identifiers, DOMAIN l.identifiers, id) ELSE 0])

\* Between calls, a session holds exactly what its lock objects say, each identifier as often as they name
\* it: nothing of a failed try is left, and nothing is released that another object still counts on.
HeldAsCounted ==
  \A d \in Databases \ (gone \cup broken) : acquiring[d] = None =>
    \A mode \in Modes, id \in Identifiers : held[d][<<mode, id>>] = Counted(d, mode, id)
===============================================================================
