# TLA+ models of pg_cluster

pg_cluster deploys a highly available PostgreSQL cluster (Patroni, etcd, haproxy or keepalived, pgbouncer)
with ansible roles, and ships `tools/pg_cluster_backend`, a multi-threaded program that tests such a cluster:
it runs billing transfers while nodes are restarted and switched over, and then checks that no transfer was
lost. The program carries its own PostgreSQL driver (`psc/postgresql`, a modified py-postgresql), its logger
and helpers. The roles are declarative lists of tasks; the program logic of the repository is the test backend
and the driver, and that is where this project starts.

Paths below are relative to `src/`; `backend.py` stands for `tools/pg_cluster_backend/pg_cluster_backend.py`,
`psc/` for `tools/pg_cluster_backend/psc/`.

## 1. Inventory

| Component | State it keeps | Operations | Hard behaviours | What makes it correct |
|---|---|---|---|---|
| worker threads, `worker_func` (backend.py) | shared: `operation_num`, `is_terminate`, `db_conns`; per thread: `db_local`, `reconnect_attempt`, `db_hosts` | take a task, connect, rotate hosts, one transfer per task, four except clauses, close | check-then-increment race, `+=` that can be preempted, row deadlocks, COMMITs whose answer is lost, switchover and failover under a transaction, cancellation, exceptions inside an except clause | a task counted as done was committed; every surplus commit has a cause; nothing leaves a transaction open; every thread ends |
| main thread (backend.py) | `func` executed, its own hosts and attempts, a `SignalHandler` | `cluster_specific_execute`, loop over threads, interrupt of `db_conns`, stop of the logger | signals between two handler blocks, `db_conns` changed during iteration, errors with no except clause, a process kept alive by its other threads | signals are obeyed, the verdict comes last, the process ends |
| table initialisation and validation (backend.py) | the tables of the cluster | create tables; compare `sum(balance)` | the sum is read by two statements; orphaned COMMITs arrive after it | the verdict can be explained by lost commits and unanswered COMMITs |
| `PSCLogger` (psc/pgstatlogger) | queue under a lock, `do_stop` | `log`, `flush_data`, `stop` | last flush against last message | no message of a complete test is lost |
| `AppFileLock` (psc/pgstatcommon) | a lock file | create, remove | `isfile()` and `open(O_EXCL)` are two steps | nothing: no program of the repository creates one |
| driver: protocol transactions (`protocol/xact3.py`) | position in a batch, replies, asynchronous messages | `Negotiation`, `Instruction`, `Closing`: a step machine for each | an error skips to the Sync; messages in any grouping; asynchronous messages in between | each reply goes to its command; done only at Ready |
| driver: protocol connection (`protocol/client3.py`) | current transaction, message buffers, socket | `push`, `step`, `complete`, `interrupt`, `trash_fatal_xact` | socket errors in any step, interrupt from another thread | one transaction at a time; after a fatal error nothing is pushed |
| driver: elements and buffers (`protocol/element3.py`, `pbuffer.py`, `buffer.py`, `port/_optimized`) | bytes received so far | serialise, parse, split a stream into messages, in Python and in C | messages cut anywhere, also inside the 5 byte header; lengths computed before the bytes are written | the sequence of messages is independent of the cuts and of the implementation |
| driver: transactions and connections (`driver/pq3.py`) | transaction type, savepoints, cursors and chunks, cached settings and type routines, the attempts of a connect | `start`, `commit`, `rollback`, `__exit__`, fetch, seek, `settings[...]`, `connect` with several sslmodes, `resolve` | errors raised inside and outside a failed block, chunks requested ahead, savepoints, parameters changed behind the cache | the server's transaction and the driver's agree; a stream is complete or its reader is told; the cache is the session |
| driver: DB-API 2.0 (`driver/dbapi20.py`) | the connection's transaction, portals and positions of cursors | execute, fetches, nextset, close, commit, rollback, autocommit | a fetch that raises half-way, a refused COMMIT, portals that die with their block | each row once and in order; the connection is in a block unless in autocommit |
| driver: copy (`copyman.py`) | producer, receivers, a `WireState` | transfer rows to several receivers, reconcile, end | one receiver of several fails, a COPY given up inside a message | whole messages on every side; surviving receivers get all rows |
| driver: notifications (`notifyman.py`) | connections waited on, set aside, queued | iterate with a timeout, settimeout | connections closed, lost, added and removed during the loop | each notification once, in its order |
| driver: advisory locks (`alock.py`) | a count per lock object | acquire (blocking or not), release, locked | partial tries, several objects on one identifier, ended sessions | what is counted is held |
| driver: cluster control (`cluster.py`) | postmaster process, pid file | start, stop, shutdown, kill, restart, drop, waits | stale pid file, recycled pid, a server that ends between two looks at it | the handle of a living server is never lost |
| driver: configuration files (`configfile.py`) | postgresql.conf | parse, alter, update | several lines for one setting, quotes and comments | the server reads what was asked, the rest stays |
| driver: temporary clusters (`temporal.py`) | names in builtins, a stack of levels, a server | enter, new, exit, destroy | errors and interrupts of each clean-up | names, connections and schemas belong to their block |
| driver: client parameters (`clientparameters.py`, `iri.py`, `pgpassfile.py`) | a dictionary | collect | six sources, services and locators that expand in place | the strongest source wins; the password is that of the result |
| driver: sockets (`python/socket.py`) | none | creation, classification of errors | `ETIMEDOUT` counts as "try again" | an error that ends the connection is not retried on it |
| driver: types, conversions (`types/`) | none | pure conversions | boundaries of numeric and array packing | round trip |
| driver: exceptions, interfaces, utilities | none | declarations, text | - | - |
| roles: etcd, patroni | membership, DCS content, cluster version | discover, remove and add members, restart, upgrade | decisions on facts collected earlier, handlers for all hosts at once | quorum kept, the master upgraded is the master |
| roles: haproxy, keepalived, pgbouncer | health of each server | health checks, virtual address | two servers answering for the primary | clients reach a primary |
| roles: certificates, prepare_nodes, postgres_* | files and packages | install | pure I/O | - |

Interactions: the threads share the dictionary `CLUSTERTEST` and the `conf` object; the main thread calls
`interrupt()` on connections which workers drive at the same time; everybody logs through the singleton
`PSCLogger`; workers and main thread reach the servers through the driver, the servers are managed by Patroni,
and the connection strings lead to them directly or through haproxy. In the driver a `pq3` object pushes
protocol transactions to `client3.Connection`, which steps them over the socket. Above it, the streams of
`Statement`, the DB-API, `Transaction` and `Settings` share that one connection: whatever is called next
completes what another of them has pushed, and gets its error.

`PROJECT.json` lists every component with its sources and status, and under `hazards` each place that is hard
to test, with the properties that would catch it going wrong.

## 2. Plan

In the order of what matters most; what has no remark is done.

1. `BillingWorkers`: the worker threads against an external cluster.
2. `ClusterTest`, which extends it: main thread, signals, logger, validation.
3. Proofs for both.
4. `Instruction` and `ProtocolConnection`: `xact3.py` and `client3.py` with their callers in `pq3.py`, against
   an external server.
5. `TransactionBlocks`, with a proof that blocks tell what became of their work.
6. `Establish`, `SettingsCache`, `Cursors` (shown to implement `ScrollableCursor`), each with its proof;
   `Streams`, and `DbApi` composed with it, both proved.
7. `Messages`, `MessageBuffers` (shown to implement `MessageStream`).
8. `CopyTransfer`, `Notifications`, `ALocks`; proofs for the last two.
9. `ClusterControl`, `ConfigFiles`, `Temporal`.
10. `ClientParameters`, `TypeResolution`.
11. Not done: an abstract `AtLeastOnceTransfer` (each task is committed at least once, each surplus commit is
    preceded by a lost answer) that `BillingWorkers` implements. The invariants `AckedImpliesApplied` and
    `DuplicatesExplained`, both proved, say the same state by state.
12. Proofs about `Instruction` and `ProtocolConnection`: what the fold of `standard_put` makes of a group of
    messages, then the invariant of the connection.
13. Not done: conversions of `types/io` as operators with a reference definition: pure functions, which unit
    tests reach better.
14. Given up: the roles as sequences of tasks per host. What they do is decided by ansible, etcd and Patroni,
    whose code is not here; a model of them would be a model of their documentation.

## 3. The modules

### BillingWorkers

One thread is a record of `pc`, `loaded` (the register of `operation_num += 1`), `db_local`,
`reconnect_attempt`, `db_hosts` and `want`, the rows its SELECT has still to lock. Each action is one stretch
of `worker_func` (backend.py:157-320) between two points where another thread, the server or a fault can act:

| Code | Actions |
|---|---|
| `while operation_num < operations and not is_terminate` (166), `operation_num += 1` (169) | `Test`, `Load`, `Store` |
| connect, rotation of the deque (216-249) | `Connect`, `CannotConnect`, `UncaughtTimeout` (no clause) |
| `execute_task`: START TRANSACTION, SELECT ... FOR UPDATE, two UPDATEs, COMMIT (182-214) | `Begin`, `LockRow` (twice), `UpdateAndCommit`, `Committed` |
| except clauses (253-317) | `DeadlockError`, `Rollback`, `RollbackFails`, `ReadOnlyTransactionError`, `QueryCanceledError`, `AdminShutdownError`, `ConnectionFailureError`; `UndefinedTable` (no clause) |
| `db_local.close()` (319) | `Close` |

The cluster is external and is what a client can observe of PostgreSQL under Patroni: sessions with a
transaction state and the state of the link to their client, row locks, a primary, and for every host the
commits on its timeline. `ServerCommit` is separate from the sending of COMMIT and from the arrival of the
answer, so a connection can be lost on either side of the commit and an orphaned session can commit after its
worker has reconnected. A switchover is the clean stop of the primary (`Switchover`: its sessions end, the
replicas have all it had) and, some time later, `Promote` of a replica, or of the old primary after its
`Restart`; `Crash` with `Promote` loses what the new primary had not received. In the time between there is no
primary: behind haproxy a connect fails, and a server named directly is read-only if it can be reached at all,
so a thread can drop a session there (272-283), fail at the host that stopped, rotate back and drop another.
Nothing bounds these drops but the time Patroni takes; `blind` counts them and `MaxBlind` is the bound of an
instance. `BreakLink` is `pg_terminate_backend` or a lost network connection; `OperatorCancel` is
`pg_cancel_backend`. `Terminate` is the main thread acting on a signal, as one step.

Abstractions, all of them:

- The two statements that follow a connect (SET, the query of the pid) are part of `Connect`: a connection
  lost under them meets the same except clauses as one lost right after them. The two UPDATEs of rows already
  locked are one step with the sending of COMMIT.
- A transfer keeps the sum of the balances and adds 1 to it, so the table is represented by the number of
  commits on a timeline, per thread (`ledger`), and by which table it is (`tables`): the one of this test, one
  that an earlier test with the same conf left, whose sum differs by `Remains`, or none. `init_test_tbls_and_data`
  makes the new one on the primary; every other host has what it had before until it has replicated that, and
  a failover may come first. In `BillingWorkers` alone the threads begin at that point (`TablesCreated`). The two rows and their order stay, they make the deadlocks.
- `Proxied` says what the connection strings name: haproxy, which leads to the primary, or the servers
  themselves, which may be replicas.
- Sessions have unique numbers over all hosts and one is reused only when nobody refers to it. That two
  servers hand out the same pid (`db_conns` is keyed by pid) is left out: an entry that is replaced only
  delays an interrupt.
- `AtomicIncrement` distinguishes interpreters that do not preempt between the load and the store of `+=`.
- `started`, `acked`, `applied`, `unknown` are history variables: no action reads them. `blind` is read by the
  guard of `ReadOnlyTransactionError` only, against its bound.

### ClusterTest

Extends `BillingWorkers` by the main thread: `cluster_specific_execute` (its own deque and attempts),
`init_test_tbls_and_data`, the loop over the threads, `validate_test` as the two statements it is, and
`PSCLogger`. `WorkerStep` and `ClusterStep` lift the steps of `BillingWorkers`; the main thread's own
connection is kept apart as `main_conn` and `main_link`, since it is never in `db_conns`.

- Each iteration of the loop has a `SignalHandler` block: `Enter`, `Alive`, `Sleep`, `Check`, `Exit`. While
  `armed`, a signal only sets `interrupted`, and the handler restores the former handlers at once, so a second
  signal has the default effect. Outside the block SIGTERM kills (`Kill`) and SIGINT raises
  `KeyboardInterrupt` wherever the main thread is. A signal between `Check` and `Exit` is forgotten; that is
  how the code behaves, and `SignalObeyed` therefore speaks of signals during the sleep.
- `Check` sets `is_terminate` and starts the iteration over `db_conns`; `Interrupt` cancels one entry, in any
  order; a worker that registers a connection meanwhile makes the next iteration raise RuntimeError
  (`DictionaryChanged`), which no clause catches: the main thread ends, the logger is never stopped.
- `CreateTables` is the DO block on the primary and `InitTestTblsAndData` the arrival of its answer; a
  connection lost between the two runs the block again, on whatever host is the primary then. The threads start
  at once, before any replica need have the table. `ValidateWithoutTable` is `validate_test` on a host that
  lacks it, for which there is no clause.
- `ExecuteAgain` and `ExecuteFails` are the caught and the uncaught errors of `cluster_specific_execute`.
- `ProcessEnded` is what the shell sees: killed, or all of main thread, workers and logger ended.

### Instruction and ProtocolConnection

`Instruction` is a protocol transaction as a record, and the methods of `xact3.Instruction` as operators on
it. `hook` is the table of the code (xact3.py:294-390); `standard_put` folds `PutMessage` over a group of
messages, whose four disjuncts are the branches of the code: a message with a path (`Accept`), an error
(`Failed`, which skips to the Synchronize unless the command implies one), an asynchronous message, anything
else. `put_copydata` and `put_tupledata` are the fast paths, in Python and, with `Optimized`, in C;
`sent_from_stdin` is the protocol by which a caller feeds a COPY.

`ProtocolConnection` has the attributes of `client3.Connection` (`xact`, `read`, `state`, `socket`, `garbage`)
and, in `pc`, `then`, `pushing` and `runs`, the place in the nested calls:

| Code | Actions |
|---|---|
| `_pq_push` (pq3.py:2590), `push` (client3.py:377) with its first `step` | `Push`, `PreviousCompleted`, `TakeOutTrash`, `TrashTakenOut`, `Start`, `Pushed` |
| `complete` (client3.py:435), whoever calls it | `CompleteSend`, `CompleteReceive`, then the action of the caller that `Completed(caller)` guards |
| `_pq_complete`, `_pq_step` (pq3.py:2601-2623) | `PqComplete`, `PqCompleted`, `PqStepSend`, `PqStepReceive`, `StepDropped` |
| `_load_copy_chunks` (pq3.py:1724) | `SetMessages` binds a chunk or `CopyDoneSequence` |
| `synchronize`, `close`, weak references | `Synchronize` ... `Synchronized`, `Close` ... `CloseSocket`, `Trash` |

The server is external and is the message flow of protocol 3.0: it answers the commands it received in order,
may fail one after any part of its result, then skips to the next Synchronize, ignores Synchronize and Flush
inside COPY FROM STDIN, keeps a transaction status, and may end at any moment with or without a last message.
Each reply carries the command it answers (`of`), which no operator of the client reads; `RepliesMatch`
compares it with the command it was processed for.

Abstractions, all of them:

- A message arrives whole; a read gets any non-empty prefix of what is on its way. Cuts inside a message are
  the matter of `MessageBuffers`.
- A retry after EAGAIN, EINTR or ETIMEDOUT changes nothing of this state, and so does the bookkeeping of
  `writing`/`written`, which keeps a message from being sent twice. A group that is put a second time because
  a KeyboardInterrupt left `standard_put` is left out.
- The caller may call any method whenever control is with it: this includes what the driver does, and more.
- `ProtocolAssumption` says what is pushed and answered: a Query, or commands with one Synchronize behind them
  (`Pushable`); results that follow the steps of `hook` (`CanReturn`). A COPY FROM STDIN comes of `execute` or
  of a batch that ends with its Execute and a Synchronize (`CopiesAlone`): `first()` of such a statement,
  which closes its portal behind the Execute, is left out, see Observations.
- Notifications are sent between commands, as PostgreSQL does; notices may fall anywhere in a result.
- `failed`, `reported`, `swallowed`, `killed`, `escaped`, `notified`, `heard`, `made` and `chunks` are history
  and bounds: no guard of the code depends on them.

### Transactions, cursors, streams and the DB-API

These model the classes of `pq3.py` and `dbapi20.py` above `ProtocolConnection`: a protocol transaction is
pushed, completed by whatever comes next on the connection, and its error is raised to that caller.

`TransactionBlocks` is `Transaction`. The server is a stack of `levels`, the block and its savepoints, with
the work of each; `pq` is what the client has of it, the last Ready and a chunk requested ahead.

| Code | Actions |
|---|---|
| `__enter__`, `start` (2112-2190): START TRANSACTION or SAVEPOINT, by `pq.state`; a configured savepoint is refused | `Start` |
| any statement of the application; the Execute of the next chunk that `MultiXactStream` pushes | `Statement`, `RequestAhead` |
| `commit`, `rollback` (2204-2240) called inside the block | `CommitCalled`, `RollbackCalled` |
| `__exit__` (2116-2145), without or with an exception, or one that is not an `Exception` | `ExitBlock` |

`Execute` is `Connection.execute` with all it may meet: the error of what was pending, the answers of the
server (a COMMIT may be refused by a deferred constraint), the end of the connection before or after the
server has acted. `excused` names the blocks for which the documentation, or an exit that sends nothing, gives
up the promise: a `commit()` of a failed block, one that was refused, an exit by KeyboardInterrupt, and an
exit with an unread error of a chunk requested ahead (see Observations).

`Cursors` is `Cursor.read` and `seek` as the FETCH and MOVE commands they send, for a cursor whose direction
may be turned at any time. `ScrollableCursor` says what `api.Cursor` promises, without commands and without
inversion; `Mirror` maps one to the other by reading a backward cursor from its other end. `Inverted` limits
the whences the caller uses on a backward cursor to those whose inversion is right; the other two are an
observation below.

`Streams` is `FetchAll` and `MultiXactStream` in and outside of a block: `Open`, `NextChunk`, `Step` and
`NextGroup`, and `OtherCall`, by which anything else on the connection takes over what is pending. `DbApi`
extends it with `Cursor` and `Connection` of `dbapi20.py`: `FetchBy` is the common loop of `fetchone`,
`fetchmany` and `fetchall` with a step for each chunk, `CommitDb`, `RollbackDb`, `AutocommitOn` and
`AutocommitOff` end portals with their block.

`SettingsCache` is `Settings` and `SettingsCM`: `SetItem`, `DelItem`, `Get`, `EnterSettings`, `ExitSettings`
against the session's parameters, of which the server reports some. `untold` is what SQL or the end of a
transaction changed without a report; no client can know it, and the property leaves it out.

`TypeResolution` is `TypeIO`: `Resolve` is `resolve`, recursive over domains, arrays and composites, with the
cache it fills on the way; `ReadValue` prepares a statement and reads a value, `Identify` and `AlterType` (of
any session) change what is cached. A routine is a record of what it takes its data for.

### Establish

`_establish` (pq3.py:2414-2550) with `client3.Connection.connect`, `negotiate_ssl` and the generator of
`xact3.Negotiation`: `CreateSocket`, `ConnectSocket`, `NegotiateSSL`, `Negotiation` (a reply a step), and
`SkipAttempt`, for the attempts that the code thinks hopeless. What is at an endpoint is chosen in
`EstablishInit` and says how it answers to SSL and to a start-up on each channel. Passwords are not modelled,
only the channels (`told`) they were sent over; `Following` is what the generator expects after a reply, and
`ServersAssumption` says of a server that what it says is a negotiation: it ends, and with Ready only when
Ready is due. `crashed` are endpoints whose attempt ended with an exception
after the socket was connected: for those the code's comment gives up the plain attempt.

### Messages, MessageBuffers

`Messages` has the layout of each class of `element3.py` as a list of fields, with one serialiser and one
parser over it. `MessageBuffers` is `cat_messages` and the stream buffer twice: `impl = "c"` follows
`element3.c` (runs of one class, whose length is allocated before they are written: a byte that is never
written or cut off would show) and `buffer.c` (a list of chunks with an offset); `impl = "python"` follows
`pbuffer.py` (one buffer that is truncated from time to time). `Write` delivers any piece, `ReadStream`,
`NextMessage` and `HandOver` (`getvalue`, `truncate`, `write`, as copyman uses them) read it. Both are shown
to implement `MessageStream`. A byte is a digit of base 16, a long number two of them, so that numbers of two
bytes and their limits occur in short messages; the codes of types are no digits, so a lost alignment is seen.

### CopyTransfer, Notifications, ALocks

`CopyTransfer` takes the bytes of the source's socket in chunks cut anywhere (`Confiscate`, `RecvView`),
follows them with `WireState` (`Update`, alike in C and in Python), sends them to the receivers
(`ServiceReceivers`, any of which may fail after any byte), reconciles, and ends in one of the three ways a
`with` block can (`RunEnds`, `Raised`, `Broken`); `Realigned` is `realign()`.

`Notifications` is one turn of the loop of `NotificationManager.__next__` a step, `Emit`, `Stop`, `TimedOut`,
`Turn`, with servers that notify at any time and a caller who queries, closes, adds and removes connections
and sets the timeout between two calls.

`ALocks` is `acquire`, `release` and `locked` over the SQL functions of `libsys.sql`; a blocking acquire waits
for one identifier after the other (`Grant`) and may fail between them (`AcquireFails`). What one statement
does to a list of identifiers is stated for each identifier by how often it is listed (`Times`): n unlocks of
what is held h times leave h - n, or 0 with warnings.

### ClusterControl, ConfigFiles, Temporal, ClientParameters

`ClusterControl` has the methods of `Cluster` as stacks of frames, one look at the system (`Poll`,
`ReadPidFile`, `Probe`, `ReadPid`, `Signal`, ...) a step, since processes end, pid files appear and pids are
taken again in between (`HostStep`). `mine` are the servers the object has started.

`ConfigFiles` parses a line by its characters (`ValueIn`, `Unquote`), elects the line that gets the new value
(`Elected`), comments out the others and writes line by line (`WriteLine`), with a crash in between. `Reads`
is how the server reads the file.

`Temporal` is `init`, `push`, `pop`, `new` and `destroy`, with an error or interrupt of each clean-up
(`mishaps`), and `Collect`, since a connection nobody refers to is closed by the collector.

`ClientParameters` runs the chain of sources through `extrapolate` one item a step (`ConfigItem`, `Parameter`,
`Locator`, `PgService`), and ends with `ResolvePassword` and the password file.

### MC modules and proofs

`MCBillingWorkers` and `MCClusterTest` define the host lists and the symmetry sets, `MCProtocolConnection` the
batches of `pq3.py` and what the server may return for them. `MCConnections` joins two instances of
`ProtocolConnection`: `part` chooses one in the initial state. `MCDriver` does the same for the driver's
parts: a behaviour takes one of them and the others rest in one of their initial states, so the states of a
run are the sum and not the product of the parts. `DbApi` shares its variables with `Streams` and runs in
composition with it.

The modules that end in `Proofs` hold the proofs: `BillingCountProofs` (the worker threads), and above it
`ClusterTestProofs`; `TransactionBlocksProofs`; `DriverProofs` (settings, cursors, establish, cluster control,
temporary clusters and advisory locks); `StreamsProofs` (streams, the DB-API over them, and notifications);
`ProtocolTransactionProofs`, lemmas about one protocol transaction and the server that answers it, and above
it `ProtocolConnectionProofs`. `InductionLemmas` has what the others need about numbers and finite sets: a
smallest and a greatest of a kind, induction over the subsets of a finite set, the laws of sums, and that a
fold over a sequence is the end of a run of its steps.

## 4. The runs

| Run | Question | What it shows |
|---|---|---|
| workers_failover | two threads behind haproxy, one fault of any kind | types, no false acknowledgement, surplus commits explained, locks and COMMITs consistent, final difference explained |
| workers_switchover | servers named directly, one thread, two faults (switchover, crash, ETIMEDOUT in a connect), two drops while there is no primary, eight sessions so that none is refused | the deque keeps its hosts; leaked sessions bounded by the faults and those drops: the bound of 5 is reached |
| workers_stop | behind haproxy, one fault (the server may crash and come back), a signal; liveness | no abandoned transaction; every thread ends |
| test_signals | whole process, two signals anywhere | fewer than `threads_num` tasks too many begin, the verdict only after all threads, the log complete, signals obeyed, the process ends unless the main thread died |
| test_faults | whole process, one fault, crash included, from the creation of the tables on | the logged verdict is explained at the moment it is given |
| test_replica | servers named directly, one fault and one signal | the process ends unless the main thread died: also when a replica is met first |
| conn | two instances of the protocol connection. Statements: two transactions of the batches of `execute`, `prepare`, `first`, cursors and row loading, errors anywhere, notices and a notification, the Python fast paths. Faults: COPY in both directions and streamed rows, garbage, the server process ends anywhere, the C fast path | replies go to their commands, client and server are in step and agree on the transaction status whenever the connection is free, no asynchronous message is lost or repeated, no error is forgotten, a dead connection is not used again |
| conn_return | liveness, a COPY that fails before its data included | every method comes back |
| driver | each part of the driver above and beside the protocol, on an instance of its own | see below |
| conn_doc_copy | a sentence of the driver's comments | violated, see Findings |
| driver_alock_count | a sentence of a docstring | violated, see Findings |
| readme_continue | a sentence of `README.md` | violated, see Findings |

The properties of `driver`, one or two for each part:

| Property | Part | What it shows |
|---|---|---|
| `DurableAsTold`, `BlockEnds` | TransactionBlocks | the work of blocks that say "committed" is durable, and no other unless the connection was lost; the outermost `with` ends the transaction |
| `CursorMirrors` | Cursors | `read` and `seek` are those of a position among rows, forward and backward |
| `StreamsComplete` | Streams | a stream gives its rows in order and each once, and ends early only if some caller got its error |
| `DbApiPromises` | DbApi, Streams | the same for any mix of fetches; the connection is in a block exactly when it says so, but after a refused COMMIT |
| `CacheTruthful` | SettingsCache | the cache has the session's values; `settings` blocks put back what they found |
| `TypesUnderstood` | TypeResolution | cached routines are whole, values are read by the routines of what they are made of, only recursive types are refused |
| `EstablishedAsAsked` | Establish | `sslmode` is respected, `security` is true, no attempt is skipped that would have succeeded |
| `DeliversWhatWasSent` | Messages, MessageBuffers | both implementations are `MessageStream`, however a batch is cut |
| `CopyAligned` | CopyTransfer | whole messages on every side; "copied" only if each receiver was completed; all data at each of them if the transfer came to its end |
| `NotifiesInOrder` | Notifications | each notification is somewhere, once, in its place; a connection has one event waiting at most; the loop does not end with some left in `.notifies` of a connection that was closed and set aside |
| `HeldAsCounted` | ALocks | between calls a session holds what its lock objects say, no more and no less |
| `KeepsItsServer` | ClusterControl | the handle of a living server is never lost; "stopped" and "dropped" are true |
| `ConfigAsAsked` | ConfigFiles | the server reads what was asked, and for the rest what it read before |
| `SandboxesEnd` | Temporal | names, connections and schemas belong to their block and end with it |
| `StrongestSourceWins` | ClientParameters | the order of the sources, and the password of the result |

Bounds. Two threads suffice for each race of two parties (deadlock of two transfers, orphan against retry,
load against store). Two accounts force every pair of transfers to conflict. Two hosts make a switchover and a
failover, and the deque rotates through both; `workers_stop` and `test_signals` have one, which crashes and
comes back in the first and has no faults in the second: behind haproxy a second host changes what is lost, and
not whether threads end. `Remains = 1` is any table whose sum is not `accounts * 100`. `MaxBlind` is 0 behind
haproxy, where no replica is reached, and 1 or 2 otherwise: the second drop shows that the first leaves a
thread able to make another. `ReconnectAttempt = 1` lets attempts reach the limit and
rotation begin. One fault (`MaxFaults`) can fall into any step, and is enough for every except clause to be
reached; a failover after it is not a fault of its own. Three or more sessions leave one for the retry beside
the orphan; "too many clients" is reached where more leak. `Operations` is 1 or 2: the first and the second
task of a connection differ (`db_local` is `None` or not), further ones do not. Symmetry over threads and rows
is used in safety runs only; hosts are ordered by the deque and are not symmetric.

In the protocol runs two transactions show what one leaves to the next; results hold two rows or chunks, so
that a fast path is entered and stayed in, and reads cut them everywhere. One chunk of COPY FROM STDIN is
enough for data to be refused before, with and after it. One end of the server may fall into any step; the
connection is not reopened.

In `driver` each part has the smallest instance in which its cases occur. Three blocks and two statements nest
a savepoint in a savepoint with work on two levels. Three rows with reads of up to five go past both ends. Two
streams of up to three rows in chunks of two: a full chunk, a short one, an empty one, and a second reader in
between. Two notifications on each of two connections. A reported and an unreported parameter with two values
and two nested blocks. Two endpoints with every pair of twelve kinds of server. Batches that hold every
layout, with numbers and strings at their limits, in up to three pieces cut anywhere. A short and a long row,
which does not fit in a chunk of the receive buffer, with a notification and an error between, to two
receivers, one of which may fail once. Two pids and three calls are enough for the pid of a server that ended
to be taken by another process while a call is between two looks. Files of two lines make the election of a
line; two levels and four connections make nesting and leftovers in `Temporal`. `ALocks` has two sessions with
two objects each that share identifiers, one named twice, and `MaxCount = 1`: with 2, release breaks the
property, which is the finding of `driver_alock_count`.

Fairness. Weak fairness of each thread and of the main thread: the operating system schedules them, and every
wait in the code is a wait for a server. Weak fairness of the logger thread: it sleeps a fixed time between
flushes. Weak fairness of `Patroni` (a failed primary is replaced or comes back) and, for each session, of
`ServerCommit` and `ServerNotices`: servers carry out what they received, and detect clients that are gone;
these are assumptions on the environment. Strong fairness of the second `LockRow` of a thread: PostgreSQL
queues waiters for a row and hands it to one who waits, so a thread is not overtaken for ever. No fairness on
faults, signals, replication or cancellation. In `conn_return`, weak fairness of the connection's methods,
which run on without waiting for anything but the socket, and of the server working off what it was sent
(environment); none on the caller, who need not call anything. Its next-state relation is `NextUnnotified`,
without notifications between transactions: no call waits for one, and leaving them out only removes steps
that come from outside. No liveness is claimed for the parts of `driver`: their calls end when the protocol
connection's do.

Every property has a mutant in `PROJECT.json`: a plausible slip in one definition under which the run finds
the property violated. Several mutated operators (`...NotReset`, `...OneMore`, `...Skipped`) stand beside the
definitions they replace, for that use only.

### Findings

- README.md:576 says that the backend should continue work through session terminations and restarts. A
  session terminated between a DeadlockError and the `ROLLBACK` of its handler (backend.py:265) ends the
  worker thread (`readme_continue`).
- A COPY FROM STDIN that fails before the server has read past the Execute is followed by one Ready too many,
  which ends the next transaction (`conn_doc_copy`, xact3.py:602-610). The same schedule does not block any
  caller (`conn_return`).
- An `ALock` that was acquired twice and released once has let go of the lock at the server while `locked()`
  is true (`driver_alock_count`, alock.py:107).

Observations met while modelling that no run singles out:

- README.md:585 says that a positive difference means lost transactions. The code adds 1 per commit and
  subtracts the expected number, so lost commits make it negative and repeated ones positive; this is the sign
  `VerdictExplained` uses.
- `cluster_specific_execute` (backend.py:399) catches fewer errors than `worker_func`: a connection lost
  during initialisation or validation ends the main thread and leaves the logger thread, hence the process,
  running. `EndsUnlessMainDied` excepts it.
- `step()` at the end of the stream gives `put_copydata` an empty group: IndexError instead of the error just
  stored in the transaction (client3.py:415). `PqStepReceive` models it. With the C fast path `put_tupledata`
  does not raise there and returns the transaction, fatal, to `standard_put`.
- `first()` of a COPY FROM STDIN (pq3.py:1655-1674) pushes a Close behind the Execute. The sequences of
  xact3.py:602-610 would send it twice, and one Ready too many follows, as in `conn_doc_copy`.
- `_load_tuple_chunks` drops the server's error when the caller's iterable raises (pq3.py:1820);
  `ErrorsReported` counts it as swallowed by `synchronize`.
- `step()` does not look at the result of a write, so one step with `CopyFailSequence` bound would bring a
  transaction the socket error has ended back to receiving; no caller takes that step.
- A lost commit can hide a repeated one, so "successful" does not exclude either (`VerdictExplained` bounds the
  sum only); a worker dies of an ETIMEDOUT in the SSL negotiation of a connect; connections replaced by a worker
  stay open until the process ends. `LeaksBehindProxy` bounds them by the faults (it is proved, and no run
  repeats it). For two servers named directly `LeaksBounded` bounds those dropped while there is a primary, as
  long as sessions are left at each server; how many are dropped while there is none (backend.py:272-283)
  nothing in the program bounds. With three servers, or where the limit of a server is reached, the threads that
  rotate may drop more, up to the servers' limit.
- The test starts before any replica has the new table. If the primary fails that early and the new one still
  has the table of an earlier test, the transfers go on in that table, and the verdict counts from its sum: it
  can be "successful" with transfers lost. If it has no table, each thread ends with UndefinedTableError, and
  so does the main thread. `VerdictExplained`
  counts from the old table by `Left`, and leaves out a primary without one.
- In `VerdictExplained` `Lost` is on both sides of what the program reads: a failover that drops commits
  satisfies it. It says that nothing else is missing; that the loss shows in the verdict is not promised, since
  a repeated transfer may hide it.
- Of two equal notifications in one read the second is dropped (xact3.py:525), since asynchronous messages are
  remembered by value; documentation/notifyman.rst:84-86 promises each of them. `Repeated = FALSE` keeps the
  payloads of `conn` distinct.

In the driver, by place. The models follow the code in all of them, and each property says what it leaves out:

- pq3.py:1171-1180: on a cursor whose direction is backward, `seek(k, 'FORWARD')` and `'BACKWARD'` become MOVE
  ABSOLUTE, against driver.rst:1035-1036 and api.py:304; `Inverted` leaves these calls out.
- pq3.py:2128-2141: if a chunk requested ahead has failed and nothing read its answer, `__exit__` gets that
  error from COMMIT, which is then not sent, and the server's block stays open (driver.rst:1349-1351 says that
  it is committed or rolled back depending on the exception and on the error state of the connection).
  `excused` leaves these blocks out. A `commit()` that a deferred constraint refused and that is called again
  succeeds as a COMMIT without a transaction and marks the block committed.
- pq3.py:1003-1060: `__next__` does not look at the fatal state of a request whose error another caller was
  given; a chunk that was received is lost if the push of the next request raises the error of another stream
  (`StreamsComplete` asks that some caller was told).
- pq3.py:1971: after ROLLBACK, or SQL, the cache of a parameter the server does not report is stale, and
  `settings[k] = v` then sends nothing although the session has another value (`untold`).
- pq3.py:2483-2517: with `sslmode=prefer` a failed handshake also skips the plain attempt (as the comment
  there intends); an error of the socket in `negotiate_ssl` leaves `_establish` without a try of the other
  endpoints.
- pq3.py:216-240: a recursive type is a TypeError for ever; an array or a composite that was cached before
  `identify()`, or an ALTER TYPE, keeps its old routines (`outdated`); `type_from_oid` of an oid that is not
  cached is an UnboundLocalError. pq3.py:1547-1552 takes an oid for the routine that decides on the format of
  an input.
- dbapi20.py:327-338: `autocommit = False` while a pushed request has failed raises with `_xact` kept but not
  started; `commit()`, `rollback()` and `autocommit` then raise or do nothing for ever. dbapi20.py:370-382:
  after a COMMIT that was refused, statements run outside of any block until `rollback()` (`refused`).
- copyman.py: a `break` out of the iteration between two messages when the source has already sent everything
  ends the receivers with CopyDone and part of the data and raises nothing, where copyman.rst:231-233 says
  that CopyFail is raised. `CopyAligned` therefore speaks of transfers that came to their end.
- notifyman.py: with a timeout of 0 the loop stops before `_wait_on_wires`, so it yields only what other
  queries have collected (against test_notifyman.py:62).
- alock.py: a blocking acquire that fails keeps the locks of its first identifiers (`broken`).
- cluster.py:645: `wait_until_stopped` of a server this object has not started raises TypeError or OSError if
  it stops between two looks; `stop()` right after `start()` signals the pid of a stale file (130-139);
  `start(settings=...)` appends to a tuple.
- configfile.py: names are matched without regard to case when written and with it when read; a line without
  "=" is not seen; the file is truncated and written in place, so a crash leaves a part of it
  (`CrashWriting`); `__delitem__` calls `_save` without its argument; `alter_config` of an empty file is an
  IndexError.
- temporal.py:70: `destroy` uses `cluster` before it is assigned, so no backend is terminated and a stop with
  open connections times out, which skips `drop()`; 'new' is not among the restored names and leaks; after an
  interrupt the next block fails once, since its schema exists; an error after the start of the server in
  `init` leaves it running.
- clientparameters.py:190-192: PGREQUIRESSL=1 makes `sslmode` the pair `('require', 'PGREQUIRESSL=1')`, which no
  connection accepts (pq3.py:2472), where the docstring (171) says that it becomes `'require'`. PGTZ and three
  more variables for `settings` are collected and not yielded (204-206, against 177-180). `EnvSays` is what the
  docstring says, and `StrongestSourceWins` leaves out the keys such a variable decides (`Misread`).
  iri.py:45-49 cuts the brackets of an IPv6 host twice.
- `read(n)` of the C buffer raises for an invalid header behind the messages it was asked for, the Python one
  does not.

## 5. What is proved

By TLAPS, for all values of the constants that satisfy `ConstantsAssumption` (and `SignalsAssumption`):

- `TypeCorrect`: `Spec => []TypeOK`. `TypeOK` alone is not inductive: that `db_hosts` is never empty (`Head`
  and `Tail` are applied to it; `HostsAreKept` says so for good) and that attempts stay below the limit while a connection attempt is possible
  are the added conjuncts of `TInv`.
- `AckedIsCommitted`, `NothingAbandoned`: from `SInv`, which ties a thread to its one session: a session in
  use has an owner (`HasOwner`), a thread drives only sessions it owns (`OwnsConnection`), a commit whose
  answer is not yet read is not yet counted (`AnswerUnread`), a thread that is locking rows on a live link has
  an open transaction (`OpenWhileLocking`). Without `OwnsConnection`, an abort by one thread could close the
  transaction of another.
- `HostsAreKept`: from `PlaceInv`, where in the rotation each thread is.
- `LeaksAreBounded`: an argument by a potential. Threads are `Exposed` while they may meet a replica: on the way
  to one, connected to one, or about to be sent there by a link that was lost. `LeakInv` bounds the sessions
  left open, the exposed threads and the cancel requests together. The end of a primary, by switchover or
  crash, exposes every thread, and is one of the faults; while there is no primary they all stay exposed, and
  each drop adds 1 to `blind`; once there is one, a drop sends its thread to the other server, which is the
  primary, and takes it out. `UnnoticedInv` pays for sessions whose server has not noticed a broken link,
  `TwoInv` says where the two servers are in the rotation, `PlaceInv` that no session outlives its server's
  stop. The theorem assumes nothing of how long there is no primary: `blind` is whatever it was.
- `DuplicatesAreExplained`: from `CountInv`, a balance per thread of commits applied, acknowledged, unknown
  and still possible, orphaned sessions included.
- `VerdictIsExplained`: the sums of those balances over the threads, by the laws of sums of `InductionLemmas`.
  Which table the primary has enters by `Left` on both sides; a host without one is excluded by the property.
  The theorem has at least one thread: with `threads_num = 0` the verdict is "not successful" without a fault.
- `CounterIsBounded`: from `CounterInv`: the threads between the test of the counter and its increment are at
  most `Cardinality(Workers)`, by the finite-set theorems.
- `LocksMatch`: from `RowsInv`: between START TRANSACTION and COMMIT the rows held and the rows wanted
  together are two different rows; a COMMIT finds both held.
- `WorkersStayCorrect`: the steps of `ClusterTest` preserve `TInv /\ SInv`; the main thread changes the flag,
  the cancel requests, the count of faults and the primary's table at most (`MainStepDisturbs`).
- `VerdictComesLast`, `GivenVerdictIsExplained`: from `PhaseInv`, the order of the phases of the main thread,
  and `StoppedTakesNoStep`; the second with the balance, at the moment of the log line, and with `ReadsPrimary`:
  behind haproxy a link of the main thread that is up leads to the primary, through failovers too.
- `LogIsComplete`: from an invariant that follows each line from the thread that wrote it through the queue
  of the logger to the file.

Of the driver, under the assumptions of the module in question:

- `ProtocolTypesOK`, `RepliesAlwaysMatch`, `AlwaysInSync`, `StateAlwaysAgrees`, `FailuresAlwaysKnown`,
  `NotificationsAlwaysComplete` (`ProtocolConnectionProofs`): the six properties of `conn`, for any batches and
  results that satisfy `ProtocolAssumption`, any number of transactions, chunks, notifications and ends of the
  server, and any grouping of the messages. They assume `~EarlyCopyErrors`: where a COPY FROM STDIN can fail
  before its data, client and server get out of step, which is the finding `conn_doc_copy`.

  The first five are not near inductive: they speak of the moment when nothing is under way. `Inv` says for every
  other moment what is: the transaction was not sent yet (`Starting`), is dead (`Dead`), or is `Live`. `Live`
  ties client, wire and server together. A place is a command of the batch and a step of its hook; `Track`
  says that a sequence of messages takes a transaction from place to place; `Live` that everything the server
  has sent and the client has not read leads it from where it is to the place `e` from which the server works:
  it will answer the command there (`Answering`), is skipping to the Synchronize, or is in a COPY FROM STDIN.
  What the server answers extends the track at its end (`LiveServes`); what the client reads, in groups of any
  size, shortens it at its beginning (`LiveReads`); losing messages with the server shortens it at its end
  (`LiveLoses`). When the client is behind the last command, the track is empty: client and server are in
  step.

  That the client follows the track is the lemma on `standard_put`: a fold over the messages of a group. The
  prover cannot take a step of the fold as a parameter of an induction theorem; `FoldsExist` and `FoldsUp`
  turn the fold into a run, a function on the numbers up to the length of the group, and induction over
  numbers, for the one set of numbers at which the run is on the track, does the rest.

  `NotificationsAlwaysComplete` assumes `~Repeated` too: that no two asynchronous messages are equal. It is
  false without it (section 4: xact3.py:525 passes over the second of two equal ones), and `AsyncAssumption`
  says what it means: a result has a notice or notification of a kind once, and no notification that comes by
  itself is one that answers a command. `AsyncInv` follows the messages. `HeardInv`: what `asynchook` was given
  and the asynchronous messages of the inbox make up what the server sent, and none is twice in the inbox;
  `PutHears` shows that what a group gives to `asynchook` are those of the part of the group that was taken,
  on the slow path and on the fast ones. That no two in the inbox are equal is not inductive: a command that
  stood twice on the wire would be answered twice. `AskedInv` says that none does, that what was answered is
  not on the wire any more, and that the commands of a transaction that is yet to be sent (`Unsending`) are
  neither. Once the server or the socket is gone nothing is promised, since a crash may lose what was on its
  way: then no transaction is taken any more, or the server is not ready, and the property asks nothing.
- `BlocksTellTheTruth`, `BlocksEnd` (`TransactionBlocksProofs`): `DurableAsTold` and `BlockEnds` for any
  blocks and statements. From `BInv`. `DurableAsTold` speaks of the moment when no transaction is open, and
  nothing of how the work got there; `BInv` follows it. `StatusOf` says what the last Ready tells of the
  server (all that it has, but for an unread error of a chunk requested ahead). `LevelsOrdered`,
  `WithsOrdered`, `BlocksInOrder`, `LevelsOpen` and `NoneAbove` tie the levels of the server to the `with`
  statements. `Pending` says that as long as work is on a level, each block around its statement has a level
  at or below, or has said "committed" already; `DurableTold` and `LostTold` say what holds once it is gone.
  Without `LevelsOrdered`, RELEASE of one block could hand work to a level that an outer block does not own.
  `BlocksAssumption` asks that blocks are numbers and that `None` is none of the answers.
- `CacheIsTruthful` (`DriverProofs`, as the next five): `CacheTruthful` from `SInv`, which adds that a block
  entered when the client knew everything has stored the real values (`StoredReal`): what it restores rests on
  that.
- `CursorsMirror`: `Cursors` implements `ScrollableCursor` for any number of rows and any calls that satisfy
  `CallsAssumption` and `InvertedAssumption`: initial states map to initial states, every step to a step or a
  stutter, given only `InRange`.
- `FirstAttemptTaken`: `EstablishedAsAsked` for any number of endpoints and any servers. `SecurityAsAsked`,
  its first half, follows from `EInv`: the attempts that are left are those the mode allows, the channel of an
  attempt is what was negotiated, and a connection comes of a greeted attempt. What goes over a channel is
  decided two steps earlier, so the property alone is not inductive. `FirstThatAccepts`, the second, follows
  from `EInv` and `FInv`: each attempt before the current one is `Hopeless` (its server does not accept it, or
  its socket broke), and so is the next one whenever `canSkip` is set. The latter rests on `FactoriesAre` (of
  two ways the second follows the first, at the same endpoint) and on what is known of the attempt that fails
  (`Converses`: the server is there, the channel shows what it answered to SSL, and the replies read so far
  have led to the current stage), so that its failure decides what would become of the next.
  `ServersAssumption` is used there only.
- `ServerIsKept`: `KeepsItsServer` from `KInv`. The methods of `Cluster` call each other, so the invariant is
  about the stack: `Fits` says which method may have called which, `HeadRelies` what the method on top has
  seen and may rely on until its next look, and `HandleInv` that a server of the object is lost only dead.
- `SandboxesAlwaysEnd`: `SandboxesEnd` for any nesting and any mishaps, from `TInv`: no connection belongs to
  two levels (`Apart`: `pop` of one level would close what another has), there is a level for each block being
  executed, and the names are restored to what they were. `TemporalAssumption`: connections are numbers.
- `LocksHeldAsCounted`: `HeldAsCounted` from `HeldInv`, which says what a session holds while a blocking
  acquire is under way too: what its locked objects name, as a sum over the objects, and the identifiers that
  were granted so far. Releasing one object takes exactly its term out of the sum, so the 0 of an unlock of
  what is not held is never met. `MaxCount = 1` is a hypothesis, as in the run: with 2 the property is false,
  which is the finding `driver_alock_count`. `LocksAssumption`: finitely many objects, each of one session.
- `StreamsAreComplete` (`StreamsProofs`, as the next two): `StreamsComplete` for any streams, any number of
  rows and any size of chunks. What a stream returned is known to be a prefix of its rows only if it is known
  what is under way to it, so `SInv` says of each stream that it is `Sound`. One that is read by portal
  (`Chunked`) has, in the transaction that was pushed ahead, exactly the rows between what it returned and the
  position of its portal, a full chunk of them unless the rows are at their end or an error was reported. One
  that reads a single transaction (`Single`) has there a sequence of groups that `Split` the next rows without
  a gap, and the server the rest. At most one transaction is pending on the connection, that of `busy`: a
  stream that did not know this could take the answer to another for its own. `StreamsAssumption`: `None` is
  none of the streams, their kinds or their transactions, and a chunk has a row at least.
- `DbApiKeepsPromises`: `DbApiPromises` for any cursors and any mix of fetches. `DInv` is `SInv` with `PInv`:
  no stream has two portals (`EachOnce`), and what the callers of a cursor got, followed by what its portal
  has fetched and not given, is what the stream has returned (`Buffered`, by `Unfetched`): the buffer is cut
  and extended in three places (`ExtendedIsMore`, `KeptIsRest`), and a row lost or doubled in one of them
  would be seen only in a later fetch. Every action of `Streams` is shown again to keep that.
  `DbApiAssumption`: `None` is no number, no sequence of portals and no state of the transaction.
- `NotifiesAlwaysInOrder`: `NotifiesInOrder` for any finite set of connections, any order in which `select`
  reports them and any number of notifications. `NotifyInv` says where the notifications of a connection are:
  what was emitted, what is in its event of `.incoming`, what its `.notifies` holds and what is on the wire
  are, in that order, all that its server sent (`OnTheWay`). Two events of one connection would break that
  order (the wire is read between them), so the proof needs, and the property states, that there is never more
  than one; that rests on what a turn of the loop leaves: connections set aside, and in its second half all
  that are waited on, have empty `.notifies`. `NotifyAssumption`: finitely many connections; `None` is none of
  the states of the loop and no sequence of events.

Only model-checked: `DeliversWhatWasSent`, `CopyAligned` and `TypesUnderstood`, which are about what recursive operators
do with bytes, messages and types; `StrongestSourceWins` and `ConfigAsAsked`, about folds over the sources of
the parameters and over the lines of a file, for which an induction over data would be needed; `DriverTypeOK`,
the composition in `MCDriver` of the type invariants of the parts, since that module reaches the recursive
ones (those of the parts above are proved on their own); and all liveness (`EventuallyAllStopped`,
`EndsUnlessMainDied`, `SignalObeyed`, `CallsReturn`), which rests on fairness and ENABLED.

## 6. What is not modelled

- The roles of ansible (etcd, patroni, haproxy, keepalived, pgbouncer, certificates, preparation,
  installation): lists of tasks whose effect is decided by programs that are not in the repository.
  `BillingWorkers` models what a client sees of the result.
- `AppFileLock`: nothing creates one. `read_conf_param_value` and `match`: text.
- The conversions of `types/io`, `encodings`, `geometry`, `bitwise`: pure functions between bytes and values.
- `api.py`, `exceptions.py`, `message.py`, the Connector classes: declarations. What `api.py` promises is
  stated as properties of the classes that implement it. `bin/`, `string.py`, `versionstring.py`, `python/`:
  text and interactive tools; `resolved/`: third-party code; `port/signal1_msw.py`: the Windows shim.
- In modelled parts: the `except Exception` of `complete()` (client3.py:462-471), which ends a transaction at a
  programming error in the driver itself; the start-up and cancel packets, the C functions `process_tuple` and `process_chunk`;
  `StoredProcedure` and the variants of `load_rows` that differ in data only; `IteratorProducer`,
  `NullProducer` and `CallReceiver` of copyman, which need no alignment; `Cluster.init` and `encrypt`,
  `installation.py`, which run programs and read their output; `interrupt()`, whose effect is the server's;
  the rotation of the log files of `PSCLogger`. Two sides that both block on full socket buffers
  (client3.py:291) would need the sizes of the operating system's buffers.
- The tests and documentation of the driver were read as the reference for its behaviour.
