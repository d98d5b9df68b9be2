--------------------------- MODULE BillingWorkers ---------------------------
(***************************************************************************)
(* The worker threads of tools/pg_cluster_backend/pg_cluster_backend.py    *)
(* (worker_func) running billing transfers against the cluster they test. *)
(*                                                                         *)
(* Program state: the shared counter CLUSTERTEST.operation_num, the flag   *)
(* CLUSTERTEST.is_terminate, the dictionary CLUSTERTEST.db_conns, and the  *)
(* locals of each thread.  The cluster (hosts, sessions, row locks,        *)
(* replication, switchover and failover) is external: it is modelled by    *)
(* what a client of PostgreSQL under Patroni can observe of it.            *)
(*                                                                         *)
(* A transfer moves a random amount between two rows and adds 1 to the     *)
(* second one, so sum(balance) is accounts * 100 plus the number of        *)
(* transfers committed on the timeline: that number is all that is kept,   *)
(* with the table it was counted in: init_test_tbls_and_data makes a new   *)
(* one on the primary, and the other hosts first have to receive it.       *)
(***************************************************************************)
EXTENDS Integers, Sequences, FiniteSets, Functions

CONSTANTS
  Workers,          \* the threads, conf threads_num of them
  Hosts,            \* the servers behind the connection strings
  HostList,         \* db_hosts as first built from conf [databases]
  Proxied,          \* TRUE where they name haproxy, which leads to the primary
  Accounts,         \* the rows of public.accounts
  Sessions,         \* backend pids the servers can hand out
  Operations,       \* --operations
  ReconnectAttempt, \* conf reconnect_attempt
  AtomicIncrement,  \* TRUE where the interpreter does not preempt "+="
  Timeouts,         \* TRUE where a host can vanish while a client connects
  Crashes,          \* TRUE where the primary can crash
  Signals,          \* TRUE where the process can receive SIGTERM or SIGINT
  MaxFaults,        \* bound on the faults of the environment
  MaxBlind,         \* bound on the sessions dropped while there is no primary
  Remains,          \* what a table left by an earlier test differs by, below
  None              \* no session, no host, Python's None

ASSUME ConstantsAssumption ==
  /\ IsFiniteSet(Workers)
  /\ HostList \in Seq(Hosts) /\ HostList # <<>>
  /\ Operations \in Nat /\ ReconnectAttempt \in Nat
  /\ MaxFaults \in Nat /\ MaxBlind \in Nat /\ Remains \in Int
  /\ AtomicIncrement \in BOOLEAN /\ Timeouts \in BOOLEAN
  /\ Crashes \in BOOLEAN /\ Proxied \in BOOLEAN /\ Signals \in BOOLEAN
  /\ Sessions \subseteq Nat
  /\ None \notin Sessions /\ None \notin Hosts /\ None \notin Workers

VARIABLES
  operation_num, is_terminate, db_conns,        \* shared by the threads
  pc, loaded, db_local, reconnect_attempt, db_hosts, \* locals of each thread
  want,                                         \* rows each has still to lock
  primary, up, tables, ledger, lock, owner, host, txn, link, cancel, faults, \* cluster
  started, acked, applied, unknown, blind       \* history, see below

(* started: tasks begun by all threads; acked[w]: tasks w saw committed;   *)
(* applied[w]: commits the servers made for w; unknown[w]: COMMITs whose   *)
(* outcome w never learned because the connection was lost; blind:         *)
(* sessions the threads dropped on replicas while there was no primary.    *)
(*                                                                         *)
(* tables[h]: whether the public.accounts of h is the one this test made,  *)
(* one of an earlier test with the same conf, whose sum(balance) is        *)
(* accounts * 100 + Remains, or none.  ledger[h][w]: the transfers of w in *)
(* the sum(balance) of h.                                                  *)

sharedVars == <<operation_num, is_terminate, db_conns>>
threadVars == <<pc, loaded, db_local, reconnect_attempt, db_hosts, want>>
nodeVars   == <<primary, up, tables, ledger, faults>>
sessVars   == <<lock, owner, host, txn, link, cancel>>
history    == <<started, acked, applied, unknown, blind>>
vars == <<sharedVars, threadVars, nodeVars, sessVars, history>>

InTxn    == {"lock", "commit"}
Working  == {"work", "begin", "rollback"} \cup InTxn
Stopped  == {"finished", "returned", "dead", "no_close"}
PCs      == {"test", "load", "store", "close"} \cup Working \cup Stopped

SharedTypeOK ==
  /\ operation_num \in Nat /\ is_terminate \in BOOLEAN
  /\ db_conns \in SUBSET Sessions

ThreadTypeOK ==
  /\ pc \in [Workers -> PCs] /\ loaded \in [Workers -> Nat]
  /\ db_local \in [Workers -> Sessions \cup {None}]
  /\ reconnect_attempt \in [Workers -> 0..ReconnectAttempt + 1]
  /\ db_hosts \in [Workers -> Seq(Hosts)]
  /\ want \in [Workers -> Seq(Accounts)]

NodeTypeOK ==
  /\ primary \in Hosts \cup {None} /\ up \in SUBSET Hosts
  /\ tables \in [Hosts -> {"none", "old", "new"}]
  /\ ledger \in [Hosts -> [Workers -> Nat]]
  /\ faults \in 0..MaxFaults

SessTypeOK ==
  /\ lock \in [Accounts -> Sessions \cup {None}]
  /\ owner \in [Sessions -> Workers \cup {None}]
  /\ host \in [Sessions -> Hosts]
  /\ txn \in [Sessions -> {"gone", "idle", "open", "commit", "committed"}]
  /\ link \in [Sessions -> {"up", "reset", "shutdown"}]
  /\ cancel \in SUBSET Sessions

HistoryTypeOK ==
  /\ started \in Nat /\ acked \in [Workers -> Nat]
  /\ applied \in [Workers -> Nat] /\ unknown \in [Workers -> Nat]
  /\ blind \in 0..MaxBlind

TypeOK == SharedTypeOK /\ ThreadTypeOK /\ NodeTypeOK /\ SessTypeOK /\ HistoryTypeOK

InitButTables ==
  /\ operation_num = 0 /\ is_terminate = FALSE /\ db_conns = {}
  /\ pc = [w \in Workers |-> "test"] /\ loaded = [w \in Workers |-> 0]
  /\ db_local = [w \in Workers |-> None]
  /\ reconnect_attempt = [w \in Workers |-> 0]
  /\ db_hosts = [w \in Workers |-> HostList]
  /\ want = [w \in Workers |-> <<>>]
  /\ primary \in Hosts /\ up = Hosts
  /\ ledger = [h \in Hosts |-> [w \in Workers |-> 0]]
  /\ lock = [a \in Accounts |-> None]
  /\ owner = [s \in Sessions |-> None]
  /\ host = [s \in Sessions |-> HostList[1]]
  /\ txn = [s \in Sessions |-> "gone"] /\ link = [s \in Sessions |-> "reset"]
  /\ cancel = {} /\ faults = 0
  /\ started = 0 /\ acked = [w \in Workers |-> 0]
  /\ applied = [w \in Workers |-> 0] /\ unknown = [w \in Workers |-> 0]
  /\ blind = 0

\* What the hosts have when init_test_tbls_and_data is called ...
TablesBefore == \E before \in {"none", "old"} : tables = [h \in Hosts |-> before]

\* ... and when it has returned.
TablesCreated ==
  \E before \in {"none", "old"} :
    tables = [h \in Hosts |-> IF h = primary THEN "new" ELSE before]

Init == InitButTables /\ TablesCreated

-----------------------------------------------------------------------------
(* Helpers *)

RotatedMissingAppend(q) == Tail(q)
Rotated(q) == Append(Tail(q), Head(q))   \* popleft(), then append()

Freed(S) == [a \in Accounts |-> IF lock[a] \in S THEN None ELSE lock[a]]

OnHost(h) == {s \in Sessions : host[s] = h /\ txn[s] # "gone"}

FreeSession(s) == txn[s] = "gone" /\ \A w \in Workers : db_local[w] # s

Goto(w, from, to) == pc[w] \in from /\ pc' = [pc EXCEPT ![w] = to]

LinkUp(w) == db_local[w] # None /\ link[db_local[w]] = "up"

\* Where the do_work loop goes: it connects only when db_local is None.
DoWork(w) == IF db_local[w] = None THEN "work" ELSE "begin"

Fault == faults < MaxFaults /\ faults' = faults + 1

LinkIn(w, kinds) == db_local[w] # None /\ link[db_local[w]] \in kinds

-----------------------------------------------------------------------------
(* worker_func: taking a task off the shared counter *)

TasksLeftOneMore == operation_num <= Operations
TasksLeftOneLess == operation_num + 1 < Operations
TasksLeft == operation_num < Operations

Test(w) ==
  /\ Goto(w, {"test"}, IF TasksLeft /\ ~is_terminate THEN "load" ELSE "close")
  /\ UNCHANGED <<sharedVars, loaded, db_local, reconnect_attempt, db_hosts, want,
                 nodeVars, sessVars, history>>

Load(w) ==
  /\ ~AtomicIncrement
  /\ Goto(w, {"load"}, "store")
  /\ loaded' = [loaded EXCEPT ![w] = operation_num]
  /\ UNCHANGED <<sharedVars, db_local, reconnect_attempt, db_hosts, want,
                 nodeVars, sessVars, history>>

Store(w) ==
  /\ \/ Goto(w, {"store"}, DoWork(w)) /\ operation_num' = loaded[w] + 1
     \/ AtomicIncrement /\ Goto(w, {"load"}, DoWork(w)) /\ operation_num' = operation_num + 1
  /\ started' = started + 1
  /\ loaded' = [loaded EXCEPT ![w] = 0]
  /\ UNCHANGED <<is_terminate, db_conns, db_local, reconnect_attempt, db_hosts, want,
                 nodeVars, sessVars, acked, applied, unknown, blind>>

(* The head of the do_work loop: connect, if there is no connection. *)

Rotating(w) == reconnect_attempt[w] >= ReconnectAttempt

HostsToTry(w) == IF Rotating(w) THEN Rotated(db_hosts[w]) ELSE db_hosts[w]

AttemptsMadeNotReset(w) == reconnect_attempt[w]
AttemptsMade(w) == IF Rotating(w) THEN 0 ELSE reconnect_attempt[w]

\* The server a connection to the first host of the deque reaches, if any.
Target(w) == IF Proxied THEN primary ELSE Head(HostsToTry(w))

Connect(w) ==
  /\ db_local[w] = None
  /\ Goto(w, {"work"}, "begin")
  /\ Target(w) \in up
  /\ \E s \in Sessions :
       /\ FreeSession(s) /\ \A r \in Sessions : FreeSession(r) => s <= r
       /\ db_local' = [db_local EXCEPT ![w] = s]
       /\ db_conns' = db_conns \cup {s}
       /\ owner' = [owner EXCEPT ![s] = w]
       /\ host' = [host EXCEPT ![s] = Target(w)]
       /\ txn' = [txn EXCEPT ![s] = "idle"]
       /\ link' = [link EXCEPT ![s] = "up"]
       /\ cancel' = cancel \ {s}
  /\ db_hosts' = [db_hosts EXCEPT ![w] = HostsToTry(w)]
  /\ reconnect_attempt' = [reconnect_attempt EXCEPT ![w] = AttemptsMade(w)]
  /\ UNCHANGED <<operation_num, is_terminate, loaded, want, nodeVars, lock, history>>

\* ClientCannotConnectError: the host is down or has no backend to give.
CannotConnect(w) ==
  /\ db_local[w] = None
  /\ pc[w] = "work"
  /\ \/ Target(w) \notin up
     \/ \A s \in Sessions : ~FreeSession(s)
  /\ db_hosts' = [db_hosts EXCEPT ![w] = HostsToTry(w)]
  /\ reconnect_attempt' = [reconnect_attempt EXCEPT ![w] = AttemptsMade(w) + 1]
  /\ UNCHANGED <<sharedVars, pc, loaded, db_local, want, nodeVars, sessVars, history>>

\* negotiate_ssl reads its answer outside of every try: ETIMEDOUT of a host
\* that vanishes there is none of the errors the worker names.
UncaughtTimeout(w) ==
  /\ Timeouts /\ Fault
  /\ db_local[w] = None
  /\ Goto(w, {"work"}, "dead")
  /\ UNCHANGED <<sharedVars, loaded, db_local, reconnect_attempt, db_hosts, want,
                 primary, up, tables, ledger, sessVars, history>>

-----------------------------------------------------------------------------
(* execute_task: one transaction, "with db_local.xact()" *)

\* The host of the connection has a table public.accounts, be it an old one.
HasTable(w) == tables[host[db_local[w]]] # "none"

\* START TRANSACTION, and the SELECT chooses its two rows.
Begin(w) ==
  /\ Goto(w, {"begin"}, "lock")
  /\ LinkUp(w) /\ HasTable(w) /\ host[db_local[w]] = primary
  /\ \E a, b \in Accounts : a # b /\ want' = [want EXCEPT ![w] = <<a, b>>]
  /\ txn' = [txn EXCEPT ![db_local[w]] = "open"]
  /\ UNCHANGED <<sharedVars, loaded, db_local, reconnect_attempt, db_hosts,
                 nodeVars, lock, owner, host, link, cancel, history>>

\* ... FOR UPDATE locks them one after the other.
LockRow(w) ==
  /\ pc[w] = "lock" /\ want[w] # <<>>
  /\ LinkUp(w) /\ lock[Head(want[w])] = None
  /\ lock' = [lock EXCEPT ![Head(want[w])] = db_local[w]]
  /\ want' = [want EXCEPT ![w] = Tail(@)]
  /\ UNCHANGED <<sharedVars, pc, loaded, db_local, reconnect_attempt, db_hosts,
                 nodeVars, owner, host, txn, link, cancel, history>>

\* The SELECT answered: both rows are locked.
RowsLockedUnchecked(w) == TRUE
RowsLocked(w) == want[w] = <<>>

\* The two UPDATEs of the locked rows; __exit__ then sends COMMIT.
UpdateAndCommit(w) ==
  /\ RowsLocked(w) /\ LinkUp(w)
  /\ Goto(w, {"lock"}, "commit")
  /\ txn' = [txn EXCEPT ![db_local[w]] = "commit"]
  /\ UNCHANGED <<sharedVars, loaded, db_local, reconnect_attempt, db_hosts, want,
                 nodeVars, lock, owner, host, link, cancel, history>>

CommitAnsweredUnread(w) == LinkUp(w)
CommitAnswered(w) == LinkUp(w) /\ txn[db_local[w]] = "committed"

Forget(w) == db_local' = [db_local EXCEPT ![w] = None]

\* The next task runs on the same connection.
KeepConnectionNot(w) == Forget(w)
KeepConnection(w) == UNCHANGED db_local

\* The answer to COMMIT arrives: execute_task returns True, the task is done.
ReturnsNone(w) == Goto(w, {"commit"}, "begin") /\ UNCHANGED acked
ReturnsTrue(w) == Goto(w, {"commit"}, "test") /\ acked' = [acked EXCEPT ![w] = @ + 1]

Committed(w) ==
  /\ CommitAnswered(w)
  /\ ReturnsTrue(w)
  /\ KeepConnection(w)
  /\ txn' = [txn EXCEPT ![db_local[w]] = "idle"]
  /\ UNCHANGED <<sharedVars, loaded, reconnect_attempt, db_hosts, want,
                 nodeVars, lock, owner, host, link, cancel, started, applied, unknown, blind>>

-----------------------------------------------------------------------------
(* The except clauses of the do_work loop *)

\* An error that leaves the connection alive first makes Transaction.__exit__
\* send ABORT.
AbortOnExitSkipped(w) == UNCHANGED <<lock, txn>>
AbortOnExit(w) ==
  /\ lock' = Freed({db_local[w]})
  /\ txn' = [txn EXCEPT ![db_local[w]] = "idle"]

\* Where the clauses that set db_local = None go on: do_work is still True.
RetryAtNextTask == "test"
RetryAt == "work"

Unwant(w) == want' = [want EXCEPT ![w] = <<>>]

\* The cycle of transactions each waiting for a row another of them holds.
InDeadlock(w) ==
  \E D \in SUBSET Workers :
    /\ w \in D
    /\ \A v \in D : /\ pc[v] = "lock" /\ want[v] # <<>>
                    /\ \E u \in D : lock[Head(want[v])] = db_local[u]

DeadlockError(w) ==
  /\ InDeadlock(w) /\ LinkUp(w)
  /\ Goto(w, {"lock"}, "rollback")
  /\ AbortOnExit(w) /\ Unwant(w)
  /\ UNCHANGED <<sharedVars, loaded, db_local, reconnect_attempt, db_hosts,
                 nodeVars, owner, host, link, cancel, history>>

\* execute("ROLLBACK") of the handler: a warning, as nothing is open.
Rollback(w) ==
  /\ Goto(w, {"rollback"}, "begin")
  /\ LinkUp(w)
  /\ UNCHANGED <<sharedVars, loaded, db_local, reconnect_attempt, db_hosts, want,
                 nodeVars, sessVars, history>>

\* An error in that ROLLBACK is raised inside the handler: nothing catches it.
RollbackFails(w) ==
  /\ Goto(w, {"rollback"}, "dead")
  /\ LinkIn(w, {"reset", "shutdown"})
  /\ UNCHANGED <<sharedVars, loaded, db_local, reconnect_attempt, db_hosts, want,
                 nodeVars, sessVars, history>>

SwitchHostForgotten(w) == UNCHANGED db_hosts
SwitchHost(w) == db_hosts' = [db_hosts EXCEPT ![w] = Rotated(@)]

\* SELECT ... FOR UPDATE on a replica: the next attempt is on the next host.
\* Where the primary has stopped and no other is promoted yet, every host
\* answers so; Patroni promotes one before MaxBlind sessions went that way.
ReadOnlyTransactionError(w) ==
  /\ Goto(w, {"begin"}, RetryAt)
  /\ LinkUp(w) /\ HasTable(w) /\ host[db_local[w]] # primary
  /\ \/ primary # None /\ UNCHANGED blind
     \/ primary = None /\ blind < MaxBlind /\ blind' = blind + 1
  /\ Forget(w)
  /\ SwitchHost(w)
  /\ UNCHANGED <<sharedVars, loaded, reconnect_attempt, want, nodeVars, sessVars,
                 started, acked, applied, unknown>>

\* UndefinedTableError on a host that lacks the table: none of the clauses.
UndefinedTable(w) ==
  /\ Goto(w, {"begin"}, "dead")
  /\ LinkUp(w) /\ ~HasTable(w)
  /\ UNCHANGED <<sharedVars, loaded, db_local, reconnect_attempt, db_hosts, want,
                 nodeVars, sessVars, history>>

\* A COMMIT under way is not cancelled.
CanBeCanceled(w) == pc[w] = "lock"

\* Cancelled: by conn.interrupt() of the main thread, or by an operator.
QueryCanceledError(w) ==
  /\ CanBeCanceled(w)
  /\ LinkUp(w) /\ db_local[w] \in cancel
  /\ cancel' = cancel \ {db_local[w]}
  /\ AbortOnExit(w) /\ Unwant(w)
  /\ \/ is_terminate /\ Goto(w, InTxn, "returned") /\ UNCHANGED db_local
     \/ ~is_terminate /\ Goto(w, InTxn, RetryAt) /\ Forget(w)
  /\ UNCHANGED <<sharedVars, loaded, reconnect_attempt, db_hosts,
                 nodeVars, owner, host, link, history>>

\* The transaction ends with its connection; if COMMIT was sent, w does not
\* know what became of it.
LoseTransaction(w) ==
  /\ Unwant(w)
  /\ unknown' = IF pc[w] = "commit" THEN [unknown EXCEPT ![w] = @ + 1] ELSE unknown

AdminShutdownError(w) ==
  /\ LinkIn(w, {"shutdown"})
  /\ \/ is_terminate /\ Goto(w, {"begin"} \cup InTxn, "returned") /\ UNCHANGED db_local
     \/ ~is_terminate /\ Goto(w, {"begin"} \cup InTxn, RetryAt) /\ Forget(w)
  /\ LoseTransaction(w)
  /\ UNCHANGED <<sharedVars, loaded, reconnect_attempt, db_hosts,
                 nodeVars, sessVars, started, acked, applied, blind>>

\* ConnectionFailureError, ProtocolError, ConnectionResetError.  ETIMEDOUT ends
\* here, too: the driver tries the socket again and finds it at its end.
ConnectionFailureError(w) ==
  /\ LinkIn(w, {"reset", "shutdown"})
  /\ Goto(w, {"begin"} \cup InTxn, RetryAt)
  /\ Forget(w)
  /\ reconnect_attempt' = [reconnect_attempt EXCEPT ![w] = @ + 1]
  /\ LoseTransaction(w)
  /\ UNCHANGED <<sharedVars, loaded, db_hosts, nodeVars, sessVars,
                 started, acked, applied, blind>>

\* db_local.close() after the loop; None has no close(), an AttributeError.
Close(w) ==
  /\ Goto(w, {"close"}, IF db_local[w] = None THEN "no_close" ELSE "finished")
  /\ txn' = IF LinkUp(w) THEN [txn EXCEPT ![db_local[w]] = "gone"] ELSE txn
  /\ db_local' = [db_local EXCEPT ![w] = None]
  /\ UNCHANGED <<sharedVars, loaded, reconnect_attempt, db_hosts, want,
                 nodeVars, lock, owner, host, link, cancel, history>>

-----------------------------------------------------------------------------
(* The cluster, external: what the servers and Patroni do. *)

programVars == <<sharedVars, threadVars>>

\* The backend of s applies COMMIT, whether or not its client is still there.
ServerCommit(s) ==
  /\ txn[s] = "commit"
  /\ ledger' = [ledger EXCEPT ![primary][owner[s]] = @ + 1]
  /\ applied' = [applied EXCEPT ![owner[s]] = @ + 1]
  /\ lock' = Freed({s})
  /\ txn' = [txn EXCEPT ![s] = "committed"]
  /\ UNCHANGED <<programVars, primary, up, tables, faults, owner, host, link, cancel,
                 started, acked, unknown, blind>>

\* The backend of s finds its client gone and ends, aborting what is open.
ServerNotices(s) ==
  /\ txn[s] # "gone" /\ link[s] # "up"
  /\ txn' = [txn EXCEPT ![s] = "gone"]
  /\ lock' = Freed({s})
  /\ UNCHANGED <<programVars, nodeVars, owner, host, link, cancel, history>>

\* A cancel request that finds nothing to cancel.
CancelIgnored(s) ==
  /\ s \in cancel
  /\ cancel' = cancel \ {s}
  /\ UNCHANGED <<programVars, nodeVars, lock, owner, host, txn, link, history>>

\* H receive all that the primary has: the table, and the transfers in it.
Receive(H) ==
  /\ tables' = [h \in Hosts |-> IF h \in H THEN tables[primary] ELSE tables[h]]
  /\ ledger' = [h \in Hosts |-> IF h \in H THEN ledger[primary] ELSE ledger[h]]

\* Only a failover can show how many transfers h has got.
Replicate(h) ==
  /\ primary # None /\ h \in up \ {primary}
  /\ Crashes \/ tables[h] # tables[primary]
  /\ Receive({h})
  /\ UNCHANGED <<programVars, primary, up, faults, sessVars, history>>

\* The sessions of h end; each client will see one of "kinds" of it.
EndSessions(h, kinds) ==
  /\ \E k \in kinds :
       link' = [s \in Sessions |-> IF s \in OnHost(h) /\ link[s] = "up" THEN k ELSE link[s]]
  /\ txn' = [s \in Sessions |-> IF s \in OnHost(h) THEN "gone" ELSE txn[s]]
  /\ lock' = Freed(OnHost(h))
  /\ UNCHANGED <<owner, host, cancel>>

\* A primary, that of "primary", ends; until Promote there is none.
PrimaryEnds ==
  /\ primary # None
  /\ primary' = None /\ up' = up \ {primary}
  /\ EndSessions(primary, {"shutdown", "reset"})
  /\ UNCHANGED <<programVars, history>>

\* The clean stop a switchover begins with: the replicas have all by then.
Switchover ==
  /\ Fault
  /\ PrimaryEnds /\ up \ {primary} # {}
  /\ Receive(up)

Crash ==
  /\ Crashes /\ Fault
  /\ PrimaryEnds
  /\ UNCHANGED <<tables, ledger>>

\* After a crash what h had not received is lost.
Promote(h) ==
  /\ primary = None /\ h \in up
  /\ primary' = h
  /\ UNCHANGED <<programVars, up, tables, ledger, faults, sessVars, history>>

\* A host comes back; under a primary it is rewound to the primary's timeline.
Restart(h) ==
  /\ h \notin up
  /\ up' = up \cup {h}
  /\ IF primary = None THEN UNCHANGED <<tables, ledger>> ELSE Receive({h})
  /\ UNCHANGED <<programVars, primary, faults, sessVars, history>>

\* pg_terminate_backend, or a network failure the server does not see.
BreakLink(s) ==
  /\ Fault
  /\ txn[s] # "gone" /\ link[s] = "up"
  /\ \/ /\ link' = [link EXCEPT ![s] = "shutdown"]
        /\ txn' = [txn EXCEPT ![s] = "gone"] /\ lock' = Freed({s})
     \/ /\ link' = [link EXCEPT ![s] = "reset"]
        /\ UNCHANGED <<txn, lock>>
  /\ UNCHANGED <<programVars, primary, up, tables, ledger, owner, host, cancel, history>>

\* An operator's pg_cancel_backend.
OperatorCancel(s) ==
  /\ Fault
  /\ txn[s] # "gone" /\ cancel' = cancel \cup {s}
  /\ UNCHANGED <<programVars, primary, up, tables, ledger, lock, owner, host, txn, link,
                 history>>

\* The main thread on a signal: the flag, then interrupt() for every entry of
\* db_conns.  ClusterTest models the loop step by step.
Terminate ==
  /\ Signals /\ ~is_terminate /\ is_terminate' = TRUE
  /\ cancel' = cancel \cup {s \in db_conns : txn[s] # "gone"}
  /\ UNCHANGED <<operation_num, db_conns, threadVars, nodeVars,
                 lock, owner, host, txn, link, history>>

-----------------------------------------------------------------------------

Thread(w) ==
  \/ Test(w) \/ Load(w) \/ Store(w) \/ Connect(w) \/ CannotConnect(w) \/ UncaughtTimeout(w)
  \/ Begin(w) \/ LockRow(w) \/ UpdateAndCommit(w) \/ Committed(w)
  \/ DeadlockError(w) \/ Rollback(w) \/ RollbackFails(w)
  \/ ReadOnlyTransactionError(w) \/ UndefinedTable(w)
  \/ QueryCanceledError(w) \/ AdminShutdownError(w) \/ ConnectionFailureError(w) \/ Close(w)

Server == \E s \in Sessions : ServerCommit(s) \/ ServerNotices(s) \/ CancelIgnored(s)

Patroni == \E h \in Hosts : Promote(h) \/ Restart(h)

Faults ==
  \/ \E h \in Hosts : Replicate(h)
  \/ Switchover \/ Crash
  \/ \E s \in Sessions : BreakLink(s) \/ OperatorCancel(s)

ClusterNext == Server \/ Patroni \/ Faults

WorkersNext == \E w \in Workers : Thread(w)

AllStopped == \A w \in Workers : pc[w] \in Stopped

\* The threads have ended; the main thread goes on to validate_test.
Done == AllStopped /\ UNCHANGED vars

Next == WorkersNext \/ ClusterNext \/ Terminate \/ Done

Spec == Init /\ [][Next]_vars

\* The threads are scheduled, the servers answer, Patroni keeps a primary.  A
\* server hands a freed row to the transaction already waiting for it, here
\* at least if that happens over and over.
\* Nothing obliges a fault, replication or a signal to happen.
Fairness ==
  /\ \A w \in Workers : WF_vars(Thread(w))
  /\ \A w \in Workers : SF_vars(LockRow(w) /\ Len(want[w]) = 1)
  /\ WF_vars(Patroni)
  /\ \A s \in Sessions : WF_vars(ServerCommit(s)) /\ WF_vars(ServerNotices(s))

FairSpec == Spec /\ Fairness
-----------------------------------------------------------------------------
(* What validate_test computes *)

Sum(f) == FoldFunction(LAMBDA x, y : x + y, 0, f)

\* sum(balance) - accounts * 100 on h, if it has a table.
Balance(h) == Sum(ledger[h]) + (IF tables[h] = "old" THEN Remains ELSE 0)

\* sum(balance) - (accounts * 100 + operations), read on the primary.
Difference == Balance(primary) - Operations

\* What an earlier test left, where a failover brought its table back.
Left == IF tables[primary] = "old" THEN Remains ELSE 0

\* Commits the servers made and the timeline of the primary no longer has.
Lost == Sum(applied) - Sum(ledger[primary])

\* No thread and no orphaned COMMIT can change the balances any more.
Settled ==
  /\ AllStopped /\ primary # None
  /\ \A s \in Sessions : txn[s] # "commit"

-----------------------------------------------------------------------------
(* Properties *)

(* A task is taken for done only after the servers committed it: however   *)
(* deadlocks, cancellations, lost connections and host changes fall        *)
(* between COMMIT and its answer, "return True" is never reached for a     *)
(* transfer that was rolled back.                                          *)
AckedImpliesApplied == \A w \in Workers : acked[w] <= applied[w]

(* A transfer is executed twice only where the answer to a COMMIT was      *)
(* lost: at most one extra commit per COMMIT of unknown outcome, the one   *)
(* still pending included, even when the orphaned session commits after    *)
(* the worker has reconnected and redone the task.                         *)
DuplicatesExplained ==
  \A w \in Workers :
    applied[w] <= acked[w] + unknown[w] + (IF pc[w] = "commit" THEN 1 ELSE 0)

(* A row lock is held only by a transaction still open on a server, and a  *)
(* COMMIT is only ever sent holding both rows of the transfer.             *)
LockHoldersOpen == \A a \in Accounts : lock[a] # None => txn[lock[a]] \in {"open", "commit"}

CommitsHoldBothRows ==
  \A s \in Sessions : txn[s] = "commit" => Cardinality({a \in Accounts : lock[a] = s}) = 2

LocksMatchTransactions == LockHoldersOpen /\ CommitsHoldBothRows

(* No except clause walks away from a connection that still has a          *)
(* transaction open on a healthy link: nobody else could ever end it, and  *)
(* its row locks would block the other threads for good.                   *)
NoAbandonedTransaction ==
  \A s \in Sessions :
    (txn[s] \in {"open", "commit"} /\ link[s] = "up") =>
      db_local[owner[s]] = s /\ pc[owner[s]] \in InTxn

(* The counter never runs ahead of the tasks really begun, and where "+="  *)
(* is atomic the check-then-increment of the threads overshoots            *)
(* --operations by less than the number of threads.                        *)
CounterBounds ==
  /\ operation_num <= started
  /\ AtomicIncrement =>
       started <= Operations + Cardinality(Workers) - 1 \/ (started = 0)

(* The verdict, explained: if no thread died with its task and the primary *)
(* has a table, the balance falls short of accounts * 100 + operations by  *)
(* no more than what a failover lost, and exceeds it by no more than the   *)
(* overshoot of the counter and the COMMITs of unknown outcome - counted   *)
(* from what an earlier test left, where the failover was to a host that   *)
(* had not received the new table yet.                                     *)
VerdictExplained ==
  (Settled /\ ~is_terminate /\ tables[primary] # "none" /\ \A w \in Workers : pc[w] # "dead") =>
    /\ Difference >= Left - Lost
    /\ Difference <= Left + started - Operations + Sum(unknown) - Lost

(* Rotations never lose a host, and a worker holding a connection has      *)
(* attempts left, so one failure more cannot skip the retry of its host.   *)
HostsKept ==
  \A w \in Workers :
    /\ \E k \in 1..Len(HostList) :
         db_hosts[w] = SubSeq(HostList, k, Len(HostList)) \o SubSeq(HostList, 1, k - 1)
    /\ db_local[w] # None => reconnect_attempt[w] = 0 \/ reconnect_attempt[w] < ReconnectAttempt

(* db_conns keeps a session referenced after its worker dropped it, so it  *)
(* stays open until the process ends.  With two servers named directly     *)
(* every end of a primary, by switchover or crash, can cost each worker    *)
(* one session once the next primary is there, as can the first connection *)
(* - and any number until then, "blind" ones: nothing bounds those but     *)
(* Patroni's haste.                                                        *)
LeakedSessions ==
  {s \in Sessions : link[s] = "up" /\ txn[s] # "gone" /\ \A w \in Workers : db_local[w] # s}

\* The primary never runs out of backends to give.
BackendsSuffice ==
  IsFiniteSet(Sessions) =>
    Cardinality(Sessions) >= (MaxFaults + 2) * Cardinality(Workers) + MaxFaults + MaxBlind

TwoServers ==
  /\ ~Proxied /\ ReconnectAttempt > 0
  /\ \E a, b \in Hosts : a # b /\ Hosts = {a, b} /\ HostList = <<a, b>>
  /\ BackendsSuffice

LeaksBounded ==
  TwoServers => Cardinality(LeakedSessions) <= (faults + 1) * Cardinality(Workers) + blind

\* Behind haproxy only a cancelled statement makes a worker drop a healthy one.
LeaksBehindProxy == Proxied => Cardinality(LeakedSessions) <= faults

(* With finitely many faults every thread ends: no deadlock, lost lock,    *)
(* reconnection loop or stale counter keeps one going for ever.            *)
EventuallyAllStopped == <>AllStopped

(* README.md:576: after sessions were terminated under it, "the test       *)
(* backend should continue work".                                          *)
BackendContinuesWork == \A w \in Workers : pc[w] # "dead"
=============================================================================
