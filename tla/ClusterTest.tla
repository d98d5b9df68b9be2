---------------------------- MODULE ClusterTest ----------------------------
(***************************************************************************)
(* The whole process of pg_cluster_backend.py: the main thread (table      *)
(* initialisation, the loop that watches the workers under short-lived     *)
(* SignalHandler blocks, the interruption of their connections,            *)
(* validation), the workers of BillingWorkers and the PSCLogger thread.    *)
(*                                                                         *)
(* The main thread's own connection is kept apart from the sessions of the *)
(* workers: the host it leads to and the state of its link.                *)
(***************************************************************************)
EXTENDS BillingWorkers

CONSTANT MaxSignals   \* bound on the signals the process receives

ASSUME SignalsAssumption == MaxSignals \in Nat

VARIABLES
  main, func,                    \* where the main thread is; what it executes
  main_hosts, main_attempt,      \* locals of cluster_specific_execute
  main_conn, main_link,          \* its connection: a host, and the link to it
  armed, interrupted, signals,   \* SignalHandler, and the signals received
  visited, iterated,             \* the for loop over db_conns, see Interrupt
  logger, do_stop, log_queue, log_file,
  verdict, reported              \* what validate_test logs

executeVars == <<func, main_hosts, main_attempt, main_conn, main_link>>
handlerVars == <<armed, interrupted, signals>>
loopVars    == <<visited, iterated>>
logVars     == <<logger, do_stop, log_queue, log_file>>
verdictVars == <<verdict, reported>>
mainVars    == <<main, executeVars, handlerVars, loopVars, logVars, verdictVars>>
allVars     == <<vars, mainVars>>

Ended    == {"returned", "exited", "died", "killed"}
Messages == Workers \cup {"verdict"}

TestInit ==
  /\ InitButTables /\ TablesBefore
  /\ main = "connect" /\ func = "init_test_tbls_and_data"
  /\ main_hosts = HostList /\ main_attempt = 0
  /\ main_conn = None /\ main_link = "up"
  /\ armed = FALSE /\ interrupted = FALSE /\ signals = 0
  /\ visited = {} /\ iterated = {}
  /\ logger = "running" /\ do_stop = FALSE /\ log_queue = {} /\ log_file = {}
  /\ verdict = "none" /\ reported = 0

-----------------------------------------------------------------------------
(* cluster_specific_execute: connect, retry, rotate; then func *)

MainRotating == main_attempt >= ReconnectAttempt

MainHostsToTry == IF MainRotating THEN Rotated(main_hosts) ELSE main_hosts

MainAttemptsMade == IF MainRotating THEN 0 ELSE main_attempt

MainTarget == IF Proxied THEN primary ELSE Head(MainHostsToTry)

MainConnect ==
  /\ main = "connect" /\ main' = "execute"
  /\ MainTarget \in up
  /\ main_conn' = MainTarget /\ main_link' = "up"
  /\ main_hosts' = MainHostsToTry
  /\ main_attempt' = MainAttemptsMade
  /\ UNCHANGED <<vars, func, handlerVars, loopVars, logVars, verdictVars>>

MainCannotConnect ==
  /\ main = "connect"
  /\ MainTarget \notin up
  /\ main_hosts' = MainHostsToTry
  /\ main_attempt' = MainAttemptsMade + 1
  /\ UNCHANGED <<vars, main, func, main_conn, main_link, handlerVars, loopVars, logVars,
                 verdictVars>>

\* As in worker_func: negotiate_ssl lets ETIMEDOUT through.
MainUncaughtTimeout ==
  /\ Timeouts /\ Fault
  /\ main = "connect" /\ main' = "died"
  /\ UNCHANGED <<sharedVars, threadVars, primary, up, tables, ledger, sessVars, history,
                 executeVars, handlerVars, loopVars, logVars, verdictVars>>

\* close() after the loop; a second call builds its deque and counter anew.
ExecuteReturns(next) ==
  /\ main' = next
  /\ main_conn' = None
  /\ func' = "validate_test" /\ main_hosts' = HostList /\ main_attempt' = 0
  /\ UNCHANGED main_link

Answers == main_conn # None /\ main_link = "up"

\* The server carries out the DO block: a new table, on the primary only.
CreateTables ==
  /\ main = "execute" /\ func = "init_test_tbls_and_data" /\ main' = "created"
  /\ Answers /\ main_conn = primary
  /\ tables' = [tables EXCEPT ![primary] = "new"]
  /\ UNCHANGED <<sharedVars, threadVars, primary, up, ledger, faults, sessVars, history,
                 executeVars, handlerVars, loopVars, logVars, verdictVars>>

\* The answer arrives; the threads are started.
InitTestTblsAndData ==
  /\ main = "created" /\ Answers
  /\ ExecuteReturns("enter")
  /\ UNCHANGED <<vars, handlerVars, loopVars, logVars, verdictVars>>

\* ReadOnlyTransactionError: cluster_specific_execute has no clause for it.
InitOnReplica ==
  /\ main = "execute" /\ func = "init_test_tbls_and_data"
  /\ Answers /\ main_conn # primary
  /\ main' = "died"
  /\ UNCHANGED <<vars, executeVars, handlerVars, loopVars, logVars, verdictVars>>

ExpectedOneMore == Operations + 1
Expected == Operations

\* sum(balance) as the host of the connection has it, less accounts * 100.
SumRead == Balance(main_conn)

TableRead == tables[main_conn] # "none"

Log(m) == log_queue' = log_queue \cup {m} /\ UNCHANGED <<logger, do_stop, log_file>>

TestSuccessful ==
  /\ main = "execute" /\ func = "validate_test"
  /\ Answers /\ TableRead /\ SumRead = Expected
  /\ verdict' = "successful" /\ reported' = 0
  /\ Log("verdict")
  /\ ExecuteReturns("stop")
  /\ UNCHANGED <<vars, handlerVars, loopVars>>

\* The sums differ: a second statement reads them again to report by how much.
TestNotSuccessful ==
  /\ main = "execute" /\ func = "validate_test"
  /\ Answers /\ TableRead /\ SumRead # Expected
  /\ main' = "read_again"
  /\ UNCHANGED <<vars, executeVars, handlerVars, loopVars, logVars, verdictVars>>

TestFailed ==
  /\ main = "read_again" /\ Answers
  /\ verdict' = "failed" /\ reported' = SumRead - Expected
  /\ Log("verdict")
  /\ ExecuteReturns("stop")
  /\ UNCHANGED <<vars, handlerVars, loopVars>>

\* UndefinedTableError: no clause for this one, either.
ValidateWithoutTable ==
  /\ main = "execute" /\ func = "validate_test"
  /\ Answers /\ ~TableRead
  /\ main' = "died"
  /\ UNCHANGED <<vars, executeVars, handlerVars, loopVars, logVars, verdictVars>>

Executing == {"execute", "created", "read_again"}

\* AdminShutdownError and its like: func runs again, on a new connection.
ExecuteAgain ==
  /\ main \in Executing /\ main' = "connect"
  /\ main_link = "shutdown"
  /\ main_conn' = None
  /\ UNCHANGED <<vars, func, main_hosts, main_attempt, main_link, handlerVars, loopVars,
                 logVars, verdictVars>>

\* ConnectionFailureError, ConnectionResetError: nothing catches them here,
\* unlike in worker_func.
ExecuteFails ==
  /\ main \in Executing /\ main' = "died"
  /\ main_link # "up"
  /\ UNCHANGED <<vars, executeVars, handlerVars, loopVars, logVars, verdictVars>>

-----------------------------------------------------------------------------
(* The loop of the main thread: one SignalHandler block per iteration. *)

Enter ==
  /\ main = "enter" /\ main' = "alive"
  /\ armed' = TRUE /\ interrupted' = FALSE
  /\ UNCHANGED <<vars, executeVars, signals, loopVars, logVars, verdictVars>>

\* alive_count = 0: a thread that returned, or died of an exception, is not
\* alive.
SomeStopped == \E w \in Workers : pc[w] \in Stopped
NoneAlive == AllStopped

Alive ==
  /\ main = "alive"
  /\ IF NoneAlive THEN main' = "connect" /\ armed' = FALSE
                   ELSE main' = "sleep" /\ UNCHANGED armed
  /\ UNCHANGED <<vars, executeVars, interrupted, signals, loopVars, logVars, verdictVars>>

Sleep ==
  /\ main = "sleep" /\ main' = "check"
  /\ UNCHANGED <<vars, executeVars, handlerVars, loopVars, logVars, verdictVars>>

MustStopOnceTold == is_terminate
MustStop == interrupted

Check ==
  /\ main = "check"
  /\ IF MustStop
       THEN /\ main' = "interrupt" /\ is_terminate' = TRUE
            /\ visited' = {} /\ iterated' = db_conns
       ELSE main' = "exit" /\ UNCHANGED <<is_terminate, loopVars>>
  /\ UNCHANGED <<operation_num, db_conns, threadVars, nodeVars, sessVars, history,
                 executeVars, handlerVars, logVars, verdictVars>>

Exit ==
  /\ main = "exit" /\ main' = "enter"
  /\ armed' = FALSE
  /\ UNCHANGED <<vars, executeVars, interrupted, signals, loopVars, logVars, verdictVars>>

\* conn.interrupt() for one more entry of db_conns; it reaches the sessions
\* that still exist.
Interrupt ==
  /\ main = "interrupt" /\ db_conns = iterated
  /\ \E s \in iterated \ visited :
       /\ visited' = visited \cup {s}
       /\ cancel' = IF txn[s] = "gone" THEN cancel ELSE cancel \cup {s}
  /\ UNCHANGED <<sharedVars, threadVars, nodeVars, lock, owner, host, txn, link, history,
                 main, iterated, executeVars, handlerVars, logVars, verdictVars>>

Interrupted ==
  /\ main = "interrupt" /\ db_conns = iterated
  /\ visited = iterated
  /\ main' = "stop"
  /\ UNCHANGED <<vars, executeVars, handlerVars, loopVars, logVars, verdictVars>>

\* RuntimeError: dictionary changed size during iteration.
DictionaryChanged ==
  /\ main = "interrupt" /\ db_conns # iterated
  /\ main' = "died"
  /\ UNCHANGED <<vars, executeVars, handlerVars, loopVars, logVars, verdictVars>>

\* PSCLogger.instance().stop(): the last statement, also before sys.exit(0).
StopLoggerForgotten == UNCHANGED do_stop
StopLogger == do_stop' = TRUE

Stop ==
  /\ main = "stop"
  /\ main' = IF is_terminate THEN "exited" ELSE "returned"
  /\ StopLogger
  /\ UNCHANGED <<vars, executeVars, handlerVars, loopVars, logger, log_queue, log_file,
                 verdictVars>>

-----------------------------------------------------------------------------
(* Signals *)

ThreadsStarted == func = "validate_test"

NoThreadAlive == main = "killed" \/ AllStopped \/ ~ThreadsStarted

\* What a shell waiting for the process sees as its end.
ProcessEnded ==
  \/ main = "killed"
  \/ main \in Ended /\ logger = "ended" /\ NoThreadAlive

Signalled == signals < MaxSignals /\ signals' = signals + 1

\* The handler first restores the handlers found by __enter__.
Handle ==
  /\ Signalled /\ main \notin Ended
  /\ armed
  /\ armed' = FALSE /\ interrupted' = TRUE
  /\ UNCHANGED <<vars, main, executeVars, loopVars, logVars, verdictVars>>

\* SIGTERM outside a block, or after the release: the default action.  Once
\* the main thread has ended, SIGINT ends the process, too.
Kill ==
  /\ Signalled /\ ~ProcessEnded
  /\ ~armed
  /\ main' = "killed"
  /\ UNCHANGED <<vars, executeVars, armed, interrupted, loopVars, logVars, verdictVars>>

\* SIGINT then: KeyboardInterrupt, which only the bare except around
\* conn.interrupt() swallows.
KeyboardInterrupt ==
  /\ Signalled /\ main \notin Ended
  /\ ~armed
  /\ \/ main' = "died"
     \/ main = "interrupt" /\ UNCHANGED main
  /\ UNCHANGED <<vars, executeVars, armed, interrupted, loopVars, logVars, verdictVars>>

-----------------------------------------------------------------------------
(* PSCLogger.run *)

FlushSkipped == UNCHANGED <<log_file, log_queue>>
FlushData == log_file' = log_file \cup log_queue /\ log_queue' = {}
LastFlush == FlushData

LoggerRuns ==
  /\ main # "killed"
  /\ logger = "running" /\ log_queue # {}
  /\ FlushData
  /\ UNCHANGED <<vars, main, executeVars, handlerVars, loopVars, logger, do_stop, verdictVars>>

LoggerEnds ==
  /\ main # "killed"
  /\ logger = "running" /\ do_stop
  /\ logger' = "ended"
  /\ LastFlush
  /\ UNCHANGED <<vars, main, executeVars, handlerVars, loopVars, do_stop, verdictVars>>

-----------------------------------------------------------------------------
(* The other threads and the cluster, beside the main thread *)

\* A thread that runs to its end logs "Finished" as the last thing it does.
WorkerStep(w) ==
  /\ ThreadsStarted /\ main # "killed"
  /\ Thread(w)
  /\ IF pc'[w] = "finished" /\ pc[w] # "finished" THEN Log(w) ELSE UNCHANGED logVars
  /\ UNCHANGED <<main, executeVars, handlerVars, loopVars, verdictVars>>

\* The main thread's session on a primary that stops ends with the others.
ClusterStep ==
  /\ main # "killed" /\ ClusterNext
  /\ IF main_conn # None /\ main_link = "up" /\ main_conn = primary /\ primary' # primary
       THEN main_link' \in {"shutdown", "reset"}
       ELSE UNCHANGED main_link
  /\ UNCHANGED <<main, func, main_hosts, main_attempt, main_conn, handlerVars, loopVars,
                 logVars, verdictVars>>

BreakMainLink ==
  /\ Fault /\ main \notin Ended
  /\ Answers /\ main_link' \in {"reset", "shutdown"}
  /\ UNCHANGED <<sharedVars, threadVars, primary, up, tables, ledger, sessVars, history,
                 main, func, main_hosts, main_attempt, main_conn, handlerVars, loopVars,
                 logVars, verdictVars>>

MainStep ==
  \/ MainConnect \/ MainCannotConnect \/ MainUncaughtTimeout
  \/ CreateTables \/ InitTestTblsAndData \/ InitOnReplica
  \/ TestSuccessful \/ TestNotSuccessful \/ TestFailed \/ ValidateWithoutTable
  \/ ExecuteAgain \/ ExecuteFails
  \/ Enter \/ Alive \/ Sleep \/ Check \/ Exit
  \/ Interrupt \/ Interrupted \/ DictionaryChanged \/ Stop

Signal == Handle \/ Kill \/ KeyboardInterrupt

Logger == LoggerRuns \/ LoggerEnds

TestDone == main \in Ended /\ NoThreadAlive /\ UNCHANGED allVars

TestNext ==
  \/ MainStep \/ Signal \/ Logger \/ ClusterStep \/ BreakMainLink \/ TestDone
  \/ \E w \in Workers : WorkerStep(w)

TestSpec == TestInit /\ [][TestNext]_allVars

TestFairness ==
  /\ WF_allVars(MainStep) /\ WF_allVars(LoggerEnds) /\ WF_allVars(LoggerRuns)
  /\ \A w \in Workers : WF_allVars(WorkerStep(w))
  /\ \A w \in Workers : SF_allVars(WorkerStep(w) /\ LockRow(w) /\ Len(want[w]) = 1)
  /\ WF_allVars(ClusterStep /\ Patroni)
  /\ \A s \in Sessions :
       WF_allVars(ClusterStep /\ ServerCommit(s)) /\ WF_allVars(ClusterStep /\ ServerNotices(s))

TestFairSpec == TestSpec /\ TestFairness
-----------------------------------------------------------------------------
(* Properties *)

(* What validate_test logs, explained, at the moment it is logged: behind  *)
(* haproxy, and unless a thread died with its task, the balance read falls *)
(* short by no more than failovers lost and is in excess by no more than   *)
(* the overshoot of the counter and the COMMITs of unknown outcome, those  *)
(* orphaned sessions may still carry out after the test included - counted *)
(* from what an earlier test left where a failover lost the new table.     *)
VerdictExplainedWhenGiven ==
  [][ (verdict' # verdict /\ Proxied /\ \A w \in Workers : pc[w] # "dead") =>
        /\ reported' >= Left - Lost
        /\ reported' <= Left + started - Operations + Sum(unknown) - Lost ]_allVars

(* The log file of a test that ran to its end holds the verdict and the    *)
(* last line of every thread that finished: no message is left in the      *)
(* queue of the stopped logger.                                            *)
LogComplete ==
  main = "returned" /\ logger = "ended" =>
    log_file = {"verdict"} \cup {w \in Workers : pc[w] = "finished"}

(* No verdict is given while a thread may still commit, whatever signals   *)
(* arrive, and none after a termination signal was acted upon.             *)
VerdictOfFinishedTest ==
  verdict # "none" => AllStopped /\ ~is_terminate

(* The process ends unless its main thread died of an exception: faults,   *)
(* signals and their interplay with the workers leave nothing else hanging. *)
EndsUnlessMainDied == <>[](ProcessEnded \/ main = "died")

(* A signal that arrives while the main thread sleeps in a SignalHandler   *)
(* block makes the workers stop, unless a second one gets in between.      *)
SignalObeyed ==
  (interrupted /\ main = "sleep") ~> (is_terminate \/ main \in {"died", "killed"})
=============================================================================
