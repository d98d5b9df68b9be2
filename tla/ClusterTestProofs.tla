------------------------- MODULE ClusterTestProofs -------------------------
(* What is proved of the workers holds of them inside the whole process,   *)
(* and no verdict is given before they have all ended.                     *)
EXTENDS ClusterTest, BillingCountProofs

(* A thread takes steps only until it has ended. *)
LEMMA StoppedTakesNoStep ==
  ASSUME NEW w \in Workers, Thread(w)
  PROVE  pc[w] \notin Stopped
  BY DEF Thread, Goto, Stopped, InTxn, Test, Load, Store, Connect, CannotConnect, Begin, LockRow,
     UpdateAndCommit, Committed, ReturnsTrue, DeadlockError, Rollback, RollbackFails, UndefinedTable,
     ReadOnlyTransactionError, QueryCanceledError, AdminShutdownError, ConnectionFailureError,
     UncaughtTimeout, Close

(* The main thread, a signal and the logger leave the threads alone: they  *)
(* change the flag, requests to cancel, the table of the primary and the   *)
(* count of faults at most.                                                *)
MainDisturbs == <<operation_num, db_conns, threadVars, primary, up, ledger,
                  lock, owner, host, txn, link, history>>

LEMMA MainStepDisturbs ==
  ASSUME TypeOK, MainStep \/ Signal \/ Logger \/ BreakMainLink \/ TestDone \/ UNCHANGED allVars
  PROVE  /\ UNCHANGED MainDisturbs
         /\ is_terminate' \in BOOLEAN /\ cancel' \in SUBSET Sessions /\ faults' \in 0..MaxFaults
         /\ tables' \in [Hosts -> {"none", "old", "new"}]
<1> USE DEF MainDisturbs, vars, sharedVars, nodeVars, sessVars, threadVars, history
<1>1. CASE Check
  BY <1>1 DEF Check, TypeOK, SharedTypeOK, NodeTypeOK, SessTypeOK
<1>2. CASE Interrupt
  BY <1>2 DEF Interrupt, TypeOK, SharedTypeOK, NodeTypeOK, SessTypeOK
<1>3. CASE BreakMainLink \/ MainUncaughtTimeout
  <2>1. Fault /\ UNCHANGED <<sharedVars, threadVars, primary, up, tables, ledger, sessVars, history>>
    BY <1>3 DEF BreakMainLink, MainUncaughtTimeout
  <2>2. faults' \in 0..MaxFaults
    BY <2>1, ConstantsAssumption DEF ConstantsAssumption, Fault, TypeOK, NodeTypeOK
  <2> QED BY <2>1, <2>2 DEF TypeOK, SharedTypeOK, NodeTypeOK, SessTypeOK
<1>4. CASE UNCHANGED vars
  BY <1>4 DEF TypeOK, SharedTypeOK, NodeTypeOK, SessTypeOK
<1>5. (MainStep \/ Signal \/ Logger \/ TestDone \/ UNCHANGED allVars)
        => Check \/ Interrupt \/ CreateTables \/ MainUncaughtTimeout \/ UNCHANGED vars
  BY DEF MainStep, Signal, Logger, TestDone, allVars, MainConnect, MainCannotConnect,
     InitTestTblsAndData, InitOnReplica, TestSuccessful, TestNotSuccessful, TestFailed,
     ValidateWithoutTable, ExecuteAgain, ExecuteFails, Enter, Alive, Sleep, Exit, Interrupted,
     DictionaryChanged, Stop, Handle, Kill, KeyboardInterrupt, LoggerRuns, LoggerEnds
<1>6. Check \/ Interrupt \/ CreateTables \/ BreakMainLink \/ MainUncaughtTimeout \/ UNCHANGED vars
  BY <1>5
<1>7. CASE CreateTables
  BY <1>7 DEF CreateTables, TypeOK, SharedTypeOK, NodeTypeOK, SessTypeOK
<1> QED BY <1>1, <1>2, <1>3, <1>4, <1>6, <1>7

LEMMA WorkersInvStep == TInv /\ SInv /\ [TestNext]_allVars => (TInv /\ SInv)'
<1> SUFFICES ASSUME TInv, SInv, [TestNext]_allVars PROVE (TInv /\ SInv)'
  OBVIOUS
<1>1. CASE \E w \in Workers : WorkerStep(w)
  BY <1>1, TInvThread, SInvThread DEF WorkerStep
<1>2. CASE ClusterStep
  BY <1>2, TInvCluster, SInvCluster DEF ClusterStep
<1>3. CASE MainStep \/ Signal \/ Logger \/ BreakMainLink \/ TestDone \/ UNCHANGED allVars
  <2>1. /\ UNCHANGED MainDisturbs
        /\ is_terminate' \in BOOLEAN /\ cancel' \in SUBSET Sessions /\ faults' \in 0..MaxFaults
        /\ tables' \in [Hosts -> {"none", "old", "new"}]
    BY <1>3, MainStepDisturbs DEF TInv
  <2> USE <2>1 DEF MainDisturbs, threadVars, history
  <2>2. TInv'
    BY DEF TInv, TypeOK, SharedTypeOK, ThreadTypeOK, NodeTypeOK, SessTypeOK, HistoryTypeOK,
       HostsNonempty, AttemptsLeft
  <2>3. SInv'
    BY DEF SInv, HasOwner, OwnsConnection, AnswerUnread, AckedImpliesApplied,
       OpenWhileLocking, NoAbandonedTransaction, LockHoldersOpen, LinkUp, InTxn
  <2> QED BY <2>2, <2>3
<1> QED BY <1>1, <1>2, <1>3 DEF TestNext

(* In the whole process, with its signals and its own faults, the workers  *)
(* keep their types, count only committed transfers and abandon none.      *)
THEOREM WorkersStayCorrect ==
  TestSpec => [](TypeOK /\ AckedImpliesApplied /\ NoAbandonedTransaction)
<1>1. TestInit => TInv /\ SInv
  BY TInvInit, SInvInit DEF TestInit
<1>2. TInv /\ SInv => TypeOK /\ AckedImpliesApplied /\ NoAbandonedTransaction
  BY DEF TInv, SInv
<1> QED BY <1>1, <1>2, WorkersInvStep, PTL DEF TestSpec
-----------------------------------------------------------------------------
(* The order of the main thread's phases *)

PhaseInv ==
  /\ is_terminate => main \in {"interrupt", "stop"} \cup Ended
  /\ main \in {"connect", "execute", "read_again"} /\ func = "validate_test"
       => AllStopped /\ ~is_terminate
  /\ main = "read_again" => func = "validate_test"
  /\ main = "created" => func # "validate_test"
  /\ verdict # "none" => AllStopped /\ ~is_terminate /\ main \in {"stop"} \cup Ended

LEMMA PhaseInvStep == PhaseInv /\ [TestNext]_allVars => PhaseInv'
<1> SUFFICES ASSUME PhaseInv, [TestNext]_allVars PROVE PhaseInv'
  OBVIOUS
<1> USE DEF PhaseInv, Ended, AllStopped, vars, sharedVars, threadVars, mainVars, executeVars,
        verdictVars
<1>1. CASE MainConnect \/ MainCannotConnect \/ MainUncaughtTimeout
  BY <1>1 DEF MainConnect, MainCannotConnect, MainUncaughtTimeout
<1>2. CASE CreateTables \/ InitTestTblsAndData \/ InitOnReplica
  BY <1>2 DEF CreateTables, InitTestTblsAndData, InitOnReplica, ExecuteReturns
<1>3. CASE TestSuccessful \/ TestFailed
  BY <1>3 DEF TestSuccessful, TestFailed, ExecuteReturns
<1>4. CASE TestNotSuccessful \/ ValidateWithoutTable
  BY <1>4 DEF TestNotSuccessful, ValidateWithoutTable
<1>5. CASE ExecuteAgain \/ ExecuteFails
  BY <1>5 DEF ExecuteAgain, ExecuteFails, Executing
<1>6. CASE Enter \/ Alive \/ Sleep \/ Check \/ Exit
  BY <1>6 DEF Enter, Alive, NoneAlive, Sleep, Check, MustStop, Exit
<1>7. CASE Interrupt \/ Interrupted \/ DictionaryChanged
  BY <1>7 DEF Interrupt, Interrupted, DictionaryChanged
<1>8. CASE Stop
  BY <1>8 DEF Stop
<1>9. CASE Signal \/ Logger \/ TestDone \/ UNCHANGED allVars
  BY <1>9 DEF Signal, Logger, TestDone, allVars, Handle, Kill, KeyboardInterrupt,
     LoggerRuns, LoggerEnds
<1>10. CASE BreakMainLink
  BY <1>10 DEF BreakMainLink
<1>11. CASE ClusterStep
  <2>1. UNCHANGED <<sharedVars, threadVars>>
    BY <1>11 DEF ClusterStep, ClusterNext, Server, Patroni, Faults, programVars, ServerCommit,
       ServerNotices, CancelIgnored, Promote, Restart, Replicate, Switchover, Crash, PrimaryEnds, BreakLink,
       OperatorCancel
  <2> QED BY <1>11, <2>1 DEF ClusterStep
<1>12. ASSUME NEW w \in Workers, WorkerStep(w) PROVE PhaseInv'
  <2>1. pc[w] \notin Stopped
    BY <1>12, StoppedTakesNoStep DEF WorkerStep
  <2>2. is_terminate' = is_terminate
    BY <1>12 DEF WorkerStep, Thread, Test, Load, Store, Connect, CannotConnect, Begin, LockRow,
       UpdateAndCommit, Committed, DeadlockError, Rollback, RollbackFails, UndefinedTable,
       ReadOnlyTransactionError, QueryCanceledError, AdminShutdownError,
       ConnectionFailureError, UncaughtTimeout, Close
  <2> QED BY <1>12, <2>1, <2>2 DEF WorkerStep
<1> QED BY <1>1, <1>2, <1>3, <1>4, <1>5, <1>6, <1>7, <1>8, <1>9, <1>10, <1>11, <1>12
       DEF TestNext, MainStep

(* No verdict while a thread may still commit, for any number of threads,  *)
(* faults and signals.                                                     *)
THEOREM VerdictComesLast == TestSpec => []VerdictOfFinishedTest
<1>1. TestInit => PhaseInv
  BY DEF TestInit, InitButTables, PhaseInv
<1>2. PhaseInv => VerdictOfFinishedTest
  BY DEF PhaseInv, VerdictOfFinishedTest
<1> QED BY <1>1, <1>2, PhaseInvStep, PTL DEF TestSpec
-----------------------------------------------------------------------------
(* The counts of the workers in the whole process *)

TalliesInv == CountInv /\ CounterInv /\ TasksInv

LEMMA FlagStaysSet ==
  ASSUME MainStep \/ Signal \/ Logger \/ BreakMainLink \/ TestDone \/ UNCHANGED allVars
  PROVE  is_terminate => is_terminate'
<1> USE DEF allVars, vars, sharedVars
<1>1. CASE \/ MainConnect \/ MainCannotConnect \/ MainUncaughtTimeout
           \/ CreateTables \/ InitTestTblsAndData \/ InitOnReplica
  BY <1>1 DEF MainConnect, MainCannotConnect, MainUncaughtTimeout, CreateTables, InitTestTblsAndData,
     InitOnReplica
<1>2. CASE TestSuccessful \/ TestNotSuccessful \/ TestFailed \/ ValidateWithoutTable \/ ExecuteAgain \/ ExecuteFails
  BY <1>2 DEF TestSuccessful, TestNotSuccessful, TestFailed, ValidateWithoutTable, ExecuteAgain, ExecuteFails
<1>3. CASE Enter \/ Alive \/ Sleep \/ Check \/ Exit
  BY <1>3 DEF Enter, Alive, Sleep, Check, Exit
<1>4. CASE Interrupt \/ Interrupted \/ DictionaryChanged \/ Stop
  BY <1>4 DEF Interrupt, Interrupted, DictionaryChanged, Stop
<1>5. CASE Signal \/ Logger \/ BreakMainLink \/ TestDone \/ UNCHANGED allVars
  BY <1>5 DEF Signal, Handle, Kill, KeyboardInterrupt, Logger, LoggerRuns, LoggerEnds, BreakMainLink, TestDone
<1> QED BY <1>1, <1>2, <1>3, <1>4, <1>5 DEF MainStep

LEMMA TalliesInvStep == TInv /\ SInv /\ TalliesInv /\ [TestNext]_allVars => TalliesInv'
<1> SUFFICES ASSUME TInv, SInv, TalliesInv, [TestNext]_allVars PROVE TalliesInv'
  OBVIOUS
<1>1. CASE (\E w \in Workers : WorkerStep(w)) \/ ClusterStep
  <2>1. Next
    BY <1>1 DEF WorkerStep, ClusterStep, Next, WorkersNext
  <2> QED BY <2>1, CountInvStep, CounterInvStep, TasksInvStep DEF TalliesInv
<1>2. CASE MainStep \/ Signal \/ Logger \/ BreakMainLink \/ TestDone \/ UNCHANGED allVars
  <2>1. UNCHANGED MainDisturbs /\ (is_terminate => is_terminate')
    BY <1>2, MainStepDisturbs, FlagStaysSet DEF TInv
  <2> USE <2>1 DEF MainDisturbs, threadVars, history, TalliesInv
  <2>2. CountInv'
    BY DEF CountInv, Pending, Accounted
  <2>3. CounterInv'
    BY DEF CounterInv, Taking
  <2>4. TasksInv'
    BY DEF TasksInv, Busy
  <2> QED BY <2>2, <2>3, <2>4
<1> QED BY <1>1, <1>2 DEF TestNext

-----------------------------------------------------------------------------
(* What the main thread reads *)

\* Behind haproxy, an open connection of the main thread is to the primary.
ReadsPrimary == Proxied /\ Answers => main_conn = primary

LEMMA ReadsPrimaryStep == TInv /\ ReadsPrimary /\ [TestNext]_allVars => ReadsPrimary'
<1> SUFFICES ASSUME TInv, ReadsPrimary, [TestNext]_allVars PROVE ReadsPrimary'
  OBVIOUS
<1> USE DEF ReadsPrimary, Answers, allVars, vars, mainVars, executeVars, nodeVars
<1>1. CASE MainConnect
  BY <1>1 DEF MainConnect, MainTarget
<1>2. CASE \/ MainCannotConnect \/ MainUncaughtTimeout
           \/ CreateTables \/ InitTestTblsAndData \/ InitOnReplica
  BY <1>2 DEF MainCannotConnect, MainUncaughtTimeout, CreateTables, InitTestTblsAndData, InitOnReplica,
     ExecuteReturns
<1>3. CASE TestSuccessful \/ TestNotSuccessful \/ TestFailed \/ ValidateWithoutTable \/ ExecuteAgain \/ ExecuteFails
  BY <1>3 DEF TestSuccessful, TestNotSuccessful, TestFailed, ValidateWithoutTable, ExecuteReturns,
     ExecuteAgain, ExecuteFails
<1>4. CASE Enter \/ Alive \/ Sleep \/ Check \/ Exit
  BY <1>4 DEF Enter, Alive, Sleep, Check, Exit
<1>5. CASE Interrupt \/ Interrupted \/ DictionaryChanged \/ Stop
  BY <1>5 DEF Interrupt, Interrupted, DictionaryChanged, Stop
<1>6. CASE Signal \/ Logger \/ TestDone \/ UNCHANGED allVars
  BY <1>6 DEF Signal, Handle, Kill, KeyboardInterrupt, Logger, LoggerRuns, LoggerEnds, TestDone
<1>7. CASE ClusterStep
  BY <1>7 DEF ClusterStep
<1>8. CASE BreakMainLink
  BY <1>8 DEF BreakMainLink
<1>9. ASSUME NEW w \in Workers, WorkerStep(w) PROVE ReadsPrimary'
  <2>1. primary' = primary
    BY <1>9 DEF WorkerStep, Thread, Test, Load, Store, Connect, CannotConnect, Begin, LockRow,
       UpdateAndCommit, Committed, DeadlockError, Rollback, RollbackFails, UndefinedTable,
       ReadOnlyTransactionError, QueryCanceledError, AdminShutdownError,
       ConnectionFailureError, UncaughtTimeout, Close
  <2> QED BY <1>9, <2>1 DEF WorkerStep
<1> QED BY <1>1, <1>2, <1>3, <1>4, <1>5, <1>6, <1>7, <1>8, <1>9 DEF TestNext, MainStep

TestInv == TInv /\ SInv /\ TalliesInv /\ PhaseInv /\ ReadsPrimary

LEMMA VerdictStepIsExplained ==
  ASSUME TestInv, [TestNext]_allVars, verdict' # verdict, Proxied, \A w \in Workers : pc[w] # "dead"
  PROVE  reported' >= Left - Lost /\ reported' <= Left + started - Operations + Sum(unknown) - Lost
<1> USE DEF allVars, vars, mainVars, verdictVars, logVars, executeVars, handlerVars
<1>1. CASE TestSuccessful \/ TestFailed
  <2>1. /\ Answers /\ main \in {"execute", "read_again"} /\ func = "validate_test"
        /\ \/ reported' = SumRead - Operations
           \/ reported' = 0 /\ SumRead = Operations
    BY <1>1 DEF TestSuccessful, TestFailed, Expected, TestInv, PhaseInv
  <2>5. AllStopped /\ ~is_terminate /\ main_conn = primary /\ primary \in Hosts
    BY <2>1 DEF TestInv, PhaseInv, ReadsPrimary, Answers, TInv, TypeOK, NodeTypeOK
  <2>2. Sum(ledger[primary]) \in Int
    <3>1. ledger[primary] \in [Workers -> Int]
      BY <2>5 DEF TestInv, TInv, TypeOK, NodeTypeOK
    <3> QED BY <3>1, SumIsSumOf, SumType, ConstantsAssumption DEF ConstantsAssumption
  <2>3. AckedImpliesApplied /\ DuplicatesExplained /\ operation_num <= started
    BY DuplicatesFollow DEF TestInv, SInv, TalliesInv, CounterInv
  <2>4. /\ Sum(applied) \in Int /\ Sum(unknown) \in Int /\ started \in Int
        /\ Operations <= Sum(applied) /\ Sum(applied) <= started + Sum(unknown)
    BY <2>3, <2>5, CommitsWhenStopped DEF TestInv, TalliesInv
  <2>6. Operations \in Int /\ Left \in Int /\ SumRead = Sum(ledger[primary]) + Left
    BY <2>2, <2>5, ConstantsAssumption DEF ConstantsAssumption, SumRead, Balance, Left
  <2>7. reported' = Sum(ledger[primary]) + Left - Operations
    BY ONLY <2>1, <2>2, <2>6
  <2> QED BY ONLY <2>2, <2>4, <2>6, <2>7 DEF Lost
<1>2. CASE \/ MainConnect \/ MainCannotConnect \/ MainUncaughtTimeout
           \/ CreateTables \/ InitTestTblsAndData \/ InitOnReplica
  BY <1>2 DEF MainConnect, MainCannotConnect, MainUncaughtTimeout, CreateTables, InitTestTblsAndData,
     InitOnReplica
<1>3. CASE TestNotSuccessful \/ ValidateWithoutTable \/ ExecuteAgain \/ ExecuteFails
  BY <1>3 DEF TestNotSuccessful, ValidateWithoutTable, ExecuteAgain, ExecuteFails
<1>4. CASE Enter \/ Alive \/ Sleep \/ Check \/ Exit
  BY <1>4 DEF Enter, Alive, Sleep, Check, Exit
<1>5. CASE Interrupt \/ Interrupted \/ DictionaryChanged \/ Stop
  BY <1>5 DEF Interrupt, Interrupted, DictionaryChanged, Stop
<1>6. CASE Signal \/ Logger \/ TestDone \/ UNCHANGED allVars
  BY <1>6 DEF Signal, Handle, Kill, KeyboardInterrupt, Logger, LoggerRuns, LoggerEnds, TestDone
<1>7. CASE ClusterStep \/ BreakMainLink \/ \E w \in Workers : WorkerStep(w)
  BY <1>7 DEF ClusterStep, BreakMainLink, WorkerStep
<1> QED BY <1>1, <1>2, <1>3, <1>4, <1>5, <1>6, <1>7 DEF TestNext, MainStep

LEMMA TestInvInit == Workers # {} /\ TestInit => TestInv
<1> SUFFICES ASSUME Workers # {}, TestInit PROVE TestInv
  OBVIOUS
<1>1. CountInv /\ CounterInv
  BY CountInvInit, CounterInvInit DEF TestInit
<1>2. PhaseInv /\ ReadsPrimary
  BY DEF TestInit, InitButTables, PhaseInv, ReadsPrimary, Answers
<1> QED BY <1>1, <1>2, TInvInit, SInvInit, TasksInvInit DEF TestInit, TestInv, TalliesInv

(* With at least one thread: whatever faults and signals come before it,   *)
(* the verdict that is logged is explained by what was committed, lost and *)
(* left unknown at that moment, and by the table it was read from.         *)
THEOREM GivenVerdictIsExplained ==
  ASSUME Workers # {}
  PROVE  TestSpec => VerdictExplainedWhenGiven
<1>1. TestInit => TestInv
  BY TestInvInit
<1>2. TestInv /\ [TestNext]_allVars => TestInv'
  BY WorkersInvStep, TalliesInvStep, PhaseInvStep, ReadsPrimaryStep DEF TestInv
<1>3. TestInv /\ [TestNext]_allVars =>
        [ (verdict' # verdict /\ Proxied /\ \A w \in Workers : pc[w] # "dead") =>
            /\ reported' >= Left - Lost
            /\ reported' <= Left + started - Operations + Sum(unknown) - Lost ]_allVars
  BY VerdictStepIsExplained
<1> QED BY <1>1, <1>2, <1>3, PTL DEF TestSpec, VerdictExplainedWhenGiven

-----------------------------------------------------------------------------
(* The log file *)

FinishedWorkers == {w \in Workers : pc[w] = "finished"}

LogInv ==
  /\ log_queue \cup log_file = FinishedWorkers \cup (IF verdict = "none" THEN {} ELSE {"verdict"})
  /\ logger = "ended" => do_stop
  /\ do_stop => main \in Ended
  /\ main = "interrupt" => is_terminate
  /\ main = "stop" => verdict # "none" \/ is_terminate
  /\ main = "returned" => verdict # "none" /\ (logger = "ended" => log_queue = {})

LEMMA LogInvStep == TInv /\ PhaseInv /\ LogInv /\ [TestNext]_allVars => LogInv'
<1> SUFFICES ASSUME TInv, PhaseInv, LogInv, [TestNext]_allVars PROVE LogInv'
  OBVIOUS
<1> USE DEF LogInv, Ended, FinishedWorkers, vars, sharedVars, threadVars, mainVars, executeVars, logVars,
        verdictVars
<1>1. CASE MainConnect \/ MainCannotConnect \/ MainUncaughtTimeout
  BY <1>1 DEF MainConnect, MainCannotConnect, MainUncaughtTimeout
<1>2. CASE CreateTables \/ InitTestTblsAndData \/ InitOnReplica
  BY <1>2 DEF CreateTables, InitTestTblsAndData, InitOnReplica, ExecuteReturns
<1>3. CASE TestSuccessful \/ TestFailed
  <2>1. /\ main \in {"execute", "read_again"} /\ main' = "stop" /\ verdict' # "none"
        /\ log_queue' = log_queue \cup {"verdict"} /\ UNCHANGED <<log_file, logger, do_stop, pc>>
    BY <1>3 DEF TestSuccessful, TestFailed, ExecuteReturns, Log
  <2>2. verdict = "none"
    BY <2>1 DEF PhaseInv
  <2> QED BY <2>1, <2>2
<1>4. CASE TestNotSuccessful \/ ValidateWithoutTable
  BY <1>4 DEF TestNotSuccessful, ValidateWithoutTable
<1>5. CASE ExecuteAgain \/ ExecuteFails
  BY <1>5 DEF ExecuteAgain, ExecuteFails, Executing
<1>6. CASE Enter \/ Alive \/ Sleep \/ Check \/ Exit
  BY <1>6 DEF Enter, Alive, Sleep, Check, Exit
<1>7. CASE Interrupt \/ Interrupted \/ DictionaryChanged
  BY <1>7 DEF Interrupt, Interrupted, DictionaryChanged
<1>8. CASE Stop
  BY <1>8 DEF Stop, StopLogger
<1>9. CASE Signal \/ TestDone \/ UNCHANGED allVars
  BY <1>9 DEF Signal, TestDone, allVars, Handle, Kill, KeyboardInterrupt
<1>10. CASE Logger
  <2>1. /\ log_queue' \cup log_file' = log_queue \cup log_file /\ log_queue' = {}
        /\ UNCHANGED <<pc, verdict, main, is_terminate, do_stop>>
        /\ logger' = "ended" => logger = "ended" \/ do_stop
    BY <1>10 DEF Logger, LoggerRuns, LoggerEnds, FlushData, LastFlush
  <2> QED BY <2>1
<1>11. CASE BreakMainLink
  BY <1>11 DEF BreakMainLink
<1>12. CASE ClusterStep
  <2>1. UNCHANGED <<sharedVars, threadVars>>
    BY <1>12 DEF ClusterStep, ClusterNext, Server, Patroni, Faults, programVars, ServerCommit,
       ServerNotices, CancelIgnored, Promote, Restart, Replicate, Switchover, Crash, PrimaryEnds, BreakLink,
       OperatorCancel
  <2> QED BY <1>12, <2>1 DEF ClusterStep
<1>13. ASSUME NEW w \in Workers, WorkerStep(w) PROVE LogInv'
  <2>1. pc[w] \notin Stopped
    BY <1>13, StoppedTakesNoStep DEF WorkerStep
  <2>2. verdict = "none" /\ main # "returned"
    BY <2>1 DEF PhaseInv, AllStopped
  <2>3. is_terminate' = is_terminate /\ \A v \in Workers \ {w} : pc'[v] = pc[v]
    <3>1. pc \in [Workers -> PCs]
      BY DEF TInv, TypeOK, ThreadTypeOK
    <3>2. is_terminate' = is_terminate /\ (pc' = pc \/ \E to : pc' = [pc EXCEPT ![w] = to])
      BY <1>13 DEF WorkerStep, Thread, Test, Load, Store, Connect, CannotConnect, Begin, LockRow,
         UpdateAndCommit, Committed, ReturnsTrue, DeadlockError, Rollback, RollbackFails, UndefinedTable,
         ReadOnlyTransactionError, QueryCanceledError, AdminShutdownError, Goto,
         ConnectionFailureError, UncaughtTimeout, Close
    <3> QED BY <3>1, <3>2
  <2>4. UNCHANGED <<main, verdict, logger, do_stop>>
    BY <1>13 DEF WorkerStep, Log
  <2>5. CASE pc'[w] = "finished"
    <3>1. log_queue' = log_queue \cup {w} /\ log_file' = log_file
      BY <1>13, <2>1, <2>5 DEF WorkerStep, Log, Stopped
    <3>2. FinishedWorkers' = FinishedWorkers \cup {w}
      BY <2>3, <2>5
    <3> QED BY <2>2, <2>3, <2>4, <3>1, <3>2
  <2>6. CASE pc'[w] # "finished"
    <3>1. UNCHANGED <<log_queue, log_file>>
      BY <1>13, <2>6 DEF WorkerStep
    <3>2. FinishedWorkers' = FinishedWorkers
      BY <2>1, <2>3, <2>6 DEF Stopped
    <3> QED BY <2>2, <2>3, <2>4, <3>1, <3>2
  <2> QED BY <2>5, <2>6
<1> QED BY <1>1, <1>2, <1>3, <1>4, <1>5, <1>6, <1>7, <1>8, <1>9, <1>10, <1>11, <1>12, <1>13
       DEF TestNext, MainStep

(* When the process has run to its end and the logger has stopped, every   *)
(* message is in the file, for any number of threads.                      *)
THEOREM LogIsComplete == TestSpec => []LogComplete
<1>1. TestInit => TInv /\ SInv /\ PhaseInv /\ LogInv
  BY TInvInit, SInvInit DEF TestInit, InitButTables, PhaseInv, LogInv, FinishedWorkers
<1>2. LogInv => LogComplete
  BY DEF LogInv, LogComplete, FinishedWorkers
<1> QED BY <1>1, <1>2, WorkersInvStep, PhaseInvStep, LogInvStep, PTL DEF TestSpec
=============================================================================
