------------------------- MODULE BillingCountProofs -------------------------
(***************************************************************************)
(* Proofs about BillingWorkers, for every number of threads, sessions,     *)
(* hosts, operations and faults.  First its types and what the threads     *)
(* hold; then the properties that count: how often a transfer can be       *)
(* committed, how many tasks are begun, how many rows a COMMIT holds, and  *)
(* how many sessions the threads can drop without closing them.            *)
(***************************************************************************)
EXTENDS BillingWorkers, SequenceTheorems, FiniteSetTheorems, FunctionTheorems, InductionLemmas, TLAPS

(* What TypeOK needs to be inductive: the deque of hosts is never empty,   *)
(* and a connected worker has not used up more attempts than allowed.      *)
HostsNonempty == \A w \in Workers : db_hosts[w] # <<>>

AttemptsLeft ==
  \A w \in Workers : db_local[w] # None => reconnect_attempt[w] <= ReconnectAttempt

TInv == TypeOK /\ HostsNonempty /\ AttemptsLeft

(* Every initial state is well typed. *)
LEMMA TInvInit == InitButTables /\ (TablesBefore \/ TablesCreated) => TInv
<1> SUFFICES ASSUME InitButTables, TablesBefore \/ TablesCreated PROVE TInv
  OBVIOUS
<1> USE ConstantsAssumption DEF ConstantsAssumption, InitButTables
<1>1. HostList[1] \in Hosts
  OBVIOUS
<1>2. SharedTypeOK /\ HistoryTypeOK
  <2>1. SharedTypeOK
    BY DEF SharedTypeOK
  <2>2. 0 \in 0..MaxBlind
    BY ONLY ConstantsAssumption DEF ConstantsAssumption
  <2>3. HistoryTypeOK
    BY ONLY <2>2, InitButTables DEF InitButTables, HistoryTypeOK
  <2> QED BY <2>1, <2>3
<1>3. NodeTypeOK
  <2>1. tables \in [Hosts -> {"none", "old", "new"}]
    BY DEF TablesBefore, TablesCreated
  <2> QED BY <2>1 DEF NodeTypeOK
<1>4. ThreadTypeOK
  BY DEF ThreadTypeOK, PCs
<1>5. SessTypeOK
  BY <1>1 DEF SessTypeOK
<1>6. HostsNonempty /\ AttemptsLeft
  BY DEF HostsNonempty, AttemptsLeft
<1> QED BY <1>2, <1>3, <1>4, <1>5, <1>6 DEF TInv, TypeOK

(* A rotation of a nonempty deque of hosts is a nonempty deque of hosts. *)
LEMMA RotatedType ==
  ASSUME NEW q \in Seq(Hosts), q # <<>>
  PROVE  Rotated(q) \in Seq(Hosts) /\ Rotated(q) # <<>> /\ Head(Rotated(q)) \in Hosts
<1>1. Head(q) \in Hosts /\ Tail(q) \in Seq(Hosts)
  BY HeadTailProperties
<1>2. Append(Tail(q), Head(q)) \in Seq(Hosts)
  BY <1>1, AppendProperties
<1>3. Len(Append(Tail(q), Head(q))) = Len(Tail(q)) + 1 /\ Len(Tail(q)) \in Nat
  BY <1>1, AppendProperties
<1>4. Append(Tail(q), Head(q)) # <<>>
  BY <1>3
<1> QED BY <1>2, <1>4, HeadTailProperties DEF Rotated

(* Every step of a thread leads to a well typed state. *)
LEMMA TInvThread ==
  ASSUME TInv, NEW w \in Workers, Thread(w)
  PROVE  TInv'
<1> USE ConstantsAssumption DEF ConstantsAssumption, Goto, LinkUp, PCs, Working, InTxn, Stopped,
        sharedVars, threadVars, nodeVars, sessVars, history
<1>1. CASE Test(w)
  <2>1. SharedTypeOK' /\ NodeTypeOK' /\ SessTypeOK' /\ HistoryTypeOK' /\ HostsNonempty' /\ AttemptsLeft'
    BY <1>1 DEF Test, SharedTypeOK, NodeTypeOK, SessTypeOK, HistoryTypeOK, HostsNonempty, AttemptsLeft, TInv, TypeOK
  <2>2. ThreadTypeOK'
    BY <1>1 DEF Test, TasksLeft, ThreadTypeOK, TInv, TypeOK
  <2> QED BY <2>1, <2>2 DEF TInv, TypeOK
<1>2. CASE Load(w)
  <2>1. SharedTypeOK' /\ NodeTypeOK' /\ SessTypeOK' /\ HistoryTypeOK' /\ HostsNonempty' /\ AttemptsLeft'
    BY <1>2 DEF Load, SharedTypeOK, NodeTypeOK, SessTypeOK, HistoryTypeOK, HostsNonempty, AttemptsLeft, TInv, TypeOK
  <2>2. ThreadTypeOK'
    BY <1>2 DEF Load, SharedTypeOK, ThreadTypeOK, TInv, TypeOK
  <2> QED BY <2>1, <2>2 DEF TInv, TypeOK
<1>3. CASE Store(w)
  <2>1. NodeTypeOK' /\ SessTypeOK' /\ HostsNonempty' /\ AttemptsLeft'
    BY <1>3 DEF Store, NodeTypeOK, SessTypeOK, HostsNonempty, AttemptsLeft, TInv, TypeOK
  <2>2. SharedTypeOK'
    BY <1>3 DEF Store, DoWork, ThreadTypeOK, SharedTypeOK, TInv, TypeOK
  <2>3. ThreadTypeOK'
    BY <1>3 DEF Store, DoWork, ThreadTypeOK, TInv, TypeOK
  <2>4. HistoryTypeOK'
    BY <1>3 DEF Store, DoWork, HistoryTypeOK, TInv, TypeOK
  <2> QED BY <2>1, <2>2, <2>3, <2>4 DEF TInv, TypeOK
<1>4. CASE Connect(w)
  <2>1. NodeTypeOK' /\ HistoryTypeOK'
    BY <1>4 DEF Connect, NodeTypeOK, HistoryTypeOK, TInv, TypeOK
  <2>2. SharedTypeOK'
    BY <1>4 DEF Connect, FreeSession, Target, HostsToTry, AttemptsMade, Rotating, SharedTypeOK, TInv, TypeOK
  <2>3. ThreadTypeOK'
    BY <1>4, RotatedType DEF Connect, FreeSession, Target, HostsToTry, AttemptsMade, Rotating, HostsNonempty, ThreadTypeOK, TInv, TypeOK
  <2>4. SessTypeOK'
    <3>1. Target(w) \in Hosts
      BY <1>4 DEF Connect, NodeTypeOK, TInv, TypeOK
    <3>2. PICK s \in Sessions : /\ owner' = [owner EXCEPT ![s] = w]
                               /\ host' = [host EXCEPT ![s] = Target(w)]
                               /\ txn' = [txn EXCEPT ![s] = "idle"]
                               /\ link' = [link EXCEPT ![s] = "up"]
                               /\ cancel' = cancel \ {s}
      BY <1>4 DEF Connect
    <3> QED BY <1>4, <3>1, <3>2 DEF Connect, SessTypeOK, TInv, TypeOK
  <2>5. HostsNonempty'
    BY <1>4, RotatedType DEF Connect, FreeSession, Target, HostsToTry, AttemptsMade, Rotating, HostsNonempty, ThreadTypeOK, TInv, TypeOK
  <2>6. AttemptsLeft'
    BY <1>4 DEF Connect, FreeSession, Target, HostsToTry, AttemptsMade, Rotating, AttemptsLeft, ThreadTypeOK, TInv, TypeOK
  <2> QED BY <2>1, <2>2, <2>3, <2>4, <2>5, <2>6 DEF TInv, TypeOK
<1>5. CASE CannotConnect(w)
  <2>1. SharedTypeOK' /\ NodeTypeOK' /\ SessTypeOK' /\ HistoryTypeOK'
    BY <1>5 DEF CannotConnect, SharedTypeOK, NodeTypeOK, SessTypeOK, HistoryTypeOK, TInv, TypeOK
  <2>2. ThreadTypeOK'
    BY <1>5, RotatedType DEF CannotConnect, FreeSession, Target, HostsToTry, AttemptsMade, Rotating, HostsNonempty, ThreadTypeOK, TInv, TypeOK
  <2>3. HostsNonempty'
    BY <1>5, RotatedType DEF CannotConnect, FreeSession, Target, HostsToTry, AttemptsMade, Rotating, HostsNonempty, ThreadTypeOK, TInv, TypeOK
  <2>4. AttemptsLeft'
    BY <1>5 DEF CannotConnect, FreeSession, Target, HostsToTry, AttemptsMade, Rotating, AttemptsLeft, ThreadTypeOK, TInv, TypeOK
  <2> QED BY <2>1, <2>2, <2>3, <2>4 DEF TInv, TypeOK
<1>6. CASE Begin(w)
  <2>1. SharedTypeOK' /\ NodeTypeOK' /\ HistoryTypeOK' /\ HostsNonempty' /\ AttemptsLeft'
    BY <1>6 DEF Begin, SharedTypeOK, NodeTypeOK, HistoryTypeOK, HostsNonempty, AttemptsLeft, TInv, TypeOK
  <2>2. ThreadTypeOK'
    BY <1>6 DEF Begin, ThreadTypeOK, TInv, TypeOK
  <2>3. SessTypeOK'
    BY <1>6 DEF Begin, SessTypeOK, TInv, TypeOK
  <2> QED BY <2>1, <2>2, <2>3 DEF TInv, TypeOK
<1>7. CASE LockRow(w)
  <2>1. SharedTypeOK' /\ NodeTypeOK' /\ HistoryTypeOK' /\ HostsNonempty' /\ AttemptsLeft'
    BY <1>7 DEF LockRow, SharedTypeOK, NodeTypeOK, HistoryTypeOK, HostsNonempty, AttemptsLeft, TInv, TypeOK
  <2>2. ThreadTypeOK'
    BY <1>7 DEF LockRow, ThreadTypeOK, TInv, TypeOK
  <2>3. SessTypeOK'
    BY <1>7 DEF LockRow, ThreadTypeOK, SessTypeOK, TInv, TypeOK
  <2> QED BY <2>1, <2>2, <2>3 DEF TInv, TypeOK
<1>8. CASE UpdateAndCommit(w)
  <2>1. SharedTypeOK' /\ NodeTypeOK' /\ HistoryTypeOK' /\ HostsNonempty' /\ AttemptsLeft'
    BY <1>8 DEF UpdateAndCommit, SharedTypeOK, NodeTypeOK, HistoryTypeOK, HostsNonempty, AttemptsLeft, TInv, TypeOK
  <2>2. ThreadTypeOK'
    BY <1>8 DEF UpdateAndCommit, RowsLocked, ThreadTypeOK, TInv, TypeOK
  <2>3. SessTypeOK'
    BY <1>8 DEF UpdateAndCommit, RowsLocked, SessTypeOK, TInv, TypeOK
  <2> QED BY <2>1, <2>2, <2>3 DEF TInv, TypeOK
<1>9. CASE Committed(w)
  <2>1. SharedTypeOK' /\ NodeTypeOK' /\ HostsNonempty' /\ AttemptsLeft'
    BY <1>9 DEF Committed, ReturnsTrue, KeepConnection, SharedTypeOK, NodeTypeOK, HostsNonempty, AttemptsLeft, TInv, TypeOK
  <2>2. ThreadTypeOK'
    BY <1>9 DEF Committed, CommitAnswered, ReturnsTrue, KeepConnection, ThreadTypeOK, TInv, TypeOK
  <2>3. SessTypeOK'
    BY <1>9 DEF Committed, CommitAnswered, ReturnsTrue, KeepConnection, SessTypeOK, TInv, TypeOK
  <2>4. HistoryTypeOK'
    BY <1>9 DEF Committed, CommitAnswered, ReturnsTrue, KeepConnection, HistoryTypeOK, TInv, TypeOK
  <2> QED BY <2>1, <2>2, <2>3, <2>4 DEF TInv, TypeOK
<1>10. CASE DeadlockError(w)
  <2>1. SharedTypeOK' /\ NodeTypeOK' /\ HistoryTypeOK' /\ HostsNonempty' /\ AttemptsLeft'
    BY <1>10 DEF DeadlockError, SharedTypeOK, NodeTypeOK, HistoryTypeOK, HostsNonempty, AttemptsLeft, TInv, TypeOK
  <2>2. ThreadTypeOK'
    BY <1>10 DEF DeadlockError, AbortOnExit, Unwant, Freed, ThreadTypeOK, TInv, TypeOK
  <2>3. SessTypeOK'
    BY <1>10 DEF DeadlockError, AbortOnExit, Unwant, Freed, SessTypeOK, TInv, TypeOK
  <2> QED BY <2>1, <2>2, <2>3 DEF TInv, TypeOK
<1>11. CASE Rollback(w)
  <2>1. SharedTypeOK' /\ NodeTypeOK' /\ SessTypeOK' /\ HistoryTypeOK' /\ HostsNonempty' /\ AttemptsLeft'
    BY <1>11 DEF Rollback, SharedTypeOK, NodeTypeOK, SessTypeOK, HistoryTypeOK, HostsNonempty, AttemptsLeft, TInv, TypeOK
  <2>2. ThreadTypeOK'
    BY <1>11 DEF Rollback, ThreadTypeOK, TInv, TypeOK
  <2> QED BY <2>1, <2>2 DEF TInv, TypeOK
<1>12. CASE RollbackFails(w)
  <2>1. SharedTypeOK' /\ NodeTypeOK' /\ SessTypeOK' /\ HistoryTypeOK' /\ HostsNonempty' /\ AttemptsLeft'
    BY <1>12 DEF RollbackFails, SharedTypeOK, NodeTypeOK, SessTypeOK, HistoryTypeOK, HostsNonempty, AttemptsLeft, TInv, TypeOK
  <2>2. ThreadTypeOK'
    BY <1>12 DEF RollbackFails, LinkIn, ThreadTypeOK, TInv, TypeOK
  <2> QED BY <2>1, <2>2 DEF TInv, TypeOK
<1>13. CASE ReadOnlyTransactionError(w)
  <2>1. SharedTypeOK' /\ NodeTypeOK' /\ SessTypeOK' /\ HistoryTypeOK'
    BY <1>13 DEF ReadOnlyTransactionError, SharedTypeOK, NodeTypeOK, SessTypeOK, HistoryTypeOK, TInv, TypeOK
  <2>2. ThreadTypeOK'
    BY <1>13, RotatedType DEF ReadOnlyTransactionError, SwitchHost, Forget, RetryAt, HostsNonempty, ThreadTypeOK, TInv, TypeOK
  <2>3. HostsNonempty'
    BY <1>13, RotatedType DEF ReadOnlyTransactionError, SwitchHost, Forget, RetryAt, HostsNonempty, ThreadTypeOK, TInv, TypeOK
  <2>4. AttemptsLeft'
    BY <1>13 DEF ReadOnlyTransactionError, Forget, RetryAt, AttemptsLeft, ThreadTypeOK, TInv, TypeOK
  <2> QED BY <2>1, <2>2, <2>3, <2>4 DEF TInv, TypeOK
<1>14. CASE QueryCanceledError(w)
  <2>1. SharedTypeOK' /\ NodeTypeOK' /\ HistoryTypeOK' /\ HostsNonempty'
    BY <1>14 DEF QueryCanceledError, SharedTypeOK, NodeTypeOK, HistoryTypeOK, HostsNonempty, TInv, TypeOK
  <2>2. ThreadTypeOK'
    <3> USE <1>14 DEF QueryCanceledError, RetryAt, Forget, CanBeCanceled, Unwant, ThreadTypeOK, TInv, TypeOK
    <3>1. pc' \in [Workers -> PCs]
      OBVIOUS
    <3>2. db_local' \in [Workers -> Sessions \cup {None}]
      OBVIOUS
    <3>3. want' \in [Workers -> Seq(Accounts)]
      OBVIOUS
    <3>4. reconnect_attempt' \in [Workers -> 0..ReconnectAttempt + 1]
      BY DEF AttemptsLeft
    <3> QED BY <3>1, <3>2, <3>3, <3>4
  <2>3. SessTypeOK'
    BY <1>14 DEF QueryCanceledError, CanBeCanceled, AbortOnExit, Unwant, Freed, Forget, RetryAt, SessTypeOK, TInv, TypeOK
  <2>4. AttemptsLeft'
    BY <1>14 DEF QueryCanceledError, CanBeCanceled, AbortOnExit, Unwant, Freed, Forget, RetryAt, AttemptsLeft, ThreadTypeOK, TInv, TypeOK
  <2> QED BY <2>1, <2>2, <2>3, <2>4 DEF TInv, TypeOK
<1>15. CASE AdminShutdownError(w)
  <2>1. SharedTypeOK' /\ NodeTypeOK' /\ SessTypeOK' /\ HostsNonempty'
    BY <1>15 DEF AdminShutdownError, SharedTypeOK, NodeTypeOK, SessTypeOK, HostsNonempty, TInv, TypeOK
  <2>2. ThreadTypeOK'
    <3> USE <1>15 DEF AdminShutdownError, RetryAt, Forget, LinkIn, LoseTransaction, Unwant, ThreadTypeOK, TInv, TypeOK
    <3>1. pc' \in [Workers -> PCs]
      OBVIOUS
    <3>2. db_local' \in [Workers -> Sessions \cup {None}]
      OBVIOUS
    <3>3. want' \in [Workers -> Seq(Accounts)]
      OBVIOUS
    <3>4. reconnect_attempt' \in [Workers -> 0..ReconnectAttempt + 1]
      BY DEF AttemptsLeft
    <3> QED BY <3>1, <3>2, <3>3, <3>4
  <2>3. HistoryTypeOK'
    BY <1>15 DEF AdminShutdownError, LinkIn, Forget, RetryAt, LoseTransaction, Unwant, HistoryTypeOK, TInv, TypeOK
  <2>4. AttemptsLeft'
    BY <1>15 DEF AdminShutdownError, LinkIn, Forget, RetryAt, LoseTransaction, Unwant, AttemptsLeft, ThreadTypeOK, TInv, TypeOK
  <2> QED BY <2>1, <2>2, <2>3, <2>4 DEF TInv, TypeOK
<1>16. CASE ConnectionFailureError(w)
  <2>1. SharedTypeOK' /\ NodeTypeOK' /\ SessTypeOK' /\ HostsNonempty'
    BY <1>16 DEF ConnectionFailureError, SharedTypeOK, NodeTypeOK, SessTypeOK, HostsNonempty, TInv, TypeOK
  <2>2. ThreadTypeOK'
    <3> USE <1>16 DEF ConnectionFailureError, RetryAt, Forget, LinkIn, LoseTransaction, Unwant, ThreadTypeOK, TInv, TypeOK
    <3>1. pc' \in [Workers -> PCs]
      OBVIOUS
    <3>2. db_local' \in [Workers -> Sessions \cup {None}]
      OBVIOUS
    <3>3. want' \in [Workers -> Seq(Accounts)]
      OBVIOUS
    <3>4. reconnect_attempt' \in [Workers -> 0..ReconnectAttempt + 1]
      BY DEF AttemptsLeft
    <3> QED BY <3>1, <3>2, <3>3, <3>4
  <2>3. HistoryTypeOK'
    BY <1>16 DEF ConnectionFailureError, LinkIn, Forget, RetryAt, LoseTransaction, Unwant, HistoryTypeOK, TInv, TypeOK
  <2>4. AttemptsLeft'
    BY <1>16 DEF ConnectionFailureError, LinkIn, Forget, RetryAt, LoseTransaction, Unwant, AttemptsLeft, ThreadTypeOK, TInv, TypeOK
  <2> QED BY <2>1, <2>2, <2>3, <2>4 DEF TInv, TypeOK
<1>17. CASE UncaughtTimeout(w)
  <2>1. SharedTypeOK' /\ SessTypeOK' /\ HistoryTypeOK' /\ HostsNonempty' /\ AttemptsLeft'
    BY <1>17 DEF UncaughtTimeout, SharedTypeOK, SessTypeOK, HistoryTypeOK, HostsNonempty, AttemptsLeft, TInv, TypeOK
  <2>2. ThreadTypeOK'
    BY <1>17 DEF UncaughtTimeout, Fault, ThreadTypeOK, TInv, TypeOK
  <2>3. NodeTypeOK'
    BY <1>17 DEF UncaughtTimeout, Fault, NodeTypeOK, TInv, TypeOK
  <2> QED BY <2>1, <2>2, <2>3 DEF TInv, TypeOK
<1>18. CASE Close(w)
  <2>1. SharedTypeOK' /\ NodeTypeOK' /\ HistoryTypeOK' /\ HostsNonempty'
    BY <1>18 DEF Close, SharedTypeOK, NodeTypeOK, HistoryTypeOK, HostsNonempty, TInv, TypeOK
  <2>2. ThreadTypeOK'
    BY <1>18 DEF Close, ThreadTypeOK, TInv, TypeOK
  <2>3. SessTypeOK'
    BY <1>18 DEF Close, SessTypeOK, TInv, TypeOK
  <2>4. AttemptsLeft'
    BY <1>18 DEF Close, AttemptsLeft, ThreadTypeOK, TInv, TypeOK
  <2> QED BY <2>1, <2>2, <2>3, <2>4 DEF TInv, TypeOK
<1>19. CASE UndefinedTable(w)
  <2>1. SharedTypeOK' /\ NodeTypeOK' /\ SessTypeOK' /\ HistoryTypeOK' /\ HostsNonempty' /\ AttemptsLeft'
    BY <1>19 DEF UndefinedTable, SharedTypeOK, NodeTypeOK, SessTypeOK, HistoryTypeOK, HostsNonempty, AttemptsLeft, TInv, TypeOK
  <2>2. ThreadTypeOK'
    BY <1>19 DEF UndefinedTable, ThreadTypeOK, TInv, TypeOK
  <2> QED BY <2>1, <2>2 DEF TInv, TypeOK
<1> QED BY <1>1, <1>2, <1>3, <1>4, <1>5, <1>6, <1>7, <1>8, <1>9, <1>10, <1>11, <1>12, <1>13, <1>14, <1>15, <1>16, <1>17,
           <1>18, <1>19 DEF Thread

(* Hosts receive what has its type. *)
LEMMA ReceiveTypes ==
  ASSUME NodeTypeOK, NEW H, primary \in Hosts, Receive(H)
  PROVE  /\ tables' \in [Hosts -> {"none", "old", "new"}]
         /\ ledger' \in [Hosts -> [Workers -> Nat]]
  BY DEF Receive, NodeTypeOK

(* What the end of a primary does to the types. *)
LEMMA PrimaryEndsTypes ==
  ASSUME TInv, PrimaryEnds
  PROVE  /\ SharedTypeOK' /\ ThreadTypeOK' /\ HistoryTypeOK' /\ HostsNonempty' /\ AttemptsLeft'
         /\ primary' \in Hosts \cup {None} /\ up' \in SUBSET Hosts
         /\ SessTypeOK'
<1> USE ConstantsAssumption DEF ConstantsAssumption, programVars, sharedVars, threadVars, nodeVars, sessVars, history
<1>1. SharedTypeOK' /\ ThreadTypeOK' /\ HistoryTypeOK' /\ HostsNonempty' /\ AttemptsLeft'
  BY DEF PrimaryEnds, EndSessions, SharedTypeOK, ThreadTypeOK, HistoryTypeOK, HostsNonempty, AttemptsLeft, TInv, TypeOK
<1>2. primary' \in Hosts \cup {None} /\ up' \in SUBSET Hosts
  BY DEF PrimaryEnds, NodeTypeOK, TInv, TypeOK
<1>3. SessTypeOK'
  BY DEF PrimaryEnds, EndSessions, OnHost, Freed, SessTypeOK, TInv, TypeOK
<1> QED BY <1>1, <1>2, <1>3

(* Every other step does, too. *)
LEMMA TInvCluster ==
  ASSUME TInv, ClusterNext \/ Terminate \/ Done
  PROVE  TInv'
<1> USE ConstantsAssumption DEF ConstantsAssumption, programVars,
        sharedVars, threadVars, nodeVars, sessVars, history
<1>1. ASSUME NEW s \in Sessions, ServerCommit(s)
     PROVE  TInv'
  <2>1. SharedTypeOK' /\ ThreadTypeOK' /\ HostsNonempty' /\ AttemptsLeft'
    BY <1>1 DEF ServerCommit, SharedTypeOK, ThreadTypeOK, HostsNonempty, AttemptsLeft, TInv, TypeOK
  <2>2. NodeTypeOK'
    <3>1. CASE owner[s] \in Workers /\ primary \in Hosts
      BY <1>1, <3>1 DEF ServerCommit, NodeTypeOK, TInv, TypeOK
    <3>2. CASE owner[s] \notin Workers \/ primary \notin Hosts
      <4>1. ledger' = ledger
        BY <1>1, <3>2 DEF ServerCommit, NodeTypeOK, TInv, TypeOK
      <4> QED BY <1>1, <4>1 DEF ServerCommit, NodeTypeOK, TInv, TypeOK
    <3> QED BY <3>1, <3>2
  <2>3. SessTypeOK'
    BY <1>1 DEF ServerCommit, Freed, SessTypeOK, TInv, TypeOK
  <2>4. HistoryTypeOK'
    <3>1. /\ applied \in [Workers -> Nat] /\ applied' = [applied EXCEPT ![owner[s]] = @ + 1]
          /\ UNCHANGED <<started, acked, unknown, blind>> /\ HistoryTypeOK
      BY <1>1 DEF ServerCommit, HistoryTypeOK, TInv, TypeOK
    <3>2. applied' \in [Workers -> Nat]
      <4>1. CASE owner[s] \in Workers
        BY ONLY <3>1, <4>1
      <4>2. CASE owner[s] \notin Workers
        BY ONLY <3>1, <4>2
      <4> QED BY <4>1, <4>2
    <3> QED BY ONLY <3>1, <3>2 DEF HistoryTypeOK
  <2> QED BY <2>1, <2>2, <2>3, <2>4 DEF TInv, TypeOK
<1>2. ASSUME NEW s \in Sessions, ServerNotices(s)
     PROVE  TInv'
  <2>1. SharedTypeOK' /\ ThreadTypeOK' /\ NodeTypeOK' /\ HistoryTypeOK' /\ HostsNonempty' /\ AttemptsLeft'
    BY <1>2 DEF ServerNotices, SharedTypeOK, ThreadTypeOK, NodeTypeOK, HistoryTypeOK, HostsNonempty, AttemptsLeft, TInv, TypeOK
  <2>2. SessTypeOK'
    BY <1>2 DEF ServerNotices, Freed, SessTypeOK, TInv, TypeOK
  <2> QED BY <2>1, <2>2 DEF TInv, TypeOK
<1>3. ASSUME NEW s \in Sessions, CancelIgnored(s)
     PROVE  TInv'
  <2>1. SharedTypeOK' /\ ThreadTypeOK' /\ NodeTypeOK' /\ HistoryTypeOK' /\ HostsNonempty' /\ AttemptsLeft'
    BY <1>3 DEF CancelIgnored, SharedTypeOK, ThreadTypeOK, NodeTypeOK, HistoryTypeOK, HostsNonempty, AttemptsLeft, TInv, TypeOK
  <2>2. SessTypeOK'
    BY <1>3 DEF CancelIgnored, SessTypeOK, TInv, TypeOK
  <2> QED BY <2>1, <2>2 DEF TInv, TypeOK
<1>4. ASSUME NEW h \in Hosts, Promote(h)
     PROVE  TInv'
  <2>1. SharedTypeOK' /\ ThreadTypeOK' /\ SessTypeOK' /\ HistoryTypeOK' /\ HostsNonempty' /\ AttemptsLeft'
    BY <1>4 DEF Promote, SharedTypeOK, ThreadTypeOK, SessTypeOK, HistoryTypeOK, HostsNonempty, AttemptsLeft, TInv, TypeOK
  <2>2. NodeTypeOK'
    BY <1>4 DEF Promote, NodeTypeOK, TInv, TypeOK
  <2> QED BY <2>1, <2>2 DEF TInv, TypeOK
<1>5. ASSUME NEW h \in Hosts, Restart(h)
     PROVE  TInv'
  <2>1. SharedTypeOK' /\ ThreadTypeOK' /\ SessTypeOK' /\ HistoryTypeOK' /\ HostsNonempty' /\ AttemptsLeft'
    BY <1>5 DEF Restart, SharedTypeOK, ThreadTypeOK, SessTypeOK, HistoryTypeOK, HostsNonempty, AttemptsLeft, TInv, TypeOK
  <2>2. NodeTypeOK'
    <3>1. CASE primary = None
      BY <1>5, <3>1 DEF Restart, NodeTypeOK, TInv, TypeOK
    <3>2. CASE primary # None
      BY <1>5, <3>2, ReceiveTypes DEF Restart, NodeTypeOK, TInv, TypeOK
    <3> QED BY <3>1, <3>2
  <2> QED BY <2>1, <2>2 DEF TInv, TypeOK
<1>6. ASSUME NEW h \in Hosts, Replicate(h)
     PROVE  TInv'
  <2>1. SharedTypeOK' /\ ThreadTypeOK' /\ SessTypeOK' /\ HistoryTypeOK' /\ HostsNonempty' /\ AttemptsLeft'
    BY <1>6 DEF Replicate, SharedTypeOK, ThreadTypeOK, SessTypeOK, HistoryTypeOK, HostsNonempty, AttemptsLeft, TInv, TypeOK
  <2>2. NodeTypeOK'
    BY <1>6, ReceiveTypes DEF Replicate, NodeTypeOK, TInv, TypeOK
  <2> QED BY <2>1, <2>2 DEF TInv, TypeOK
<1>7. CASE Switchover
  <2>1. NodeTypeOK'
    <3>1. primary \in Hosts
      BY <1>7 DEF Switchover, PrimaryEnds, NodeTypeOK, TInv, TypeOK
    <3>2. faults' \in 0..MaxFaults
      BY <1>7 DEF Switchover, Fault, NodeTypeOK, TInv, TypeOK
    <3> QED BY <1>7, <3>1, <3>2, ReceiveTypes, PrimaryEndsTypes DEF Switchover, NodeTypeOK, TInv, TypeOK
  <2> QED BY <1>7, <2>1, PrimaryEndsTypes DEF Switchover, TInv, TypeOK
<1>8. CASE Crash
  <2>1. NodeTypeOK'
    BY <1>8, PrimaryEndsTypes DEF Crash, Fault, NodeTypeOK, TInv, TypeOK
  <2> QED BY <1>8, <2>1, PrimaryEndsTypes DEF Crash, TInv, TypeOK
<1>9. ASSUME NEW s \in Sessions, BreakLink(s)
     PROVE  TInv'
  <2>1. SharedTypeOK' /\ ThreadTypeOK' /\ HistoryTypeOK' /\ HostsNonempty' /\ AttemptsLeft'
    BY <1>9 DEF BreakLink, Fault, SharedTypeOK, ThreadTypeOK, HistoryTypeOK, HostsNonempty, AttemptsLeft, TInv, TypeOK
  <2>2. NodeTypeOK'
    BY <1>9 DEF BreakLink, Fault, Freed, NodeTypeOK, TInv, TypeOK
  <2>3. SessTypeOK'
    BY <1>9 DEF BreakLink, Fault, Freed, SessTypeOK, TInv, TypeOK
  <2> QED BY <2>1, <2>2, <2>3 DEF TInv, TypeOK
<1>10. ASSUME NEW s \in Sessions, OperatorCancel(s)
     PROVE  TInv'
  <2>1. SharedTypeOK' /\ ThreadTypeOK' /\ HistoryTypeOK' /\ HostsNonempty' /\ AttemptsLeft'
    BY <1>10 DEF OperatorCancel, Fault, SharedTypeOK, ThreadTypeOK, HistoryTypeOK, HostsNonempty, AttemptsLeft, TInv, TypeOK
  <2>2. NodeTypeOK'
    BY <1>10 DEF OperatorCancel, Fault, NodeTypeOK, TInv, TypeOK
  <2>3. SessTypeOK'
    BY <1>10 DEF OperatorCancel, Fault, SessTypeOK, TInv, TypeOK
  <2> QED BY <2>1, <2>2, <2>3 DEF TInv, TypeOK
<1>11. CASE Terminate
  <2>1. ThreadTypeOK' /\ NodeTypeOK' /\ HistoryTypeOK' /\ HostsNonempty' /\ AttemptsLeft'
    BY <1>11 DEF Terminate, ThreadTypeOK, NodeTypeOK, HistoryTypeOK, HostsNonempty, AttemptsLeft, TInv, TypeOK
  <2>2. SharedTypeOK'
    BY <1>11 DEF Terminate, SharedTypeOK, TInv, TypeOK
  <2>3. SessTypeOK'
    BY <1>11 DEF Terminate, SharedTypeOK, SessTypeOK, TInv, TypeOK
  <2> QED BY <2>1, <2>2, <2>3 DEF TInv, TypeOK
<1>12. CASE Done
  BY <1>12 DEF Done, vars, TInv, TypeOK, SharedTypeOK, ThreadTypeOK, NodeTypeOK, SessTypeOK, HistoryTypeOK, HostsNonempty, AttemptsLeft
<1> QED BY <1>1, <1>2, <1>3, <1>4, <1>5, <1>6, <1>7, <1>8, <1>9, <1>10, <1>11, <1>12
       DEF ClusterNext, Server, Patroni, Faults

LEMMA TInvStep == TInv /\ [Next]_vars => TInv'
<1> SUFFICES ASSUME TInv, [Next]_vars PROVE TInv'
  OBVIOUS
<1>1. CASE WorkersNext
  BY <1>1, TInvThread DEF WorkersNext
<1>2. CASE ClusterNext \/ Terminate \/ Done
  BY <1>2, TInvCluster
<1>3. CASE UNCHANGED vars
  BY <1>3 DEF TInv, TypeOK, SharedTypeOK, ThreadTypeOK, NodeTypeOK, SessTypeOK, HistoryTypeOK,
     HostsNonempty, AttemptsLeft, vars, sharedVars, threadVars, nodeVars, sessVars, history
<1> QED BY <1>1, <1>2, <1>3 DEF Next

(* The state of threads and servers keeps its types in every behaviour, in *)
(* particular reconnect_attempt never exceeds its limit by more than one.  *)
THEOREM TypeCorrect == Spec => []TypeOK
<1>1. Spec => []TInv
  BY TInvInit, TInvStep, PTL DEF Spec, Init
<1>2. TInv => TypeOK
  BY DEF TInv
<1> QED BY <1>1, <1>2, PTL

-----------------------------------------------------------------------------
(* The safety of transactions.  The invariant ties a thread to the one     *)
(* session it drives.                                                      *)

HasOwner == \A s \in Sessions : txn[s] # "gone" => owner[s] \in Workers

OwnsConnection == \A w \in Workers : db_local[w] # None => owner[db_local[w]] = w

\* An answer to COMMIT still on its way accounts for a commit not yet counted.
AnswerUnread ==
  \A w \in Workers :
    db_local[w] # None /\ txn[db_local[w]] = "committed" => acked[w] + 1 <= applied[w]

OpenWhileLocking ==
  \A w \in Workers : pc[w] = "lock" /\ LinkUp(w) => txn[db_local[w]] = "open"

SInv ==
  /\ HasOwner /\ OwnsConnection /\ AnswerUnread /\ AckedImpliesApplied
  /\ OpenWhileLocking /\ NoAbandonedTransaction /\ LockHoldersOpen

(* At the start no session exists and nothing was committed. *)
LEMMA SInvInit == InitButTables => SInv
  BY ConstantsAssumption DEF ConstantsAssumption, InitButTables, SInv, HasOwner, OwnsConnection, AnswerUnread,
     AckedImpliesApplied, OpenWhileLocking, NoAbandonedTransaction, LockHoldersOpen, LinkUp

(* The steps of a thread, its except clauses included, preserve it. *)
LEMMA SInvThread ==
  ASSUME TInv, SInv, NEW w \in Workers, Thread(w)
  PROVE  SInv'
<1> USE ConstantsAssumption DEF ConstantsAssumption, Goto, LinkUp, InTxn, SInv,
        TInv, TypeOK, ThreadTypeOK, SessTypeOK, HistoryTypeOK,
        sharedVars, threadVars, nodeVars, sessVars, history
<1>1. CASE Test(w)
  BY <1>1 DEF Test, TasksLeft, HasOwner, OwnsConnection, AnswerUnread, AckedImpliesApplied, OpenWhileLocking, NoAbandonedTransaction, LockHoldersOpen
<1>2. CASE Load(w)
  BY <1>2 DEF Load, HasOwner, OwnsConnection, AnswerUnread, AckedImpliesApplied, OpenWhileLocking, NoAbandonedTransaction, LockHoldersOpen
<1>3. CASE Store(w)
  <2>1. HasOwner' /\ OwnsConnection' /\ AckedImpliesApplied'
    BY <1>3 DEF Store, DoWork, HasOwner, OwnsConnection, AnswerUnread, AckedImpliesApplied
  <2>2. AnswerUnread'
    BY <1>3 DEF Store, DoWork, AnswerUnread, OwnsConnection, AckedImpliesApplied
  <2>3. OpenWhileLocking'
    BY <1>3 DEF Store, DoWork, OpenWhileLocking, OwnsConnection
  <2>4. NoAbandonedTransaction'
    <3>1. /\ pc[w] \in {"store", "load"} /\ UNCHANGED <<db_local, owner, txn, link>>
          /\ \A v \in Workers \ {w} : pc'[v] = pc[v]
      BY <1>3 DEF Store
    <3> SUFFICES ASSUME NEW s \in Sessions, txn[s] \in {"open", "commit"}, link[s] = "up"
                 PROVE  db_local[owner[s]] = s /\ pc'[owner[s]] \in InTxn
      BY <3>1 DEF NoAbandonedTransaction
    <3>2. owner[s] \in Workers /\ db_local[owner[s]] = s /\ pc[owner[s]] \in InTxn
      BY DEF HasOwner, NoAbandonedTransaction
    <3>3. owner[s] # w
      BY <3>1, <3>2
    <3> QED BY <3>1, <3>2, <3>3
  <2>5. LockHoldersOpen'
    BY <1>3 DEF Store, DoWork, LockHoldersOpen, OpenWhileLocking, OwnsConnection, NoAbandonedTransaction
  <2> QED BY <2>1, <2>2, <2>3, <2>4, <2>5
<1>4. CASE Connect(w)
  <2>1. AckedImpliesApplied'
    BY <1>4 DEF Connect, FreeSession, Target, HostsToTry, AttemptsMade, Rotating, AnswerUnread, AckedImpliesApplied
  <2>2. HasOwner'
    <3>1. PICK s \in Sessions : /\ FreeSession(s)
                               /\ owner' = [owner EXCEPT ![s] = w]
                               /\ txn' = [txn EXCEPT ![s] = "idle"]
                               /\ link' = [link EXCEPT ![s] = "up"]
                               /\ db_local' = [db_local EXCEPT ![w] = s]
      BY <1>4 DEF Connect
    <3> QED BY <1>4, <3>1 DEF HasOwner
  <2>3. OwnsConnection'
    <3>1. PICK s \in Sessions : /\ FreeSession(s)
                               /\ owner' = [owner EXCEPT ![s] = w]
                               /\ txn' = [txn EXCEPT ![s] = "idle"]
                               /\ link' = [link EXCEPT ![s] = "up"]
                               /\ db_local' = [db_local EXCEPT ![w] = s]
      BY <1>4 DEF Connect
    <3>2. txn[s] = "gone" /\ \A v \in Workers : db_local[v] # s
      BY <3>1 DEF FreeSession
    <3>3. pc' = [pc EXCEPT ![w] = "begin"] /\ UNCHANGED <<lock, acked, applied>>
      BY <1>4 DEF Connect
    <3> QED BY <3>1, <3>2, <3>3 DEF OwnsConnection
  <2>4. AnswerUnread'
    <3>1. PICK s \in Sessions : /\ FreeSession(s)
                               /\ owner' = [owner EXCEPT ![s] = w]
                               /\ txn' = [txn EXCEPT ![s] = "idle"]
                               /\ link' = [link EXCEPT ![s] = "up"]
                               /\ db_local' = [db_local EXCEPT ![w] = s]
      BY <1>4 DEF Connect
    <3>2. txn[s] = "gone" /\ \A v \in Workers : db_local[v] # s
      BY <3>1 DEF FreeSession
    <3>3. pc' = [pc EXCEPT ![w] = "begin"] /\ UNCHANGED <<lock, acked, applied>>
      BY <1>4 DEF Connect
    <3> QED BY <3>1, <3>2, <3>3 DEF AnswerUnread
  <2>5. OpenWhileLocking'
    <3>1. PICK s \in Sessions : /\ FreeSession(s)
                               /\ owner' = [owner EXCEPT ![s] = w]
                               /\ txn' = [txn EXCEPT ![s] = "idle"]
                               /\ link' = [link EXCEPT ![s] = "up"]
                               /\ db_local' = [db_local EXCEPT ![w] = s]
      BY <1>4 DEF Connect
    <3>2. txn[s] = "gone" /\ \A v \in Workers : db_local[v] # s
      BY <3>1 DEF FreeSession
    <3>3. pc' = [pc EXCEPT ![w] = "begin"] /\ UNCHANGED <<lock, acked, applied>>
      BY <1>4 DEF Connect
    <3> QED BY <3>1, <3>2, <3>3 DEF OpenWhileLocking
  <2>6. NoAbandonedTransaction'
    <3>1. PICK s \in Sessions : /\ FreeSession(s)
                               /\ owner' = [owner EXCEPT ![s] = w]
                               /\ txn' = [txn EXCEPT ![s] = "idle"]
                               /\ link' = [link EXCEPT ![s] = "up"]
                               /\ db_local' = [db_local EXCEPT ![w] = s]
      BY <1>4 DEF Connect
    <3> SUFFICES ASSUME NEW t \in Sessions, txn'[t] \in {"open", "commit"}, link'[t] = "up"
                 PROVE  db_local'[owner'[t]] = t /\ pc'[owner'[t]] \in InTxn
      BY DEF NoAbandonedTransaction
    <3>2. t # s /\ txn[t] = txn'[t] /\ link[t] = "up" /\ owner'[t] = owner[t]
      BY <3>1
    <3>3. owner[t] \in Workers /\ db_local[owner[t]] = t /\ pc[owner[t]] \in InTxn
      BY <3>2 DEF HasOwner, NoAbandonedTransaction
    <3>4. owner[t] # w
      BY <1>4, <3>3 DEF Connect
    <3> QED BY <1>4, <3>1, <3>2, <3>3, <3>4 DEF Connect
  <2>7. LockHoldersOpen'
    <3>1. PICK s \in Sessions : /\ FreeSession(s)
                               /\ owner' = [owner EXCEPT ![s] = w]
                               /\ txn' = [txn EXCEPT ![s] = "idle"]
                               /\ link' = [link EXCEPT ![s] = "up"]
                               /\ db_local' = [db_local EXCEPT ![w] = s]
      BY <1>4 DEF Connect
    <3>2. txn[s] = "gone" /\ \A v \in Workers : db_local[v] # s
      BY <3>1 DEF FreeSession
    <3>3. pc' = [pc EXCEPT ![w] = "begin"] /\ UNCHANGED <<lock, acked, applied>>
      BY <1>4 DEF Connect
    <3> QED BY <3>1, <3>2, <3>3 DEF LockHoldersOpen
  <2> QED BY <2>1, <2>2, <2>3, <2>4, <2>5, <2>6, <2>7
<1>5. CASE CannotConnect(w)
  <2>1. HasOwner' /\ OwnsConnection' /\ AckedImpliesApplied'
    BY <1>5 DEF CannotConnect, FreeSession, Target, HostsToTry, AttemptsMade, Rotating, HasOwner, OwnsConnection, AnswerUnread, AckedImpliesApplied
  <2>2. AnswerUnread'
    BY <1>5 DEF CannotConnect, FreeSession, Target, HostsToTry, AttemptsMade, Rotating, AnswerUnread, OwnsConnection, AckedImpliesApplied
  <2>3. OpenWhileLocking'
    BY <1>5 DEF CannotConnect, FreeSession, Target, HostsToTry, AttemptsMade, Rotating, OpenWhileLocking, OwnsConnection
  <2>4. NoAbandonedTransaction'
    BY <1>5 DEF CannotConnect, FreeSession, Target, HostsToTry, AttemptsMade, Rotating, NoAbandonedTransaction, OwnsConnection, HasOwner
  <2>5. LockHoldersOpen'
    BY <1>5 DEF CannotConnect, FreeSession, Target, HostsToTry, AttemptsMade, Rotating, LockHoldersOpen, OpenWhileLocking, OwnsConnection, NoAbandonedTransaction
  <2> QED BY <2>1, <2>2, <2>3, <2>4, <2>5
<1>6. CASE Begin(w)
  <2>1. HasOwner' /\ OwnsConnection' /\ AckedImpliesApplied'
    BY <1>6 DEF Begin, HasOwner, OwnsConnection, AnswerUnread, AckedImpliesApplied
  <2>2. AnswerUnread'
    BY <1>6 DEF Begin, AnswerUnread, OwnsConnection, AckedImpliesApplied
  <2>3. OpenWhileLocking'
    BY <1>6 DEF Begin, OpenWhileLocking, OwnsConnection
  <2>4. NoAbandonedTransaction'
    BY <1>6 DEF Begin, NoAbandonedTransaction, OwnsConnection, HasOwner
  <2>5. LockHoldersOpen'
    BY <1>6 DEF Begin, LockHoldersOpen, OpenWhileLocking, OwnsConnection, NoAbandonedTransaction
  <2> QED BY <2>1, <2>2, <2>3, <2>4, <2>5
<1>7. CASE LockRow(w)
  <2>1. HasOwner' /\ OwnsConnection' /\ AckedImpliesApplied'
    BY <1>7 DEF LockRow, HasOwner, OwnsConnection, AnswerUnread, AckedImpliesApplied
  <2>2. AnswerUnread'
    BY <1>7 DEF LockRow, AnswerUnread, OwnsConnection, AckedImpliesApplied
  <2>3. OpenWhileLocking'
    BY <1>7 DEF LockRow, OpenWhileLocking, OwnsConnection
  <2>4. NoAbandonedTransaction'
    BY <1>7 DEF LockRow, NoAbandonedTransaction, OwnsConnection, HasOwner
  <2>5. LockHoldersOpen'
    BY <1>7 DEF LockRow, LockHoldersOpen, OpenWhileLocking, OwnsConnection, NoAbandonedTransaction
  <2> QED BY <2>1, <2>2, <2>3, <2>4, <2>5
<1>8. CASE UpdateAndCommit(w)
  <2>1. HasOwner' /\ OwnsConnection' /\ AckedImpliesApplied'
    BY <1>8 DEF UpdateAndCommit, RowsLocked, HasOwner, OwnsConnection, AnswerUnread, AckedImpliesApplied
  <2>2. AnswerUnread'
    BY <1>8 DEF UpdateAndCommit, RowsLocked, AnswerUnread, OwnsConnection, AckedImpliesApplied
  <2>3. OpenWhileLocking'
    BY <1>8 DEF UpdateAndCommit, RowsLocked, OpenWhileLocking, OwnsConnection
  <2>4. NoAbandonedTransaction'
    BY <1>8 DEF UpdateAndCommit, RowsLocked, NoAbandonedTransaction, OwnsConnection, HasOwner
  <2>5. LockHoldersOpen'
    BY <1>8 DEF UpdateAndCommit, RowsLocked, LockHoldersOpen, OpenWhileLocking, OwnsConnection, NoAbandonedTransaction
  <2> QED BY <2>1, <2>2, <2>3, <2>4, <2>5
<1>9. CASE Committed(w)
  BY <1>9 DEF Committed, CommitAnswered, ReturnsTrue, KeepConnection, HasOwner, OwnsConnection, AnswerUnread, AckedImpliesApplied, OpenWhileLocking, NoAbandonedTransaction, LockHoldersOpen
<1>10. CASE DeadlockError(w)
  BY <1>10 DEF DeadlockError, AbortOnExit, Unwant, Freed, HasOwner, OwnsConnection, AnswerUnread, AckedImpliesApplied, OpenWhileLocking, NoAbandonedTransaction, LockHoldersOpen
<1>11. CASE Rollback(w)
  BY <1>11 DEF Rollback, HasOwner, OwnsConnection, AnswerUnread, AckedImpliesApplied, OpenWhileLocking, NoAbandonedTransaction, LockHoldersOpen
<1>12. CASE RollbackFails(w)
  BY <1>12 DEF RollbackFails, LinkIn, HasOwner, OwnsConnection, AnswerUnread, AckedImpliesApplied, OpenWhileLocking, NoAbandonedTransaction, LockHoldersOpen
<1>13. CASE ReadOnlyTransactionError(w)
  BY <1>13 DEF ReadOnlyTransactionError, Forget, RetryAt, HasOwner, OwnsConnection, AnswerUnread, AckedImpliesApplied, OpenWhileLocking, NoAbandonedTransaction, LockHoldersOpen
<1>14. CASE QueryCanceledError(w)
  <2>1. AckedImpliesApplied'
    BY <1>14 DEF QueryCanceledError, CanBeCanceled, AbortOnExit, Unwant, Freed, Forget, RetryAt, AnswerUnread, AckedImpliesApplied
  <2>2. HasOwner'
    <3>1. UNCHANGED owner /\ \A s \in Sessions : txn'[s] # "gone" => txn[s] # "gone" \/ db_local[w] = s
      BY <1>14 DEF QueryCanceledError, AbortOnExit
    <3>2. \A s \in Sessions : db_local[w] = s => owner[s] = w
      BY DEF OwnsConnection
    <3> QED BY <3>1, <3>2 DEF HasOwner
  <2>3. OwnsConnection'
    <3>1. PICK n \in {None, db_local[w]}, p \in {"returned", "work"} :
                 /\ db_local' = [db_local EXCEPT ![w] = n] /\ pc' = [pc EXCEPT ![w] = p]
      BY <1>14 DEF QueryCanceledError, CanBeCanceled, Forget, RetryAt
    <3>2. UNCHANGED owner
      BY <1>14 DEF QueryCanceledError
    <3> QED BY <3>1, <3>2 DEF OwnsConnection
  <2>4. AnswerUnread'
    <3>1. \A t \in Sessions : txn'[t] = "committed" => txn[t] = "committed"
      BY <1>14 DEF QueryCanceledError, AbortOnExit
    <3>2. \A v \in Workers : db_local'[v] # None => db_local'[v] = db_local[v]
      BY <1>14 DEF QueryCanceledError, Forget
    <3>3. UNCHANGED <<acked, applied>>
      BY <1>14 DEF QueryCanceledError
    <3> QED BY <3>1, <3>2, <3>3 DEF AnswerUnread
  <2>5. OpenWhileLocking'
    <3>1. PICK n \in {None, db_local[w]}, p \in {"returned", "work"} :
                 /\ db_local' = [db_local EXCEPT ![w] = n] /\ pc' = [pc EXCEPT ![w] = p]
      BY <1>14 DEF QueryCanceledError, CanBeCanceled, Forget, RetryAt
    <3>2. UNCHANGED <<link, owner>> /\ txn' = [txn EXCEPT ![db_local[w]] = "idle"] /\ db_local[w] # None
      BY <1>14 DEF QueryCanceledError, AbortOnExit
    <3> SUFFICES ASSUME NEW v \in Workers, pc'[v] = "lock", LinkUp(v)'
                 PROVE  txn'[db_local'[v]] = "open"
      BY DEF OpenWhileLocking
    <3>3. v # w
      BY <3>1
    <3>4. db_local'[v] = db_local[v] /\ pc[v] = "lock"
      BY <3>1, <3>3
    <3>5. txn[db_local[v]] = "open" /\ db_local[v] \in Sessions
      BY <3>2, <3>4 DEF OpenWhileLocking
    <3>6. db_local[v] # db_local[w]
      BY <3>3, <3>5 DEF OwnsConnection
    <3> QED BY <3>2, <3>4, <3>5, <3>6
  <2>6. NoAbandonedTransaction'
    <3>1. PICK n \in {None, db_local[w]}, p \in {"returned", "work"} :
                 /\ db_local' = [db_local EXCEPT ![w] = n] /\ pc' = [pc EXCEPT ![w] = p]
      BY <1>14 DEF QueryCanceledError, CanBeCanceled, Forget, RetryAt
    <3>2. UNCHANGED <<link, owner>> /\ txn' = [txn EXCEPT ![db_local[w]] = "idle"] /\ db_local[w] # None
      BY <1>14 DEF QueryCanceledError, AbortOnExit
    <3>3. pc[w] \in InTxn => txn'[db_local[w]] \notin {"open", "commit"} \/ link'[db_local[w]] # "up"
      BY <1>14 DEF QueryCanceledError, AbortOnExit
    <3> SUFFICES ASSUME NEW s \in Sessions, txn'[s] \in {"open", "commit"}, link'[s] = "up"
                 PROVE  db_local'[owner'[s]] = s /\ pc'[owner'[s]] \in InTxn
      BY DEF NoAbandonedTransaction
    <3>4. owner[s] \in Workers /\ db_local[owner[s]] = s /\ pc[owner[s]] \in InTxn
      BY <3>2 DEF HasOwner, NoAbandonedTransaction
    <3>5. owner[s] # w
      BY <3>3, <3>4
    <3> QED BY <3>1, <3>2, <3>4, <3>5
  <2>7. LockHoldersOpen'
    BY <1>14 DEF QueryCanceledError, CanBeCanceled, AbortOnExit, Unwant, Freed, Forget, RetryAt, LockHoldersOpen, OpenWhileLocking, OwnsConnection, NoAbandonedTransaction
  <2> QED BY <2>1, <2>2, <2>3, <2>4, <2>5, <2>6, <2>7
<1>15. CASE AdminShutdownError(w)
  <2>1. AckedImpliesApplied'
    BY <1>15 DEF AdminShutdownError, LinkIn, Forget, RetryAt, LoseTransaction, Unwant, AnswerUnread, AckedImpliesApplied
  <2>2. HasOwner'
    <3>1. UNCHANGED owner /\ \A s \in Sessions : txn'[s] # "gone" => txn[s] # "gone" \/ db_local[w] = s
      BY <1>15 DEF AdminShutdownError
    <3>2. \A s \in Sessions : db_local[w] = s => owner[s] = w
      BY DEF OwnsConnection
    <3> QED BY <3>1, <3>2 DEF HasOwner
  <2>3. OwnsConnection'
    <3>1. PICK n \in {None, db_local[w]}, p \in {"returned", "work"} :
                 /\ db_local' = [db_local EXCEPT ![w] = n] /\ pc' = [pc EXCEPT ![w] = p]
      BY <1>15 DEF AdminShutdownError, Forget, RetryAt
    <3>2. UNCHANGED owner
      BY <1>15 DEF AdminShutdownError
    <3> QED BY <3>1, <3>2 DEF OwnsConnection
  <2>4. AnswerUnread'
    <3>1. UNCHANGED <<txn, acked, applied>>
      BY <1>15 DEF AdminShutdownError
    <3>2. \A v \in Workers : db_local'[v] \in {None, db_local[v]}
      BY <1>15 DEF AdminShutdownError, Forget
    <3> QED BY <3>1, <3>2 DEF AnswerUnread
  <2>5. OpenWhileLocking'
    <3>1. PICK n \in {None, db_local[w]}, p \in {"returned", "work"} :
                 /\ db_local' = [db_local EXCEPT ![w] = n] /\ pc' = [pc EXCEPT ![w] = p]
      BY <1>15 DEF AdminShutdownError, Forget, RetryAt
    <3>2. UNCHANGED <<link, owner>> /\ txn' = txn
      BY <1>15 DEF AdminShutdownError
    <3> SUFFICES ASSUME NEW v \in Workers, pc'[v] = "lock", LinkUp(v)'
                 PROVE  txn'[db_local'[v]] = "open"
      BY DEF OpenWhileLocking
    <3>3. v # w
      BY <3>1
    <3>4. db_local'[v] = db_local[v] /\ pc[v] = "lock"
      BY <3>1, <3>3
    <3>5. txn[db_local[v]] = "open" /\ db_local[v] \in Sessions
      BY <3>2, <3>4 DEF OpenWhileLocking
    <3>6. db_local[v] # db_local[w]
      BY <3>3, <3>5, SMTT(30) DEF OwnsConnection
    <3> QED BY <3>2, <3>4, <3>5, <3>6
  <2>6. NoAbandonedTransaction'
    <3>1. PICK n \in {None, db_local[w]}, p \in {"returned", "work"} :
                 /\ db_local' = [db_local EXCEPT ![w] = n] /\ pc' = [pc EXCEPT ![w] = p]
      BY <1>15 DEF AdminShutdownError, Forget, RetryAt
    <3>2. UNCHANGED <<link, owner>> /\ txn' = txn
      BY <1>15 DEF AdminShutdownError
    <3>3. pc[w] \in InTxn => txn'[db_local[w]] \notin {"open", "commit"} \/ link'[db_local[w]] # "up"
      BY <1>15 DEF AdminShutdownError, LinkIn
    <3> SUFFICES ASSUME NEW s \in Sessions, txn'[s] \in {"open", "commit"}, link'[s] = "up"
                 PROVE  db_local'[owner'[s]] = s /\ pc'[owner'[s]] \in InTxn
      BY DEF NoAbandonedTransaction
    <3>4. owner[s] \in Workers /\ db_local[owner[s]] = s /\ pc[owner[s]] \in InTxn
      BY <3>2 DEF HasOwner, NoAbandonedTransaction
    <3>5. owner[s] # w
      BY <3>3, <3>4
    <3> QED BY <3>1, <3>2, <3>4, <3>5
  <2>7. LockHoldersOpen'
    BY <1>15 DEF AdminShutdownError, LinkIn, Forget, RetryAt, LoseTransaction, Unwant, LockHoldersOpen, OpenWhileLocking, OwnsConnection, NoAbandonedTransaction
  <2> QED BY <2>1, <2>2, <2>3, <2>4, <2>5, <2>6, <2>7
<1>16. CASE ConnectionFailureError(w)
  BY <1>16 DEF ConnectionFailureError, LinkIn, Forget, RetryAt, LoseTransaction, Unwant, HasOwner, OwnsConnection, AnswerUnread, AckedImpliesApplied, OpenWhileLocking, NoAbandonedTransaction, LockHoldersOpen
<1>17. CASE UncaughtTimeout(w)
  BY <1>17 DEF UncaughtTimeout, Fault, HasOwner, OwnsConnection, AnswerUnread, AckedImpliesApplied, OpenWhileLocking, NoAbandonedTransaction, LockHoldersOpen
<1>18. CASE Close(w)
  <2>1. HasOwner' /\ OwnsConnection' /\ AnswerUnread' /\ AckedImpliesApplied' /\ OpenWhileLocking' /\ NoAbandonedTransaction'
    BY <1>18 DEF Close, HasOwner, OwnsConnection, AnswerUnread, AckedImpliesApplied, OpenWhileLocking, NoAbandonedTransaction
  <2>2. LockHoldersOpen'
    <3>1. CASE ~LinkUp(w)
      BY <1>18, <3>1 DEF Close, LockHoldersOpen
    <3>2. CASE LinkUp(w)
      <4> DEFINE s == db_local[w]
      <4>0. pc[w] = "close" /\ s \in Sessions /\ owner[s] = w /\ link[s] = "up"
        BY <1>18, <3>2 DEF Close, OwnsConnection
      <4>1. txn[s] \notin {"open", "commit"}
        BY <4>0 DEF NoAbandonedTransaction
      <4>2. \A a \in Accounts : lock[a] # db_local[w]
        BY <4>0, <4>1 DEF LockHoldersOpen
      <4> QED BY <1>18, <3>2, <4>2 DEF Close, LockHoldersOpen
    <3> QED BY <3>1, <3>2
  <2> QED BY <2>1, <2>2
<1>19. CASE UndefinedTable(w)
  BY <1>19 DEF UndefinedTable, HasOwner, OwnsConnection, AnswerUnread, AckedImpliesApplied, OpenWhileLocking, NoAbandonedTransaction, LockHoldersOpen
<1> QED BY <1>1, <1>2, <1>3, <1>4, <1>5, <1>6, <1>7, <1>8, <1>9, <1>10, <1>11, <1>12, <1>13, <1>14, <1>15, <1>16, <1>17,
           <1>18, <1>19 DEF Thread

(* So do those of the servers, of Patroni, the faults and the signal. *)
LEMMA SInvCluster ==
  ASSUME TInv, SInv, ClusterNext \/ Terminate \/ Done
  PROVE  SInv'
<1> USE ConstantsAssumption DEF ConstantsAssumption, LinkUp, InTxn, SInv, programVars,
        TInv, TypeOK, ThreadTypeOK, SessTypeOK, HistoryTypeOK,
        sharedVars, threadVars, nodeVars, sessVars, history
<1>1. ASSUME NEW s \in Sessions, ServerCommit(s)
     PROVE  SInv'
  <2>1. HasOwner' /\ OwnsConnection' /\ AckedImpliesApplied' /\ OpenWhileLocking'
    BY <1>1 DEF ServerCommit, Freed, HasOwner, OwnsConnection, AnswerUnread, AckedImpliesApplied, OpenWhileLocking
  <2>2. AnswerUnread'
    <3>1. /\ txn' = [txn EXCEPT ![s] = "committed"] /\ UNCHANGED <<db_local, acked>>
          /\ applied' = [applied EXCEPT ![owner[s]] = @ + 1]
      BY <1>1 DEF ServerCommit
    <3> SUFFICES ASSUME NEW v \in Workers, db_local[v] # None, txn'[db_local[v]] = "committed"
                 PROVE  acked[v] + 1 <= applied'[v]
      BY <3>1 DEF AnswerUnread
    <3>2. CASE db_local[v] = s
      <4>1. owner[s] = v /\ applied'[v] = applied[v] + 1
        BY <3>1, <3>2 DEF OwnsConnection
      <4> QED BY <4>1 DEF AckedImpliesApplied
    <3>3. CASE db_local[v] # s
      <4>1. applied'[v] >= applied[v] /\ txn[db_local[v]] = "committed"
        BY <3>1, <3>3
      <4> QED BY <3>3, <4>1, <3>1 DEF AnswerUnread
    <3> QED BY <3>2, <3>3
  <2>3. NoAbandonedTransaction'
    BY <1>1 DEF ServerCommit, Freed, NoAbandonedTransaction, OwnsConnection, HasOwner
  <2>4. LockHoldersOpen'
    BY <1>1 DEF ServerCommit, Freed, LockHoldersOpen, OpenWhileLocking, OwnsConnection, NoAbandonedTransaction
  <2> QED BY <2>1, <2>2, <2>3, <2>4
<1>2. ASSUME NEW s \in Sessions, ServerNotices(s)
     PROVE  SInv'
  BY <1>2 DEF ServerNotices, Freed, HasOwner, OwnsConnection, AnswerUnread, AckedImpliesApplied, OpenWhileLocking, NoAbandonedTransaction, LockHoldersOpen
<1>3. ASSUME NEW s \in Sessions, CancelIgnored(s)
     PROVE  SInv'
  BY <1>3 DEF CancelIgnored, HasOwner, OwnsConnection, AnswerUnread, AckedImpliesApplied, OpenWhileLocking, NoAbandonedTransaction, LockHoldersOpen
<1>4. ASSUME NEW h \in Hosts, Promote(h)
     PROVE  SInv'
  BY <1>4 DEF Promote, HasOwner, OwnsConnection, AnswerUnread, AckedImpliesApplied, OpenWhileLocking, NoAbandonedTransaction, LockHoldersOpen
<1>5. ASSUME NEW h \in Hosts, Restart(h)
     PROVE  SInv'
  BY <1>5 DEF Restart, HasOwner, OwnsConnection, AnswerUnread, AckedImpliesApplied, OpenWhileLocking, NoAbandonedTransaction, LockHoldersOpen
<1>6. ASSUME NEW h \in Hosts, Replicate(h)
     PROVE  SInv'
  BY <1>6 DEF Replicate, HasOwner, OwnsConnection, AnswerUnread, AckedImpliesApplied, OpenWhileLocking, NoAbandonedTransaction, LockHoldersOpen
<1>7. CASE Switchover \/ Crash
  <2>1. PrimaryEnds
    BY <1>7 DEF Switchover, Crash
  <2> QED BY <2>1 DEF PrimaryEnds, EndSessions, OnHost, Freed, HasOwner, OwnsConnection, AnswerUnread, AckedImpliesApplied, OpenWhileLocking, NoAbandonedTransaction, LockHoldersOpen
<1>9. ASSUME NEW s \in Sessions, BreakLink(s)
     PROVE  SInv'
  <2>1. HasOwner' /\ OwnsConnection' /\ AckedImpliesApplied'
    BY <1>9 DEF BreakLink, Fault, Freed, HasOwner, OwnsConnection, AnswerUnread, AckedImpliesApplied
  <2>2. AnswerUnread'
    <3>1. \A t \in Sessions : txn'[t] = "committed" => txn[t] = "committed"
      BY <1>9 DEF BreakLink
    <3> QED BY <1>9, <3>1 DEF BreakLink, AnswerUnread
  <2>3. OpenWhileLocking'
    <3>1. \A t \in Sessions : link'[t] = "up" => link[t] = "up" /\ txn'[t] = txn[t]
      BY <1>9 DEF BreakLink
    <3>2. UNCHANGED <<pc, db_local>>
      BY <1>9 DEF BreakLink
    <3> SUFFICES ASSUME NEW v \in Workers, pc[v] = "lock", db_local[v] # None, link'[db_local[v]] = "up"
                 PROVE  txn'[db_local[v]] = "open"
      BY <3>2 DEF OpenWhileLocking
    <3>3. db_local[v] \in Sessions
      OBVIOUS
    <3> QED BY <3>1, <3>3 DEF OpenWhileLocking
  <2>4. NoAbandonedTransaction'
    <3>1. \A t \in Sessions : link'[t] = "up" => link[t] = "up" /\ txn'[t] = txn[t]
      BY <1>9 DEF BreakLink
    <3>2. UNCHANGED <<pc, db_local, owner>>
      BY <1>9 DEF BreakLink
    <3> QED BY <3>1, <3>2 DEF NoAbandonedTransaction
  <2>5. LockHoldersOpen'
    <3>1. CASE txn' = [txn EXCEPT ![s] = "gone"] /\ lock' = Freed({s})
      BY <1>9, <3>1 DEF Freed, LockHoldersOpen
    <3>2. CASE UNCHANGED <<txn, lock>>
      BY <1>9, <3>2 DEF LockHoldersOpen
    <3> QED BY <1>9, <3>1, <3>2 DEF BreakLink
  <2> QED BY <2>1, <2>2, <2>3, <2>4, <2>5
<1>10. ASSUME NEW s \in Sessions, OperatorCancel(s)
     PROVE  SInv'
  BY <1>10 DEF OperatorCancel, Fault, HasOwner, OwnsConnection, AnswerUnread, AckedImpliesApplied, OpenWhileLocking, NoAbandonedTransaction, LockHoldersOpen
<1>11. CASE Terminate
  BY <1>11 DEF Terminate, HasOwner, OwnsConnection, AnswerUnread, AckedImpliesApplied, OpenWhileLocking, NoAbandonedTransaction, LockHoldersOpen
<1>12. CASE Done
  BY <1>12 DEF Done, vars, HasOwner, OwnsConnection, AnswerUnread, AckedImpliesApplied, OpenWhileLocking, NoAbandonedTransaction, LockHoldersOpen
<1> QED BY <1>1, <1>2, <1>3, <1>4, <1>5, <1>6, <1>7, <1>9, <1>10, <1>11, <1>12
       DEF ClusterNext, Server, Patroni, Faults

LEMMA SInvStep == TInv /\ SInv /\ [Next]_vars => SInv'
<1> SUFFICES ASSUME TInv, SInv, [Next]_vars PROVE SInv'
  OBVIOUS
<1>1. CASE WorkersNext
  BY <1>1, SInvThread DEF WorkersNext
<1>2. CASE ClusterNext \/ Terminate \/ Done
  BY <1>2, SInvCluster
<1>3. CASE UNCHANGED vars
  BY <1>3 DEF SInv, HasOwner, OwnsConnection, AnswerUnread, AckedImpliesApplied, OpenWhileLocking,
     NoAbandonedTransaction, LockHoldersOpen, LinkUp, InTxn,
     vars, sharedVars, threadVars, nodeVars, sessVars, history
<1> QED BY <1>1, <1>2, <1>3 DEF Next

THEOREM SInvInvariant == Spec => []SInv
<1>1. Init => TInv /\ SInv
  BY TInvInit, SInvInit DEF Init
<1>2. TInv /\ SInv /\ [Next]_vars => (TInv /\ SInv)'
  BY TInvStep, SInvStep
<1> QED BY <1>1, <1>2, PTL DEF Spec

(* No thread counts a transfer as done that was not committed. *)
THEOREM AckedIsCommitted == Spec => []AckedImpliesApplied
<1>1. SInv => AckedImpliesApplied
  BY DEF SInv
<1> QED BY <1>1, SInvInvariant, PTL

(* No thread walks away from an open transaction on a healthy link. *)
THEOREM NothingAbandoned == Spec => []NoAbandonedTransaction
<1>1. SInv => NoAbandonedTransaction
  BY DEF SInv
<1> QED BY <1>1, SInvInvariant, PTL

(* Row locks belong to transactions that are open on their server. *)
THEOREM LocksAreHeldOpen == Spec => []LockHoldersOpen
<1>1. SInv => LockHoldersOpen
  BY DEF SInv
<1> QED BY <1>1, SInvInvariant, PTL
-----------------------------------------------------------------------------
(* The deques of hosts. *)

RotationOf(q, k) == SubSeq(q, k, Len(q)) \o SubSeq(q, 1, k - 1)

LEMMA RotationElements ==
  ASSUME NEW S, NEW q \in Seq(S), NEW k \in 1..Len(q)
  PROVE  /\ RotationOf(q, k) \in Seq(S) /\ Len(RotationOf(q, k)) = Len(q)
         /\ \A i \in 1..Len(q) :
              RotationOf(q, k)[i] = IF i <= Len(q) - k + 1 THEN q[k + i - 1] ELSE q[k + i - 1 - Len(q)]
<1> DEFINE n == Len(q)
           a == SubSeq(q, k, n)
           b == SubSeq(q, 1, k - 1)
<1>1. n \in Nat /\ k \in 1..n
  OBVIOUS
<1>2. /\ a \in Seq(S) /\ Len(a) = n - k + 1 /\ \A i \in 1..n - k + 1 : a[i] = q[k + i - 1]
  BY <1>1, SubSeqProperties
<1>3. /\ b \in Seq(S) /\ Len(b) = k - 1 /\ \A i \in 1..k - 1 : b[i] = q[i]
  BY <1>1, SubSeqProperties
<1> HIDE DEF a, b
<1>4. /\ a \o b \in Seq(S) /\ Len(a \o b) = n
      /\ \A i \in 1..n : (a \o b)[i] = IF i <= n - k + 1 THEN a[i] ELSE b[i - (n - k + 1)]
  BY <1>1, <1>2, <1>3, ConcatProperties
<1>5. RotationOf(q, k) = a \o b
  BY DEF RotationOf, a, b
<1>6. ASSUME NEW i \in 1..n
      PROVE (a \o b)[i] = IF i <= n - k + 1 THEN q[k + i - 1] ELSE q[k + i - 1 - n]
  <2>1. CASE i <= n - k + 1
    BY <1>1, <1>2, <1>4, <2>1
  <2>2. CASE ~(i <= n - k + 1)
    <3>1. i - (n - k + 1) \in 1..k - 1 /\ i - (n - k + 1) = k + i - 1 - n
      BY <1>1, <2>2
    <3> QED BY <1>3, <1>4, <2>2, <3>1
  <2> QED BY <2>1, <2>2
<1> QED BY <1>4, <1>5, <1>6

(* popleft() and append() turn one rotation of a deque into the next. *)
LEMMA RotatedRotation ==
  ASSUME NEW S, NEW q \in Seq(S), NEW k \in 1..Len(q)
  PROVE  \E j \in 1..Len(q) : Rotated(RotationOf(q, k)) = RotationOf(q, j)
<1> DEFINE n == Len(q)
           r == RotationOf(q, k)
           j == IF k = n THEN 1 ELSE k + 1
           t == RotationOf(q, j)
<1>1. n \in Nat /\ k \in 1..n /\ j \in 1..n
  OBVIOUS
<1>2. /\ r \in Seq(S) /\ Len(r) = n
      /\ \A i \in 1..n : r[i] = IF i <= n - k + 1 THEN q[k + i - 1] ELSE q[k + i - 1 - n]
  BY <1>1, RotationElements
<1>3. /\ t \in Seq(S) /\ Len(t) = n
      /\ \A i \in 1..n : t[i] = IF i <= n - j + 1 THEN q[j + i - 1] ELSE q[j + i - 1 - n]
  BY <1>1, RotationElements
<1> HIDE DEF r, t
<1>4. r # <<>>
  BY <1>1, <1>2
<1>5. /\ Tail(r) \in Seq(S) /\ Len(Tail(r)) = n - 1 /\ Head(r) = r[1] /\ Head(r) \in S
      /\ \A i \in 1..n - 1 : Tail(r)[i] = r[i + 1]
  BY <1>2, <1>4, HeadTailProperties
<1>6. /\ Rotated(r) \in Seq(S) /\ Len(Rotated(r)) = n
      /\ \A i \in 1..n - 1 : Rotated(r)[i] = r[i + 1]
      /\ Rotated(r)[n] = r[1]
  <2>1. /\ Append(Tail(r), Head(r)) \in Seq(S)
        /\ Len(Append(Tail(r), Head(r))) = n
        /\ \A i \in 1..n - 1 : Append(Tail(r), Head(r))[i] = Tail(r)[i]
        /\ Append(Tail(r), Head(r))[n] = Head(r)
    BY <1>1, <1>5, AppendProperties
  <2> QED BY <1>5, <2>1 DEF Rotated
<1>7. ASSUME NEW i \in 1..n PROVE Rotated(r)[i] = t[i]
  <2>1. CASE i = n /\ k = n
    BY <1>1, <1>2, <1>3, <1>6, <2>1
  <2>2. CASE i = n /\ k # n
    <3>1. /\ j = k + 1 /\ n \in 1..n /\ 1 \in 1..n
          /\ ~(n <= n - j + 1) /\ j + n - 1 - n = k
          /\ 1 <= n - k + 1 /\ k + 1 - 1 = k
      BY <1>1, <2>2
    <3>2. t[n] = q[j + n - 1 - n] /\ r[1] = q[k + 1 - 1]
      BY <1>2, <1>3, <3>1
    <3> QED BY <1>6, <2>2, <3>1, <3>2
  <2>3. CASE i # n /\ k = n
    <3>1. i \in 1..n - 1 /\ i + 1 \in 1..n /\ j = 1
      BY <1>1, <2>3
    <3>2. Rotated(r)[i] = q[k + i - n]
      BY <1>1, <1>2, <1>6, <2>3, <3>1
    <3>3. t[i] = q[i]
      BY <1>1, <1>3, <2>3, <3>1
    <3> QED BY <1>1, <2>3, <3>2, <3>3
  <2>4. CASE i # n /\ k # n
    <3>1. i \in 1..n - 1 /\ i + 1 \in 1..n /\ j = k + 1
      BY <1>1, <2>4
    <3>2. Rotated(r)[i] = r[i + 1]
      BY <1>6, <3>1
    <3>3. r[i + 1] = IF i + 1 <= n - k + 1 THEN q[k + i] ELSE q[k + i - n]
      BY <1>1, <1>2, <3>1, SMTT(30)
    <3>4. t[i] = IF i <= n - k THEN q[k + i] ELSE q[k + i - n]
      <4>1. t[i] = IF i <= n - j + 1 THEN q[j + i - 1] ELSE q[j + i - 1 - n]
        BY <1>3
      <4>2. n - j + 1 = n - k /\ j + i - 1 = k + i /\ j + i - 1 - n = k + i - n
        BY <1>1, <3>1
      <4> HIDE DEF j
      <4> QED BY <4>1, <4>2
    <3> QED BY <1>1, <3>2, <3>3, <3>4
  <2> QED BY <2>1, <2>2, <2>3, <2>4
<1>8. Rotated(r) = t
  BY <1>3, <1>6, <1>7, SeqEqual
<1> QED BY <1>1, <1>8 DEF r, t

LEMMA HostsKeptStep == TInv /\ HostsKept /\ [Next]_vars => HostsKept'
<1> SUFFICES ASSUME TInv, HostsKept, [Next]_vars PROVE HostsKept'
  OBVIOUS
<1> USE ConstantsAssumption DEF ConstantsAssumption
<1> DEFINE Kept(q) == \E k \in 1..Len(HostList) : q = RotationOf(HostList, k)
<1>0. HostsKept <=>
        \A w \in Workers : /\ Kept(db_hosts[w])
                           /\ db_local[w] # None => reconnect_attempt[w] = 0
                                                    \/ reconnect_attempt[w] < ReconnectAttempt
  BY DEF HostsKept, RotationOf
<1>1. ASSUME NEW q, Kept(q) PROVE Kept(Rotated(q))
  BY <1>1, RotatedRotation
<1> HIDE DEF Kept
<1> DEFINE Few(w) == reconnect_attempt[w] = 0 \/ reconnect_attempt[w] < ReconnectAttempt
<1> SUFFICES ASSUME NEW w \in Workers
             PROVE  Kept(db_hosts'[w]) /\ (db_local'[w] # None => Few(w)')
  BY <1>0 DEF HostsKept, RotationOf, Kept
<1>2. Kept(db_hosts[w]) /\ (db_local[w] # None => Few(w))
  BY <1>0
<1>3. CASE UNCHANGED <<db_hosts, db_local, reconnect_attempt>>
  BY <1>2, <1>3
<1>4. ASSUME NEW v \in Workers, Thread(v), ~UNCHANGED <<db_hosts, db_local, reconnect_attempt>>
      PROVE  Kept(db_hosts'[w]) /\ (db_local'[w] # None => Few(w)')
  <2> USE DEF TInv, TypeOK, ThreadTypeOK
  <2>1. CASE Connect(v)
    <3>1. /\ db_hosts' = [db_hosts EXCEPT ![v] = HostsToTry(v)]
          /\ reconnect_attempt' = [reconnect_attempt EXCEPT ![v] = AttemptsMade(v)]
          /\ db_local'[w] # None => w = v \/ db_local[w] # None
      BY <2>1 DEF Connect
    <3>2. Kept(HostsToTry(v))
      BY <1>0, <1>1 DEF HostsToTry
    <3>3. AttemptsMade(v) = 0 \/ AttemptsMade(v) < ReconnectAttempt
      BY DEF AttemptsMade, Rotating
    <3> QED BY <1>2, <3>1, <3>2, <3>3
  <2>2. CASE CannotConnect(v)
    <3>1. /\ db_hosts' = [db_hosts EXCEPT ![v] = HostsToTry(v)] /\ db_local' = db_local
          /\ db_local[v] = None /\ (w # v => reconnect_attempt'[w] = reconnect_attempt[w])
      BY <2>2 DEF CannotConnect
    <3>2. Kept(HostsToTry(v))
      BY <1>0, <1>1 DEF HostsToTry
    <3> QED BY <1>2, <3>1, <3>2
  <2>3. CASE ReadOnlyTransactionError(v)
    <3>1. /\ db_hosts' = [db_hosts EXCEPT ![v] = Rotated(@)] /\ UNCHANGED reconnect_attempt
          /\ db_local' = [db_local EXCEPT ![v] = None]
      BY <2>3 DEF ReadOnlyTransactionError, SwitchHost, Forget
    <3>2. Kept(Rotated(db_hosts[v]))
      BY <1>0, <1>1
    <3> QED BY <1>2, <3>1, <3>2
  <2>4. CASE QueryCanceledError(v) \/ AdminShutdownError(v) \/ Close(v)
    <3>1. UNCHANGED <<db_hosts, reconnect_attempt>> /\ db_local'[w] \in {None, db_local[w]}
      BY <2>4 DEF QueryCanceledError, AdminShutdownError, Close, Forget
    <3> QED BY <1>2, <3>1
  <2>5. CASE ConnectionFailureError(v)
    <3>1. /\ UNCHANGED db_hosts /\ db_local' = [db_local EXCEPT ![v] = None]
          /\ w # v => reconnect_attempt'[w] = reconnect_attempt[w]
      BY <2>5 DEF ConnectionFailureError, Forget
    <3> QED BY <1>2, <3>1
  <2>6. CASE Test(v) \/ Load(v) \/ Store(v) \/ UncaughtTimeout(v) \/ Begin(v) \/ LockRow(v)
    BY <1>4, <2>6 DEF Test, Load, Store, UncaughtTimeout, Begin, LockRow
  <2>7. CASE UpdateAndCommit(v) \/ Committed(v) \/ DeadlockError(v) \/ Rollback(v) \/ RollbackFails(v) \/ UndefinedTable(v)
    BY <1>4, <2>7 DEF UpdateAndCommit, Committed, KeepConnection, DeadlockError, Rollback, RollbackFails, UndefinedTable
  <2> QED BY <1>4, <2>1, <2>2, <2>3, <2>4, <2>5, <2>6, <2>7 DEF Thread
<1>5. CASE ClusterNext \/ Terminate \/ Done \/ UNCHANGED vars
  <2>1. UNCHANGED <<db_hosts, db_local, reconnect_attempt>>
    BY <1>5 DEF ClusterNext, Server, Patroni, Faults, programVars, threadVars, ServerCommit,
       ServerNotices, CancelIgnored, Promote, Restart, Replicate, Switchover, Crash, PrimaryEnds, BreakLink,
       OperatorCancel, Terminate, Done, vars
  <2> QED BY <1>3, <2>1
<1> QED BY <1>3, <1>4, <1>5 DEF Next, WorkersNext

LEMMA HostsKeptInit == InitButTables => HostsKept
<1> SUFFICES ASSUME InitButTables PROVE HostsKept
  OBVIOUS
<1>1. RotationOf(HostList, 1) = HostList
  <2>1. HostList \in Seq(Hosts) /\ 1 \in 1..Len(HostList)
    BY ConstantsAssumption DEF ConstantsAssumption
  <2>2. /\ RotationOf(HostList, 1) \in Seq(Hosts) /\ Len(RotationOf(HostList, 1)) = Len(HostList)
        /\ \A i \in 1..Len(HostList) : RotationOf(HostList, 1)[i] = HostList[i]
    BY <2>1, RotationElements
  <2> QED BY <2>1, <2>2, SeqEqual
<1>2. 1 \in 1..Len(HostList)
  BY ConstantsAssumption DEF ConstantsAssumption
<1> QED BY <1>1, <1>2 DEF InitButTables, HostsKept, RotationOf

(* However connections fail and are rotated, each thread's deque is a      *)
(* rotation of the configured hosts, and a connected thread may fail once  *)
(* more without skipping its host.                                         *)
THEOREM HostsAreKept == Spec => []HostsKept
<1>1. Init => HostsKept /\ TInv
  BY HostsKeptInit, TInvInit DEF Init
<1>2. TInv /\ HostsKept /\ [Next]_vars => HostsKept'
  BY HostsKeptStep
<1> QED BY <1>1, <1>2, TInvStep, PTL DEF Spec
-----------------------------------------------------------------------------
(* Where the sessions are. *)

LiveOnLink == \A w \in Workers : LinkUp(w) => txn[db_local[w]] # "gone"

OpenAtPrimary == \A s \in Sessions : txn[s] \in {"open", "commit"} => host[s] = primary

\* haproxy leads to the primary, and a primary's sessions end before it does.
AllAtPrimary == Proxied => \A s \in Sessions : txn[s] # "gone" => host[s] = primary

PlaceInv == LiveOnLink /\ OpenAtPrimary /\ AllAtPrimary

LEMMA PlaceInvInit == InitButTables => PlaceInv
  BY ConstantsAssumption DEF ConstantsAssumption, InitButTables, PlaceInv, LiveOnLink, LinkUp, OpenAtPrimary, AllAtPrimary

LEMMA PlaceInvStep == TInv /\ SInv /\ PlaceInv /\ [Next]_vars => PlaceInv'
<1> SUFFICES ASSUME TInv, SInv, PlaceInv, [Next]_vars PROVE PlaceInv'
  OBVIOUS
<1> USE ConstantsAssumption DEF ConstantsAssumption, PlaceInv, LinkUp
<1> USE DEF TInv, TypeOK, ThreadTypeOK, SessTypeOK, NodeTypeOK
<1>1. CASE UNCHANGED <<db_local, link, txn, host, primary>>
  BY <1>1 DEF LiveOnLink, OpenAtPrimary, AllAtPrimary
<1>2. ASSUME NEW w \in Workers, Thread(w), ~UNCHANGED <<db_local, link, txn, host, primary>>
      PROVE  PlaceInv'
  <2>1. CASE Connect(w)
    <3>1. PICK s \in Sessions :
             /\ FreeSession(s) /\ db_local' = [db_local EXCEPT ![w] = s]
             /\ host' = [host EXCEPT ![s] = Target(w)] /\ txn' = [txn EXCEPT ![s] = "idle"]
             /\ link' = [link EXCEPT ![s] = "up"]
      BY <2>1 DEF Connect
    <3>2. primary' = primary /\ Target(w) \in Hosts /\ (Proxied => Target(w) = primary)
      BY <2>1 DEF Connect, Target, nodeVars
    <3>3. LiveOnLink'
      BY <3>1 DEF LiveOnLink, FreeSession
    <3>4. OpenAtPrimary' /\ AllAtPrimary'
      BY <3>1, <3>2 DEF OpenAtPrimary, AllAtPrimary
    <3> QED BY <3>3, <3>4
  <2>2. CASE Begin(w) \/ UpdateAndCommit(w) \/ Committed(w) \/ DeadlockError(w)
    <3>1. /\ UNCHANGED <<db_local, link, host, primary>> /\ LinkUp(w)
          /\ \E t \in {"open", "commit", "idle"} : txn' = [txn EXCEPT ![db_local[w]] = t]
      BY <2>2 DEF Begin, UpdateAndCommit, Committed, CommitAnswered, KeepConnection, DeadlockError,
         AbortOnExit, nodeVars
    <3>2. CASE Begin(w) \/ UpdateAndCommit(w)
      <4>1. host[db_local[w]] = primary
        BY <3>2 DEF Begin, UpdateAndCommit, Goto, SInv, OpenWhileLocking, OpenAtPrimary
      <4> QED BY <3>1, <4>1 DEF LiveOnLink, OpenAtPrimary, AllAtPrimary
    <3>3. CASE Committed(w) \/ DeadlockError(w)
      <4>1. txn' = [txn EXCEPT ![db_local[w]] = "idle"]
        BY <3>3 DEF Committed, DeadlockError, AbortOnExit
      <4> QED BY <3>1, <4>1 DEF LiveOnLink, OpenAtPrimary, AllAtPrimary
    <3> QED BY <2>2, <3>2, <3>3
  <2>3. CASE QueryCanceledError(w)
    <3>1. /\ UNCHANGED <<link, host, primary>> /\ LinkUp(w)
          /\ db_local' \in {db_local, [db_local EXCEPT ![w] = None]}
          /\ txn' = [txn EXCEPT ![db_local[w]] = "idle"] /\ txn[db_local[w]] # "gone"
      BY <2>3 DEF QueryCanceledError, AbortOnExit, Forget, nodeVars, LiveOnLink
    <3>2. \A v \in Workers : db_local'[v] # None => db_local'[v] = db_local[v]
      BY <3>1
    <3>3. \A s \in Sessions : txn'[s] = txn[s] \/ (txn'[s] = "idle" /\ txn[s] # "gone")
      BY <3>1
    <3> QED BY <3>1, <3>2, <3>3, SMTT(30) DEF LiveOnLink, OpenAtPrimary, AllAtPrimary
  <2>4. CASE ReadOnlyTransactionError(w) \/ AdminShutdownError(w) \/ ConnectionFailureError(w)
    <3>1. /\ UNCHANGED <<link, host, primary, txn>>
          /\ db_local' \in {db_local, [db_local EXCEPT ![w] = None]}
      BY <2>4 DEF ReadOnlyTransactionError, AdminShutdownError, ConnectionFailureError, Forget, nodeVars, sessVars
    <3> QED BY <3>1 DEF LiveOnLink, OpenAtPrimary, AllAtPrimary
  <2>5. CASE Close(w)
    <3>1. /\ UNCHANGED <<link, host, primary>>
          /\ db_local' = [db_local EXCEPT ![w] = None]
          /\ txn' = IF LinkUp(w) THEN [txn EXCEPT ![db_local[w]] = "gone"] ELSE txn
      BY <2>5 DEF Close, nodeVars
    <3>2. \A v \in Workers : v # w /\ LinkUp(v) => db_local[v] # db_local[w]
      BY DEF SInv, OwnsConnection
    <3>3. LiveOnLink'
      BY <3>1, <3>2 DEF LiveOnLink
    <3>4. \A s \in Sessions : txn'[s] # "gone" => txn'[s] = txn[s]
      BY <3>1
    <3> QED BY <3>1, <3>3, <3>4 DEF OpenAtPrimary, AllAtPrimary
  <2>6. CASE Test(w) \/ Load(w) \/ Store(w) \/ CannotConnect(w) \/ UncaughtTimeout(w)
    BY <1>2, <2>6 DEF Test, Load, Store, CannotConnect, UncaughtTimeout, nodeVars, sessVars
  <2>7. CASE LockRow(w) \/ Rollback(w) \/ RollbackFails(w) \/ UndefinedTable(w)
    BY <1>2, <2>7 DEF LockRow, Rollback, RollbackFails, UndefinedTable, nodeVars, sessVars
  <2> QED BY <1>2, <2>1, <2>2, <2>3, <2>4, <2>5, <2>6, <2>7 DEF Thread
<1>3. CASE ClusterNext
  <2> USE DEF programVars, threadVars, nodeVars, sessVars
  <2>0. db_local' = db_local
    BY <1>3 DEF ClusterNext, Server, Patroni, Faults, ServerCommit, ServerNotices, CancelIgnored, Promote, Restart,
       Replicate, Switchover, Crash, PrimaryEnds, BreakLink, OperatorCancel
  <2>1. ASSUME NEW s \in Sessions, ServerCommit(s) \/ ServerNotices(s) \/ CancelIgnored(s)
        PROVE  PlaceInv'
    <3>1. CASE ServerCommit(s)
      BY <2>0, <2>1, <3>1 DEF ServerCommit, LiveOnLink, OpenAtPrimary, AllAtPrimary
    <3>2. CASE ServerNotices(s)
      BY <2>0, <2>1, <3>2 DEF ServerNotices, LiveOnLink, OpenAtPrimary, AllAtPrimary
    <3>3. CASE CancelIgnored(s)
      BY <1>1, <2>0, <3>3 DEF CancelIgnored
    <3> QED BY <2>1, <3>1, <3>2, <3>3
  <2>2. ASSUME NEW h \in Hosts, Promote(h) PROVE PlaceInv'
    BY <2>0, <2>2 DEF Promote, LiveOnLink, OpenAtPrimary, AllAtPrimary
  <2>3. ASSUME NEW h \in Hosts, Restart(h) \/ Replicate(h) PROVE PlaceInv'
    BY <1>1, <2>0, <2>3 DEF Restart, Replicate
  <2>4. ASSUME primary # None, primary' # primary, UNCHANGED host,
               txn' = [s \in Sessions |-> IF s \in OnHost(primary) THEN "gone" ELSE txn[s]],
               \E k \in {"shutdown", "reset"} :
                 link' = [s \in Sessions |-> IF s \in OnHost(primary) /\ link[s] = "up" THEN k ELSE link[s]]
        PROVE  PlaceInv'
    <3>1. LiveOnLink'
      BY <2>0, <2>4 DEF LiveOnLink, OnHost
    <3>2. OpenAtPrimary' /\ AllAtPrimary'
      BY <2>0, <2>4 DEF OpenAtPrimary, AllAtPrimary, OnHost
    <3> QED BY <3>1, <3>2
  <2>5. CASE Switchover \/ Crash
    <3>1. PrimaryEnds
      BY <2>5 DEF Switchover, Crash
    <3> QED BY <2>4, <3>1 DEF PrimaryEnds, EndSessions
  <2>7. ASSUME NEW s \in Sessions, BreakLink(s) PROVE PlaceInv'
    <3>1. /\ UNCHANGED <<host, primary>>
          /\ \A r \in Sessions : txn'[r] # "gone" => txn'[r] = txn[r]
          /\ \A r \in Sessions : link'[r] = "up" => link[r] = "up" /\ txn'[r] = txn[r]
      BY <2>7 DEF BreakLink
    <3>2. LiveOnLink'
      <4>1. \A w \in Workers : db_local[w] \in Sessions \cup {None}
        OBVIOUS
      <4> HIDE DEF TInv, TypeOK, ThreadTypeOK, SessTypeOK, NodeTypeOK, ConstantsAssumption
      <4> QED BY <2>0, <3>1, <4>1 DEF LiveOnLink
    <3>3. OpenAtPrimary' /\ AllAtPrimary'
      <4> HIDE DEF TInv
      <4> QED BY <3>1 DEF OpenAtPrimary, AllAtPrimary
    <3> QED BY <3>2, <3>3
  <2>8. ASSUME NEW s \in Sessions, OperatorCancel(s) PROVE PlaceInv'
    BY <1>1, <2>0, <2>8 DEF OperatorCancel
  <2> QED BY <1>3, <2>1, <2>2, <2>3, <2>5, <2>7, <2>8 DEF ClusterNext, Server, Patroni, Faults
<1>4. CASE Terminate \/ Done \/ UNCHANGED vars
  BY <1>1, <1>4 DEF Terminate, Done, vars, threadVars, nodeVars, sessVars
<1> QED BY <1>2, <1>1, <1>3, <1>4 DEF Next, WorkersNext

THEOREM PlaceInvariant == Spec => []PlaceInv
<1>1. Init => TInv /\ SInv /\ PlaceInv
  BY TInvInit, SInvInit, PlaceInvInit DEF Init
<1>2. TInv /\ SInv /\ PlaceInv /\ [Next]_vars => (TInv /\ SInv /\ PlaceInv)'
  BY TInvStep, SInvStep, PlaceInvStep
<1> QED BY <1>1, <1>2, PTL DEF Spec

-----------------------------------------------------------------------------
(* Duplicates.  A COMMIT the servers have still to carry out, by whichever *)
(* session of w, counts as if it were applied already; w itself accounts   *)
(* for what it saw committed, what it lost sight of, and what it awaits.   *)

Pending(w) == {s \in Sessions : txn[s] = "commit" /\ owner[s] = w}

Accounted(w) == acked[w] + unknown[w] + (IF pc[w] = "commit" THEN 1 ELSE 0)

CountInv ==
  \A w \in Workers :
    IsFiniteSet(Pending(w)) /\ applied[w] + Cardinality(Pending(w)) <= Accounted(w)

\* A step that commits nothing and sends no COMMIT.
Quiet ==
  /\ applied' = applied
  /\ \A w \in Workers : Pending(w)' \subseteq Pending(w) /\ Accounted(w) <= Accounted(w)'

LEMMA QuietKeepsCount ==
  ASSUME TInv, TInv', CountInv, Quiet
  PROVE  CountInv'
<1> SUFFICES ASSUME NEW w \in Workers
             PROVE  /\ IsFiniteSet(Pending(w)')
                    /\ applied'[w] + Cardinality(Pending(w)') <= Accounted(w)'
  BY DEF CountInv
<1>1. /\ IsFiniteSet(Pending(w)) /\ Pending(w)' \subseteq Pending(w)
      /\ applied[w] + Cardinality(Pending(w)) <= Accounted(w)
      /\ Accounted(w) <= Accounted(w)' /\ applied'[w] = applied[w]
  BY DEF CountInv, Quiet
<1>2. /\ IsFiniteSet(Pending(w)') /\ Cardinality(Pending(w)') <= Cardinality(Pending(w))
      /\ Cardinality(Pending(w)') \in Nat /\ Cardinality(Pending(w)) \in Nat
  BY <1>1, FS_Subset, FS_CardinalityType
<1>3. Accounted(w) \in Nat /\ Accounted(w)' \in Nat /\ applied[w] \in Nat
  BY DEF Accounted, TInv, TypeOK, HistoryTypeOK
<1> QED BY <1>1, <1>2, <1>3

\* What most steps leave alone.
LEMMA KeepingIsQuiet ==
  ASSUME TInv, UNCHANGED <<applied, acked, unknown, txn, owner>>,
         \A v \in Workers : pc[v] = "commit" => pc'[v] = "commit"
  PROVE  Quiet
<1>1. ASSUME NEW v \in Workers PROVE Accounted(v) <= Accounted(v)'
  <2>1. acked[v] \in Nat /\ unknown[v] \in Nat
    BY DEF TInv, TypeOK, HistoryTypeOK
  <2> QED BY <2>1 DEF Accounted
<1>2. ASSUME NEW v \in Workers PROVE Pending(v)' \subseteq Pending(v)
  BY DEF Pending
<1> QED BY <1>1, <1>2 DEF Quiet

\* A COMMIT whose outcome w loses sight of.
LEMMA LosingIsQuiet ==
  ASSUME TInv, NEW w \in Workers, UNCHANGED <<applied, acked, txn, owner>>,
         unknown' = IF pc[w] = "commit" THEN [unknown EXCEPT ![w] = @ + 1] ELSE unknown,
         \A v \in Workers \ {w} : pc'[v] = pc[v]
  PROVE  Quiet
<1>1. ASSUME NEW v \in Workers PROVE Accounted(v) <= Accounted(v)'
  <2>1. acked[v] \in Nat /\ unknown[v] \in Nat /\ unknown \in [Workers -> Nat]
    BY DEF TInv, TypeOK, HistoryTypeOK
  <2>2. CASE v = w /\ pc[w] = "commit"
    <3>1. unknown'[v] = unknown[v] + 1
      BY <2>1, <2>2
    <3> QED BY <2>1, <2>2, <3>1 DEF Accounted
  <2>3. CASE v = w /\ pc[w] # "commit"
    BY <2>1, <2>3 DEF Accounted
  <2>4. CASE v # w
    <3>1. unknown'[v] = unknown[v] /\ pc'[v] = pc[v]
      BY <2>1, <2>4
    <3> QED BY <2>1, <3>1 DEF Accounted
  <2> QED BY <2>2, <2>3, <2>4
<1>2. ASSUME NEW v \in Workers PROVE Pending(v)' \subseteq Pending(v)
  BY DEF Pending
<1> QED BY <1>1, <1>2 DEF Quiet

LEMMA ThreadIsQuiet ==
  ASSUME TInv, NEW w \in Workers, Thread(w), ~UpdateAndCommit(w)
  PROVE  Quiet
<1> USE DEF Quiet, Pending, Accounted, Goto, InTxn, history, sessVars, LinkUp, TInv, TypeOK,
        ThreadTypeOK, SessTypeOK, HistoryTypeOK
<1>1. CASE Test(w) \/ Load(w)
  <2>1. UNCHANGED <<applied, acked, unknown, txn, owner>>
    BY <1>1 DEF Test, Load
  <2>2. \A v \in Workers : pc[v] = "commit" => pc'[v] = "commit"
    BY <1>1 DEF Test, Load
  <2> QED BY <2>1, <2>2, KeepingIsQuiet
<1>2. CASE Store(w)
  <2>1. UNCHANGED <<applied, acked, unknown, txn, owner>>
    BY <1>2 DEF Store
  <2>2. \A v \in Workers : pc[v] = "commit" => pc'[v] = "commit"
    BY <1>2 DEF Store
  <2> QED BY <2>1, <2>2, KeepingIsQuiet
<1>3. CASE Connect(w)
  BY <1>3 DEF Connect, FreeSession
<1>4. CASE CannotConnect(w) \/ Rollback(w) \/ RollbackFails(w) \/ UndefinedTable(w)
  <2>1. UNCHANGED <<applied, acked, unknown, txn, owner>>
    BY <1>4 DEF CannotConnect, Rollback, RollbackFails, UndefinedTable
  <2>2. \A v \in Workers : pc[v] = "commit" => pc'[v] = "commit"
    BY <1>4 DEF CannotConnect, Rollback, RollbackFails, UndefinedTable
  <2> QED BY <2>1, <2>2, KeepingIsQuiet
<1>5. CASE Begin(w)
  BY <1>5 DEF Begin
<1>6. CASE LockRow(w)
  <2>1. UNCHANGED <<applied, acked, unknown, txn, owner>>
    BY <1>6 DEF LockRow
  <2>2. \A v \in Workers : pc[v] = "commit" => pc'[v] = "commit"
    BY <1>6 DEF LockRow
  <2> QED BY <2>1, <2>2, KeepingIsQuiet
<1>7. CASE Committed(w)
  <2>1. /\ UNCHANGED <<applied, unknown, owner>> /\ acked' = [acked EXCEPT ![w] = @ + 1]
        /\ txn' = [txn EXCEPT ![db_local[w]] = "idle"]
    BY <1>7 DEF Committed, ReturnsTrue
  <2>2. \A v \in Workers \ {w} : pc'[v] = pc[v]
    BY <1>7 DEF Committed, ReturnsTrue
  <2>3. ASSUME NEW v \in Workers PROVE Accounted(v) <= Accounted(v)'
    <3>1. acked'[v] = IF v = w THEN acked[v] + 1 ELSE acked[v]
      BY <2>1
    <3>2. acked[v] \in Nat /\ unknown[v] \in Nat /\ unknown'[v] = unknown[v]
      BY <2>1
    <3>3. v # w => pc'[v] = pc[v]
      BY <2>2
    <3> HIDE DEF TInv
    <3> QED BY <3>1, <3>2, <3>3
  <2> QED BY <2>1, <2>3
<1>8. CASE DeadlockError(w)
  BY <1>8 DEF DeadlockError, AbortOnExit
<1>9. CASE ReadOnlyTransactionError(w)
  <2>1. UNCHANGED <<applied, acked, unknown, txn, owner>>
    BY <1>9 DEF ReadOnlyTransactionError, RetryAt
  <2>2. \A v \in Workers : pc[v] = "commit" => pc'[v] = "commit"
    BY <1>9 DEF ReadOnlyTransactionError, RetryAt
  <2> QED BY <2>1, <2>2, KeepingIsQuiet
<1>10. CASE QueryCanceledError(w)
  <2>1. /\ UNCHANGED <<applied, acked, unknown, owner>>
        /\ txn' = [txn EXCEPT ![db_local[w]] = "idle"]
    BY <1>10 DEF QueryCanceledError, AbortOnExit
  <2>2. pc[w] = "lock" /\ \A v \in Workers \ {w} : pc'[v] = pc[v]
    BY <1>10 DEF QueryCanceledError, CanBeCanceled
  <2> QED BY <2>1, <2>2
<1>11. CASE AdminShutdownError(w)
  <2>1. /\ UNCHANGED <<applied, acked, txn, owner>>
        /\ unknown' = IF pc[w] = "commit" THEN [unknown EXCEPT ![w] = @ + 1] ELSE unknown
    BY <1>11 DEF AdminShutdownError, LoseTransaction
  <2>2. \A v \in Workers \ {w} : pc'[v] = pc[v]
    BY <1>11 DEF AdminShutdownError
  <2> QED BY <2>1, <2>2, LosingIsQuiet
<1>12. CASE ConnectionFailureError(w)
  <2>1. UNCHANGED <<applied, acked, txn, owner>>
    BY <1>12 DEF ConnectionFailureError
  <2>2. unknown' = IF pc[w] = "commit" THEN [unknown EXCEPT ![w] = @ + 1] ELSE unknown
    BY <1>12 DEF ConnectionFailureError, LoseTransaction
  <2>3. \A v \in Workers \ {w} : pc'[v] = pc[v]
    BY <1>12 DEF ConnectionFailureError
  <2> QED BY <2>1, <2>2, <2>3, LosingIsQuiet
<1>13. CASE UncaughtTimeout(w)
  <2>1. UNCHANGED <<applied, acked, unknown, txn, owner>>
    BY <1>13 DEF UncaughtTimeout
  <2>2. \A v \in Workers : pc[v] = "commit" => pc'[v] = "commit"
    BY <1>13 DEF UncaughtTimeout
  <2> QED BY <2>1, <2>2, KeepingIsQuiet
<1>14. CASE Close(w)
  BY <1>14 DEF Close
<1> QED BY <1>1, <1>2, <1>3, <1>4, <1>5, <1>6, <1>7, <1>8, <1>9, <1>10, <1>11, <1>12, <1>13, <1>14
       DEF Thread

\* The COMMIT is pending on the session of w, and w awaits its answer.
LEMMA CommitIsCounted ==
  ASSUME TInv, SInv, CountInv, NEW w \in Workers, UpdateAndCommit(w)
  PROVE  CountInv'
<1> DEFINE s == db_local[w]
<1>1. s \in Sessions /\ owner[s] = w /\ owner' = owner /\ pc[w] = "lock"
  BY DEF UpdateAndCommit, LinkUp, Goto, TInv, TypeOK, ThreadTypeOK, SInv, OwnsConnection
<1>2. /\ txn' = [txn EXCEPT ![s] = "commit"] /\ pc' = [pc EXCEPT ![w] = "commit"]
      /\ UNCHANGED <<acked, applied, unknown>>
  BY DEF UpdateAndCommit, Goto, history
<1> SUFFICES ASSUME NEW v \in Workers
             PROVE  /\ IsFiniteSet(Pending(v)')
                    /\ applied'[v] + Cardinality(Pending(v)') <= Accounted(v)'
  BY DEF CountInv
<1>3. IsFiniteSet(Pending(v)) /\ applied[v] + Cardinality(Pending(v)) <= Accounted(v)
  BY DEF CountInv
<1>4. /\ Cardinality(Pending(v)) \in Nat
      /\ applied[v] \in Nat /\ acked[v] \in Nat /\ unknown[v] \in Nat
  BY <1>3, FS_CardinalityType DEF TInv, TypeOK, HistoryTypeOK
<1>5. CASE v = w
  <2>1. Pending(v)' = Pending(v) \cup {s}
    BY <1>1, <1>2, <1>5 DEF Pending, TInv, TypeOK, SessTypeOK
  <2>2. /\ IsFiniteSet(Pending(v)')
        /\ Cardinality(Pending(v)') <= Cardinality(Pending(v)) + 1
        /\ Cardinality(Pending(v)') \in Nat
    <3>1. /\ IsFiniteSet(Pending(v) \cup {s})
          /\ \/ Cardinality(Pending(v) \cup {s}) = Cardinality(Pending(v))
             \/ Cardinality(Pending(v) \cup {s}) = Cardinality(Pending(v)) + 1
      BY <1>3, FS_AddElement
    <3> QED BY <1>4, <2>1, <3>1
  <2>3. Accounted(v)' = Accounted(v) + 1
    BY <1>1, <1>2, <1>4, <1>5 DEF Accounted, TInv, TypeOK, ThreadTypeOK
  <2> QED BY <1>2, <1>3, <1>4, <2>2, <2>3 DEF Accounted
<1>6. CASE v # w
  <2>1. Pending(v)' = Pending(v)
    BY <1>1, <1>2, <1>6 DEF Pending, TInv, TypeOK, SessTypeOK
  <2>2. Accounted(v)' = Accounted(v)
    BY <1>1, <1>2, <1>6 DEF Accounted, TInv, TypeOK, ThreadTypeOK
  <2> QED BY <1>2, <1>3, <2>1, <2>2
<1> QED BY <1>5, <1>6

\* Carried out, it moves from pending to applied.
LEMMA ApplyingIsCounted ==
  ASSUME TInv, CountInv, NEW s \in Sessions, ServerCommit(s)
  PROVE  CountInv'
<1>1. /\ txn[s] = "commit" /\ txn' = [txn EXCEPT ![s] = "committed"]
      /\ applied' = [applied EXCEPT ![owner[s]] = @ + 1]
      /\ UNCHANGED <<acked, unknown, pc, owner>>
  BY DEF ServerCommit, programVars, threadVars
<1> SUFFICES ASSUME NEW v \in Workers
             PROVE  /\ IsFiniteSet(Pending(v)')
                    /\ applied'[v] + Cardinality(Pending(v)') <= Accounted(v)'
  BY DEF CountInv
<1>2. IsFiniteSet(Pending(v)) /\ applied[v] + Cardinality(Pending(v)) <= Accounted(v)
  BY DEF CountInv
<1>3. Cardinality(Pending(v)) \in Nat /\ applied[v] \in Nat
  BY <1>2, FS_CardinalityType DEF TInv, TypeOK, HistoryTypeOK
<1>4. Accounted(v)' = Accounted(v) /\ Accounted(v) \in Nat
  BY <1>1 DEF Accounted, TInv, TypeOK, HistoryTypeOK
<1>5. CASE v = owner[s]
  <2>1. Pending(v)' = Pending(v) \ {s} /\ s \in Pending(v)
    BY <1>1, <1>5 DEF Pending, TInv, TypeOK, SessTypeOK
  <2>2. /\ IsFiniteSet(Pending(v)')
        /\ Cardinality(Pending(v)') = Cardinality(Pending(v)) - 1
    BY <1>2, <2>1, FS_RemoveElement
  <2>3. applied'[v] = applied[v] + 1
    BY <1>1, <1>5 DEF TInv, TypeOK, HistoryTypeOK
  <2> QED BY <1>2, <1>3, <1>4, <2>2, <2>3
<1>6. CASE v # owner[s]
  <2>1. Pending(v)' = Pending(v) /\ applied'[v] = applied[v]
    BY <1>1, <1>6 DEF Pending, TInv, TypeOK, SessTypeOK, HistoryTypeOK
  <2> QED BY <1>2, <1>4, <2>1
<1> QED BY <1>5, <1>6

LEMMA ClusterIsQuiet ==
  ASSUME TInv, ClusterNext \/ Terminate \/ Done \/ UNCHANGED vars,
         ~\E s \in Sessions : ServerCommit(s)
  PROVE  Quiet
<1> USE DEF Quiet, Pending, Accounted, programVars, threadVars, history, sessVars,
        TInv, TypeOK, SessTypeOK, HistoryTypeOK
<1>1. ASSUME NEW s \in Sessions, ServerNotices(s) \/ CancelIgnored(s) \/ BreakLink(s)
                                   \/ OperatorCancel(s)
      PROVE  Quiet
  BY <1>1 DEF ServerNotices, CancelIgnored, BreakLink, OperatorCancel
<1>2. ASSUME NEW h \in Hosts, Promote(h) \/ Restart(h) \/ Replicate(h)
      PROVE  Quiet
  BY <1>2 DEF Promote, Restart, Replicate
<1>3. CASE Switchover \/ Crash
  <2>1. PrimaryEnds
    BY <1>3 DEF Switchover, Crash
  <2> QED BY <2>1 DEF PrimaryEnds, EndSessions
<1>4. CASE Terminate \/ Done \/ UNCHANGED vars
  BY <1>4 DEF Terminate, Done, vars
<1> QED BY <1>1, <1>2, <1>3, <1>4 DEF ClusterNext, Server, Patroni, Faults

LEMMA CountInvStep == TInv /\ SInv /\ CountInv /\ [Next]_vars => CountInv'
<1> SUFFICES ASSUME TInv, SInv, CountInv, [Next]_vars PROVE CountInv'
  OBVIOUS
<1>1. TInv'
  BY TInvStep
<1>2. CASE \E w \in Workers : UpdateAndCommit(w)
  BY <1>2, CommitIsCounted
<1>3. CASE \E s \in Sessions : ServerCommit(s)
  BY <1>3, ApplyingIsCounted
<1>4. CASE WorkersNext /\ ~\E w \in Workers : UpdateAndCommit(w)
  BY <1>1, <1>4, ThreadIsQuiet, QuietKeepsCount DEF WorkersNext
<1>5. CASE ~WorkersNext /\ ~\E s \in Sessions : ServerCommit(s)
  BY <1>1, <1>5, ClusterIsQuiet, QuietKeepsCount DEF Next
<1> QED BY <1>2, <1>3, <1>4, <1>5

LEMMA CountInvInit == InitButTables => CountInv
<1> SUFFICES ASSUME InitButTables, NEW w \in Workers
             PROVE  /\ IsFiniteSet(Pending(w))
                    /\ applied[w] + Cardinality(Pending(w)) <= Accounted(w)
  BY DEF CountInv
<1>1. Pending(w) = {}
  BY DEF InitButTables, Pending
<1> QED BY <1>1, FS_EmptySet DEF InitButTables, Accounted

LEMMA DuplicatesFollow == TInv /\ CountInv => DuplicatesExplained
<1> SUFFICES ASSUME TInv, CountInv, NEW w \in Workers PROVE applied[w] <= Accounted(w)
  BY DEF DuplicatesExplained, Accounted
<1>1. Cardinality(Pending(w)) \in Nat
  BY FS_CardinalityType DEF CountInv
<1>2. applied[w] \in Nat /\ Accounted(w) \in Nat
  BY DEF Accounted, TInv, TypeOK, HistoryTypeOK
<1> QED BY <1>1, <1>2 DEF CountInv

(* A worker's transfers are committed at most once more per COMMIT whose   *)
(* answer it never saw, however many of its sessions were orphaned.        *)
THEOREM DuplicatesAreExplained == Spec => []DuplicatesExplained
  BY CountInvInit, DuplicatesFollow, TInvInit, SInvInit, TInvStep, SInvStep, CountInvStep, PTL DEF Spec, Init

-----------------------------------------------------------------------------
(* The counter.  A thread between the test of the counter and its          *)
(* increment is about to begin a task; each thread can be there once.      *)

Taking == {w \in Workers : pc[w] = "load"}

CounterInv ==
  /\ operation_num <= started /\ \A w \in Workers : loaded[w] <= started
  /\ AtomicIncrement =>
       /\ operation_num = started
       /\ \A w \in Workers : pc[w] # "store"
       /\ \/ started + Cardinality(Taking) <= Operations + Cardinality(Workers) - 1
          \/ started = 0 /\ Taking = {}

LEMMA TakingIsFinite ==
  ASSUME NEW S \in SUBSET Workers
  PROVE  /\ IsFiniteSet(S) /\ Cardinality(S) \in Nat
         /\ Cardinality(Workers) \in Nat /\ Cardinality(S) <= Cardinality(Workers)
  BY ConstantsAssumption, FS_Subset, FS_CardinalityType DEF ConstantsAssumption

\* Everything but the first three steps of a task.
LEMMA CounterUndisturbed ==
  ASSUME TInv, CounterInv, [Next]_vars,
         ~\E w \in Workers : Test(w) \/ Load(w) \/ Store(w)
  PROVE  CounterInv'
<1>1. /\ UNCHANGED <<operation_num, started, loaded>>
      /\ \A v \in Workers : pc'[v] \in {"load", "store"} => pc'[v] = pc[v]
  <2> USE DEF TInv, TypeOK, ThreadTypeOK, threadVars, history, sharedVars
  <2>1. ASSUME NEW w \in Workers, Thread(w), ~Test(w), ~Load(w), ~Store(w)
        PROVE  /\ UNCHANGED <<operation_num, started, loaded>>
               /\ \A v \in Workers : pc'[v] \in {"load", "store"} => pc'[v] = pc[v]
    <3> USE DEF Goto, RetryAt
    <3>1. CASE Connect(w) \/ CannotConnect(w) \/ Begin(w) \/ LockRow(w) \/ UpdateAndCommit(w)
      BY <3>1 DEF Connect, CannotConnect, Begin, LockRow, UpdateAndCommit
    <3>2. CASE Committed(w) \/ DeadlockError(w) \/ Rollback(w) \/ RollbackFails(w) \/ UndefinedTable(w)
      BY <3>2 DEF Committed, ReturnsTrue, DeadlockError, Rollback, RollbackFails, UndefinedTable
    <3>3. CASE ReadOnlyTransactionError(w) \/ QueryCanceledError(w) \/ AdminShutdownError(w)
      BY <3>3 DEF ReadOnlyTransactionError, QueryCanceledError, AdminShutdownError
    <3>4. CASE ConnectionFailureError(w) \/ UncaughtTimeout(w) \/ Close(w)
      BY <3>4 DEF ConnectionFailureError, UncaughtTimeout, LoseTransaction, Close
    <3> QED BY <2>1, <3>1, <3>2, <3>3, <3>4 DEF Thread
  <2>2. CASE ClusterNext \/ Terminate \/ Done \/ UNCHANGED vars
    BY <2>2 DEF ClusterNext, Server, Patroni, Faults, programVars, ServerCommit, ServerNotices,
       CancelIgnored, Promote, Restart, Replicate, Switchover, Crash, PrimaryEnds, BreakLink, OperatorCancel,
       Terminate, Done, vars
  <2> QED BY <2>1, <2>2 DEF Next, WorkersNext
<1>2. Taking' \in SUBSET Taking
  BY <1>1 DEF Taking
<1>3. /\ Cardinality(Taking) \in Nat /\ Cardinality(Taking') \in Nat
      /\ Cardinality(Taking') <= Cardinality(Taking)
  <2>1. IsFiniteSet(Taking) /\ Taking \in SUBSET Workers /\ Taking' \in SUBSET Workers
    BY TakingIsFinite DEF Taking
  <2> QED BY <1>2, <2>1, TakingIsFinite, FS_Subset
<1>4. operation_num' <= started' /\ \A w \in Workers : loaded'[w] <= started'
  BY <1>1 DEF CounterInv
<1>5. ASSUME AtomicIncrement
      PROVE  /\ operation_num' = started' /\ \A w \in Workers : pc'[w] # "store"
             /\ \/ started' + Cardinality(Taking') <= Operations + Cardinality(Workers) - 1
                \/ started' = 0 /\ Taking' = {}
  <2>1. Cardinality(Workers) \in Nat /\ Operations \in Nat /\ started \in Nat
    BY TakingIsFinite, ConstantsAssumption DEF ConstantsAssumption, TInv, TypeOK, HistoryTypeOK
  <2>2. \/ started + Cardinality(Taking) <= Operations + Cardinality(Workers) - 1
        \/ started = 0 /\ Taking = {}
    BY <1>5 DEF CounterInv
  <2>3. \/ started' + Cardinality(Taking') <= Operations + Cardinality(Workers) - 1
        \/ started' = 0 /\ Taking' = {}
    BY <1>1, <1>2, <1>3, <2>1, <2>2
  <2>4. operation_num' = started' /\ \A w \in Workers : pc'[w] # "store"
    BY <1>1, <1>5 DEF CounterInv
  <2> QED BY <2>3, <2>4
<1> QED BY <1>4, <1>5 DEF CounterInv

LEMMA CounterInvStep == TInv /\ CounterInv /\ [Next]_vars => CounterInv'
<1> SUFFICES ASSUME TInv, CounterInv, [Next]_vars PROVE CounterInv'
  OBVIOUS
<1> USE ConstantsAssumption DEF ConstantsAssumption, TInv, TypeOK, SharedTypeOK, ThreadTypeOK,
        HistoryTypeOK, Goto
<1>1. ASSUME NEW w \in Workers, Test(w) PROVE CounterInv'
  <2>1. /\ UNCHANGED <<operation_num, started, loaded>>
        /\ pc' = [pc EXCEPT ![w] = IF TasksLeft /\ ~is_terminate THEN "load" ELSE "close"]
    BY <1>1 DEF Test, sharedVars, history
  <2>2. /\ Cardinality(Taking') \in Nat /\ Cardinality(Workers) \in Nat
        /\ Cardinality(Taking') <= Cardinality(Workers)
    BY TakingIsFinite DEF Taking
  <2>3. CASE TasksLeft /\ ~is_terminate
    <3>1. AtomicIncrement => started + Cardinality(Taking') <= Operations + Cardinality(Workers) - 1
      BY <2>2, <2>3, ConstantsAssumption DEF CounterInv, TasksLeft, ConstantsAssumption
    <3>2. \A v \in Workers : pc[v] # "store" => pc'[v] # "store"
      BY <2>1, <2>3
    <3> QED BY <2>1, <3>1, <3>2 DEF CounterInv
  <2>4. CASE ~(TasksLeft /\ ~is_terminate)
    <3>1. Taking' = Taking
      BY <1>1, <2>1, <2>4 DEF Taking, Test
    <3> QED BY <2>1, <2>4, <3>1 DEF CounterInv
  <2> QED BY <2>3, <2>4
<1>2. ASSUME NEW w \in Workers, Load(w) PROVE CounterInv'
  BY <1>2 DEF Load, CounterInv, sharedVars, history
<1>3. ASSUME NEW w \in Workers, Store(w) PROVE CounterInv'
  <2>1. /\ started' = started + 1 /\ loaded' = [loaded EXCEPT ![w] = 0]
        /\ pc' = [pc EXCEPT ![w] = DoWork(w)]
        /\ \/ operation_num' = loaded[w] + 1 /\ pc[w] = "store"
           \/ operation_num' = operation_num + 1 /\ pc[w] = "load"
    BY <1>3 DEF Store
  <2>2. operation_num' <= started' /\ \A v \in Workers : loaded'[v] <= started'
    <3>1. /\ operation_num <= started /\ \A v \in Workers : loaded[v] <= started
          /\ operation_num \in Nat /\ started \in Nat /\ \A v \in Workers : loaded[v] \in Nat
      BY DEF CounterInv
    <3>2. \A v \in Workers : loaded'[v] \in {0, loaded[v]}
      BY <2>1
    <3>3. started' = started + 1
      BY <2>1
    <3>4. operation_num' <= started + 1
      BY <2>1, <3>1
    <3>5. ASSUME NEW v \in Workers PROVE loaded'[v] <= started + 1
      <4>1. loaded[v] \in Nat /\ started \in Nat /\ loaded[v] <= started /\ loaded'[v] \in {0, loaded[v]}
        BY <3>1, <3>2
      <4> HIDE DEF TInv, CounterInv
      <4> QED BY <4>1
    <3> QED BY <3>3, <3>4, <3>5
  <2>3. CASE AtomicIncrement
    <3>1. pc[w] = "load" /\ operation_num' = operation_num + 1
      BY <2>1, <2>3 DEF CounterInv
    <3>2. Taking' = Taking \ {w} /\ w \in Taking /\ \A v \in Workers : pc'[v] # "store"
      BY <2>1, <2>3, <3>1 DEF Taking, DoWork, CounterInv
    <3>3. Cardinality(Taking') = Cardinality(Taking) - 1
      <4>1. IsFiniteSet(Taking)
        BY TakingIsFinite DEF Taking
      <4>2. w \in Taking => Cardinality(Taking \ {w}) = Cardinality(Taking) - 1
        BY <4>1, FS_RemoveElement
      <4>3. Cardinality(Taking') = Cardinality(Taking \ {w})
        BY <3>2
      <4> QED BY <3>2, <4>2, <4>3
    <3>4. Cardinality(Taking) \in Nat /\ Cardinality(Workers) \in Nat
      BY TakingIsFinite DEF Taking
    <3>5. started' + Cardinality(Taking') <= Operations + Cardinality(Workers) - 1
      <4>1. started + Cardinality(Taking) <= Operations + Cardinality(Workers) - 1
        BY <2>3, <3>2 DEF CounterInv
      <4> HIDE DEF Taking
      <4>2. started' = started + 1 /\ started \in Nat
        BY <2>1
      <4> QED BY <4>1, <4>2, <3>3, <3>4, ConstantsAssumption DEF ConstantsAssumption
    <3>6. operation_num' = started'
      BY <2>1, <2>3, <3>1 DEF CounterInv
    <3> QED BY <2>2, <3>2, <3>5, <3>6 DEF CounterInv
  <2> QED BY <2>2, <2>3 DEF CounterInv
<1> QED BY <1>1, <1>2, <1>3, CounterUndisturbed

LEMMA CounterInvInit == InitButTables => CounterInv
<1> SUFFICES ASSUME InitButTables PROVE CounterInv
  OBVIOUS
<1>1. Taking = {}
  BY DEF InitButTables, Taking
<1> QED BY <1>1 DEF InitButTables, CounterInv

LEMMA CounterBoundsFollow == TInv /\ CounterInv => CounterBounds
<1> SUFFICES ASSUME TInv, CounterInv PROVE CounterBounds
  OBVIOUS
<1>1. Cardinality(Taking) \in Nat /\ Cardinality(Workers) \in Nat
  BY TakingIsFinite DEF Taking
<1> QED BY <1>1, ConstantsAssumption
       DEF ConstantsAssumption, CounterInv, CounterBounds, TInv, TypeOK, HistoryTypeOK

(* The counter lags behind the tasks begun at most by lost increments, and *)
(* check-then-increment overshoots --operations by less than the number of *)
(* threads where "+=" is atomic.                                           *)
THEOREM CounterIsBounded == Spec => []CounterBounds
  BY CounterInvInit, CounterBoundsFollow, TInvInit, TInvStep, CounterInvStep, PTL DEF Spec, Init

-----------------------------------------------------------------------------
(* The rows.  While its SELECT runs, a thread's session holds the rows it  *)
(* has gone through and the thread wants the others; COMMIT finds both.    *)

Held(s) == {a \in Accounts : lock[a] = s}

RowsOf(w, a, b) ==
  \/ want[w] = <<a, b>> /\ Held(db_local[w]) = {}
  \/ want[w] = <<b>> /\ Held(db_local[w]) = {a}
  \/ want[w] = <<>> /\ Held(db_local[w]) = {a, b}

Locking(w) == pc[w] = "lock" /\ LinkUp(w)

RowsInv ==
  /\ \A s \in Sessions :
       txn[s] = "commit" => \E a, b \in Accounts : a # b /\ Held(s) = {a, b}
  /\ \A w \in Workers :
       Locking(w) => \E a, b \in Accounts : a # b /\ RowsOf(w, a, b)

\* A step that gives nobody rows, and takes none from who needs them.
RowsKept ==
  /\ \A s \in Sessions : txn'[s] = "commit" => txn[s] = "commit" /\ Held(s)' = Held(s)
  /\ \A w \in Workers :
       Locking(w)' => /\ Locking(w) /\ want'[w] = want[w] /\ db_local'[w] = db_local[w]
                      /\ Held(db_local[w])' = Held(db_local[w])

LEMMA KeptRowsInv == RowsInv /\ RowsKept => RowsInv'
<1> SUFFICES ASSUME RowsInv, RowsKept PROVE RowsInv'
  OBVIOUS
<1>1. ASSUME NEW s \in Sessions, txn'[s] = "commit"
      PROVE  \E a, b \in Accounts : a # b /\ Held(s)' = {a, b}
  BY <1>1 DEF RowsInv, RowsKept
<1>2. ASSUME NEW w \in Workers, Locking(w)'
      PROVE  \E a, b \in Accounts : a # b /\ RowsOf(w, a, b)'
  <2>1. /\ Locking(w) /\ want'[w] = want[w] /\ db_local'[w] = db_local[w]
        /\ Held(db_local[w])' = Held(db_local[w])
    BY <1>2 DEF RowsKept
  <2>2. PICK a, b \in Accounts : a # b /\ RowsOf(w, a, b)
    BY <2>1 DEF RowsInv
  <2> QED BY <2>1, <2>2 DEF RowsOf
<1> QED BY <1>1, <1>2 DEF RowsInv

LEMMA ThreadKeepsRows ==
  ASSUME TInv, SInv, NEW w \in Workers, Thread(w),
         ~Begin(w), ~LockRow(w), ~UpdateAndCommit(w)
  PROVE  RowsKept
<1> USE DEF RowsKept, Locking, LinkUp, Goto, TInv, TypeOK, ThreadTypeOK, SessTypeOK,
        InTxn, RetryAt, threadVars, sessVars
<1>1. CASE Test(w) \/ Load(w)
  BY <1>1 DEF Held, Test, Load
<1>2. CASE Store(w)
  BY <1>2 DEF Held, Store, DoWork
<1>3. CASE Connect(w)
  BY <1>3 DEF Held, Connect, FreeSession
<1>4. CASE CannotConnect(w) \/ Rollback(w) \/ RollbackFails(w) \/ UndefinedTable(w)
  BY <1>4 DEF Held, CannotConnect, Rollback, RollbackFails, UndefinedTable
<1>5. CASE Committed(w)
  BY <1>5 DEF Held, Committed, ReturnsTrue, KeepConnection
<1>6. CASE ReadOnlyTransactionError(w)
  BY <1>6 DEF Held, ReadOnlyTransactionError, Forget
<1>7. CASE AdminShutdownError(w)
  BY <1>7 DEF Held, AdminShutdownError, LoseTransaction, Unwant, Forget
<1>8. CASE ConnectionFailureError(w)
  BY <1>8 DEF Held, ConnectionFailureError, LoseTransaction, Unwant, Forget
<1>9. CASE UncaughtTimeout(w)
  BY <1>9 DEF Held, UncaughtTimeout
<1>10. CASE Close(w)
  BY <1>10 DEF Held, Close
<1>11. CASE DeadlockError(w) \/ QueryCanceledError(w)
  <2>1. /\ owner[db_local[w]] = w /\ db_local[w] \in Sessions
        /\ pc[w] = "lock" /\ pc'[w] # "lock"
        /\ \A v \in Workers \ {w} : pc'[v] = pc[v] /\ want'[v] = want[v] /\ db_local'[v] = db_local[v]
        /\ txn' = [txn EXCEPT ![db_local[w]] = "idle"] /\ lock' = Freed({db_local[w]})
        /\ link' = link
    BY <1>11 DEF DeadlockError, QueryCanceledError, CanBeCanceled, AbortOnExit, Unwant, Forget,
       SInv, OwnsConnection
  <2>2. \A s \in Sessions \ {db_local[w]} : Held(s)' = Held(s)
    BY <2>1, ConstantsAssumption DEF Held, Freed, ConstantsAssumption
  <2>3. \A v \in Workers \ {w} : db_local[v] # None => db_local[v] # db_local[w]
    BY <2>1 DEF SInv, OwnsConnection
  <2>4. \A v \in Workers : Locking(v)' => v # w /\ Held(db_local[v])' = Held(db_local[v])
    <3> SUFFICES ASSUME NEW v \in Workers, Locking(v)'
                 PROVE  v # w /\ Held(db_local[v])' = Held(db_local[v])
      OBVIOUS
    <3>1. v # w /\ db_local'[v] = db_local[v] /\ db_local[v] \in Sessions \ {db_local[w]}
      BY <2>1, <2>3
    <3> QED BY <2>2, <3>1 DEF Held
  <2> QED BY <2>1, <2>2, <2>4
<1> QED BY <1>1, <1>2, <1>3, <1>4, <1>5, <1>6, <1>7, <1>8, <1>9, <1>10, <1>11 DEF Thread

\* Freeing the rows of the sessions in S leaves those of the others alone.
LEMMA FreedKeepsOthers ==
  ASSUME TInv, NEW S, lock' = Freed(S), NEW t \in Sessions \ S
  PROVE  Held(t)' = Held(t)
<1>1. ASSUME NEW a \in Accounts PROVE lock'[a] = t <=> lock[a] = t
  BY ConstantsAssumption DEF ConstantsAssumption, Freed
<1> QED BY <1>1 DEF Held

\* Sessions that end, and whose clients find their links down, keep the rows
\* of the others.
LEMMA DroppedKeepsRows ==
  ASSUME TInv, NEW S \in SUBSET Sessions,
         pc' = pc, want' = want, db_local' = db_local, lock' = Freed(S),
         \A s \in S : link'[s] # "up" /\ txn'[s] = "gone",
         \A s \in Sessions \ S : link'[s] = link[s] /\ txn'[s] = txn[s]
  PROVE  RowsKept
<1>1. ASSUME NEW t \in Sessions, t \notin S PROVE Held(t)' = Held(t)
  BY <1>1, FreedKeepsOthers
<1>2. ASSUME NEW t \in Sessions, txn'[t] = "commit"
      PROVE  txn[t] = "commit" /\ Held(t)' = Held(t)
  BY <1>1, <1>2
<1>3. ASSUME NEW v \in Workers, Locking(v)'
      PROVE  Locking(v) /\ Held(db_local[v])' = Held(db_local[v])
  <2>1. pc[v] = "lock" /\ db_local[v] # None /\ link'[db_local[v]] = "up"
    BY <1>3 DEF Locking, LinkUp
  <2>2. db_local[v] \in Sessions /\ db_local[v] \notin S
    BY <2>1 DEF TInv, TypeOK, ThreadTypeOK
  <2>3. link[db_local[v]] = "up"
    BY <2>1, <2>2
  <2>4. \A t : t \in Sessions /\ t \notin S => {a \in Accounts : lock'[a] = t} = Held(t)
    BY <1>1 DEF Held
  <2>5. Held(db_local[v])' = {a \in Accounts : lock'[a] = db_local[v]}
    BY DEF Held
  <2> QED BY ONLY <2>1, <2>2, <2>3, <2>4, <2>5 DEF Locking, LinkUp
<1> QED BY ONLY <1>2, <1>3, pc' = pc, want' = want, db_local' = db_local DEF RowsKept

LEMMA ClusterKeepsRows ==
  ASSUME TInv, SInv, ClusterNext \/ Terminate \/ Done \/ UNCHANGED vars
  PROVE  RowsKept
<1> USE ConstantsAssumption DEF ConstantsAssumption, RowsKept, Locking, LinkUp, TInv, TypeOK,
        ThreadTypeOK, SessTypeOK, programVars, threadVars, sessVars
<1>1. ASSUME NEW s \in Sessions, ServerCommit(s) PROVE RowsKept
  <2>1. \A v \in Workers : Locking(v) => db_local[v] # s
    BY <1>1 DEF ServerCommit, SInv, OpenWhileLocking
  <2> QED BY <1>1, <2>1 DEF Held, ServerCommit, Freed
<1>2. ASSUME NEW s \in Sessions, ServerNotices(s) PROVE RowsKept
  <2>1. /\ pc' = pc /\ want' = want /\ db_local' = db_local /\ link' = link /\ link[s] # "up"
        /\ txn' = [txn EXCEPT ![s] = "gone"] /\ lock' = Freed({s})
    BY <1>2 DEF ServerNotices
  <2>2. /\ {s} \in SUBSET Sessions /\ lock' = Freed({s})
        /\ \A t \in {s} : link'[t] # "up" /\ txn'[t] = "gone"
        /\ \A t \in Sessions \ {s} : link'[t] = link[t] /\ txn'[t] = txn[t]
    BY <2>1
  <2> QED BY <2>1, <2>2, DroppedKeepsRows
<1>3. ASSUME NEW s \in Sessions, CancelIgnored(s) \/ OperatorCancel(s) PROVE RowsKept
  BY <1>3 DEF Held, CancelIgnored, OperatorCancel
<1>4. ASSUME NEW s \in Sessions, BreakLink(s) PROVE RowsKept
  <2>1. /\ pc' = pc /\ want' = want /\ db_local' = db_local
        /\ link'[s] # "up" /\ \A t \in Sessions \ {s} : link'[t] = link[t]
    BY <1>4 DEF BreakLink
  <2>2. CASE txn' = [txn EXCEPT ![s] = "gone"] /\ lock' = Freed({s})
    <3>1. /\ {s} \in SUBSET Sessions /\ lock' = Freed({s})
          /\ \A t \in {s} : link'[t] # "up" /\ txn'[t] = "gone"
          /\ \A t \in Sessions \ {s} : link'[t] = link[t] /\ txn'[t] = txn[t]
      BY <2>1, <2>2
    <3> QED BY <2>1, <3>1, DroppedKeepsRows
  <2>3. CASE UNCHANGED <<txn, lock>>
    <3>1. \A v \in Workers : Locking(v)' => Locking(v)
      BY <2>1
    <3>2. \A t : Held(t)' = Held(t)
      BY <2>3 DEF Held
    <3>3. \A v \in Workers : Held(db_local[v])' = Held(db_local[v])
      BY <2>1, <2>3 DEF Held
    <3>4. \A t \in Sessions : txn'[t] = "commit" => txn[t] = "commit"
      BY <2>3
    <3> QED BY ONLY <2>1, <3>1, <3>2, <3>3, <3>4 DEF RowsKept
  <2> QED BY <1>4, <2>2, <2>3 DEF BreakLink
<1>5. CASE Switchover \/ Crash
  <2> DEFINE h == primary
  <2>0. EndSessions(h, {"shutdown", "reset"}) /\ UNCHANGED programVars
    BY <1>5 DEF Switchover, Crash, PrimaryEnds
  <2>1. /\ pc' = pc /\ want' = want /\ db_local' = db_local
        /\ OnHost(h) \in SUBSET Sessions /\ lock' = Freed(OnHost(h))
    BY <2>0 DEF EndSessions, OnHost
  <2>2. PICK k : k # "up" /\ link' =
          [s \in Sessions |-> IF s \in OnHost(h) /\ link[s] = "up" THEN k ELSE link[s]]
    BY <2>0 DEF EndSessions
  <2>3. txn' = [s \in Sessions |-> IF s \in OnHost(h) THEN "gone" ELSE txn[s]]
    BY <2>0 DEF EndSessions
  <2>4. /\ \A s \in OnHost(h) : link'[s] # "up" /\ txn'[s] = "gone"
        /\ \A s \in Sessions \ OnHost(h) : link'[s] = link[s] /\ txn'[s] = txn[s]
    BY ONLY <2>1, <2>2, <2>3
  <2> QED BY <2>1, <2>4, DroppedKeepsRows
<1>6. ASSUME NEW h \in Hosts, Promote(h) \/ Restart(h) \/ Replicate(h) PROVE RowsKept
  BY <1>6 DEF Held, Promote, Restart, Replicate
<1>7. CASE Terminate \/ Done \/ UNCHANGED vars
  BY <1>7 DEF Held, Terminate, Done, vars
<1> QED BY <1>1, <1>2, <1>3, <1>4, <1>5, <1>6, <1>7 DEF ClusterNext, Server, Patroni, Faults

\* START TRANSACTION: the session was idle, so it holds no row yet.
LEMMA BeginKeepsRowsInv ==
  ASSUME TInv, SInv, RowsInv, LockHoldersOpen, NEW w \in Workers, Begin(w)
  PROVE  RowsInv'
<1> DEFINE s == db_local[w]
<1>1. /\ pc[w] = "begin" /\ s \in Sessions /\ owner[s] = w /\ lock' = lock
      /\ \A v \in Workers \ {w} : pc'[v] = pc[v] /\ want'[v] = want[v]
      /\ db_local' = db_local /\ link' = link
      /\ txn' = [txn EXCEPT ![s] = "open"] /\ link[s] = "up"
  BY DEF Begin, Goto, LinkUp, SInv, OwnsConnection, TInv, TypeOK, ThreadTypeOK, SessTypeOK
<1>2. txn[s] \notin {"open", "commit"}
  BY <1>1 DEF InTxn, NoAbandonedTransaction, SInv, HasOwner
<1>3. Held(s) = {}
  BY <1>1, <1>2, ConstantsAssumption DEF Held, LockHoldersOpen, ConstantsAssumption
<1>4. \A t : Held(t)' = Held(t)
  BY <1>1 DEF Held
<1>5. ASSUME NEW t \in Sessions, txn'[t] = "commit"
      PROVE  \E a, b \in Accounts : a # b /\ Held(t)' = {a, b}
  <2>1. txn[t] = "commit"
    BY <1>1, <1>5 DEF TInv, TypeOK, SessTypeOK
  <2> QED BY <2>1, <1>4 DEF RowsInv
<1>6. ASSUME NEW v \in Workers, Locking(v)'
      PROVE  \E a, b \in Accounts : a # b /\ RowsOf(v, a, b)'
  <2>1. CASE v = w
    <3>1. PICK a, b \in Accounts : a # b /\ want' = [want EXCEPT ![w] = <<a, b>>]
      BY DEF Begin
    <3>2. want'[w] = <<a, b>> /\ Held(db_local[w])' = {}
      BY <3>1, <1>1, <1>3 DEF Held, TInv, TypeOK, ThreadTypeOK
    <3>3. RowsOf(w, a, b)'
      BY <3>2, <1>1 DEF RowsOf
    <3> QED BY <2>1, <3>1, <3>3
  <2>2. CASE v # w
    <3>1. Locking(v) /\ want'[v] = want[v] /\ db_local' = db_local
      BY <1>1, <1>6, <2>2 DEF Locking, LinkUp
    <3>2. PICK a, b \in Accounts : a # b /\ RowsOf(v, a, b)
      BY <3>1 DEF RowsInv
    <3>3. Held(db_local[v])' = Held(db_local[v])
      BY <1>1 DEF Held
    <3> QED BY <3>1, <3>2, <3>3 DEF RowsOf
  <2> QED BY <2>1, <2>2
<1> QED BY <1>5, <1>6 DEF RowsInv

\* SELECT ... FOR UPDATE locks one row more, nobody's before.
LEMMA LockRowKeepsRowsInv ==
  ASSUME TInv, SInv, RowsInv, NEW w \in Workers, LockRow(w)
  PROVE  RowsInv'
<1> DEFINE s == db_local[w]
           r == Head(want[w])
<1>1. /\ pc[w] = "lock" /\ LinkUp(w) /\ s \in Sessions /\ owner[s] = w /\ txn[s] = "open"
      /\ lock[r] = None /\ lock' = [lock EXCEPT ![r] = s]
      /\ want' = [want EXCEPT ![w] = Tail(@)] /\ want[w] # <<>>
      /\ pc' = pc /\ db_local' = db_local /\ link' = link /\ txn' = txn
  BY DEF LockRow, LinkUp, SInv, OwnsConnection, OpenWhileLocking, TInv, TypeOK, ThreadTypeOK
<1>2. ASSUME NEW t \in Sessions, t # s PROVE Held(t)' = Held(t)
  <2>1. \A a \in Accounts : lock'[a] = t <=> lock[a] = t
    BY <1>1, <1>2, ConstantsAssumption DEF ConstantsAssumption, TInv, TypeOK, SessTypeOK
  <2> QED BY <2>1 DEF Held
<1>3. r \in Accounts => Held(s)' = Held(s) \cup {r}
  BY <1>1 DEF Held, TInv, TypeOK, SessTypeOK
<1>4. ASSUME NEW t \in Sessions, txn'[t] = "commit"
      PROVE  \E a, b \in Accounts : a # b /\ Held(t)' = {a, b}
  BY <1>1, <1>2, <1>4 DEF RowsInv
<1>5. ASSUME NEW v \in Workers, v # w, Locking(v)'
      PROVE  \E a, b \in Accounts : a # b /\ RowsOf(v, a, b)'
  <2>1. Locking(v) /\ want'[v] = want[v] /\ db_local[v] \in Sessions /\ db_local[v] # s
    BY <1>1, <1>5 DEF Locking, LinkUp, SInv, OwnsConnection, TInv, TypeOK, ThreadTypeOK
  <2>2. Held(db_local[v])' = {a \in Accounts : lock'[a] = db_local[v]}
    BY <1>1 DEF Held
  <2>3. \A t \in Sessions : t # s => {a \in Accounts : lock'[a] = t} = Held(t)
    BY <1>2 DEF Held
  <2>4. PICK a, b \in Accounts : a # b /\ RowsOf(v, a, b)
    BY <2>1 DEF RowsInv
  <2> QED BY <2>1, <2>2, <2>3, <2>4, <1>1 DEF RowsOf
<1>6. \E a, b \in Accounts : a # b /\ RowsOf(w, a, b)'
  <2>1. PICK a, b \in Accounts : a # b /\ RowsOf(w, a, b)
    BY <1>1 DEF RowsInv, Locking
  <2>2. want'[w] = Tail(want[w]) /\ Held(s)' = Held(db_local[w])'
    BY <1>1 DEF TInv, TypeOK, ThreadTypeOK, Held
  <2>3. CASE want[w] = <<a, b>> /\ Held(s) = {}
    <3>1. r = a /\ Tail(want[w]) = <<b>>
      BY <2>3
    <3>2. want'[w] = <<b>> /\ Held(db_local[w])' = {a}
      BY <3>1, <2>2, <2>3, <1>3
    <3> QED BY <2>1, <3>2 DEF RowsOf
  <2>4. CASE want[w] = <<b>> /\ Held(s) = {a}
    <3>1. r = b /\ Tail(want[w]) = <<>>
      BY <2>4
    <3>2. want'[w] = <<>> /\ Held(db_local[w])' = {a, b}
      BY <3>1, <2>2, <2>4, <1>3
    <3> QED BY <2>1, <3>2 DEF RowsOf
  <2> QED BY <2>1, <2>3, <2>4, <1>1 DEF RowsOf
<1> QED BY <1>4, <1>5, <1>6 DEF RowsInv

\* COMMIT is sent when the SELECT has answered, so with both rows held.
LEMMA CommitKeepsRowsInv ==
  ASSUME TInv, SInv, RowsInv, NEW w \in Workers, UpdateAndCommit(w)
  PROVE  RowsInv'
<1> DEFINE s == db_local[w]
<1>1. /\ want[w] = <<>> /\ Locking(w) /\ lock' = lock /\ want' = want
      /\ db_local' = db_local /\ link' = link /\ pc' = [pc EXCEPT ![w] = "commit"]
      /\ txn' = [txn EXCEPT ![s] = "commit"]
  BY DEF UpdateAndCommit, RowsLocked, Locking, Goto
<1>2. \A t : Held(t)' = Held(t)
  BY <1>1 DEF Held
<1>3. PICK a, b \in Accounts : a # b /\ Held(s) = {a, b}
  <2>1. PICK a, b \in Accounts : a # b /\ RowsOf(w, a, b)
    BY <1>1 DEF RowsInv
  <2> QED BY <1>1, <2>1 DEF RowsOf
<1>4. ASSUME NEW t \in Sessions, txn'[t] = "commit"
      PROVE  \E c, d \in Accounts : c # d /\ Held(t)' = {c, d}
  <2>1. CASE t = s
    BY <1>2, <1>3, <2>1
  <2>2. CASE t # s
    BY <1>1, <1>2, <1>4, <2>2 DEF RowsInv, TInv, TypeOK, SessTypeOK
  <2> QED BY <2>1, <2>2
<1>5. ASSUME NEW v \in Workers, Locking(v)'
      PROVE  \E c, d \in Accounts : c # d /\ RowsOf(v, c, d)'
  <2>1. Locking(v)
    BY <1>1, <1>5 DEF Locking, LinkUp, TInv, TypeOK, ThreadTypeOK
  <2>2. PICK c, d \in Accounts : c # d /\ RowsOf(v, c, d)
    BY <2>1 DEF RowsInv
  <2>3. Held(db_local[v])' = Held(db_local[v])
    BY <1>1 DEF Held
  <2> QED BY <1>1, <2>2, <2>3 DEF RowsOf
<1> QED BY <1>4, <1>5 DEF RowsInv

LEMMA RowsInvStep == TInv /\ SInv /\ RowsInv /\ [Next]_vars => RowsInv'
<1> SUFFICES ASSUME TInv, SInv, RowsInv, [Next]_vars PROVE RowsInv'
  OBVIOUS
<1>1. ASSUME NEW w \in Workers, Thread(w) PROVE RowsInv'
  <2>1. LockHoldersOpen
    BY DEF SInv
  <2> QED BY <1>1, <2>1, BeginKeepsRowsInv, LockRowKeepsRowsInv, CommitKeepsRowsInv,
             ThreadKeepsRows, KeptRowsInv
<1>2. CASE ClusterNext \/ Terminate \/ Done \/ UNCHANGED vars
  BY <1>2, ClusterKeepsRows, KeptRowsInv
<1> QED BY <1>1, <1>2 DEF Next, WorkersNext

(* Row locks belong to open transactions, and every COMMIT a server finds  *)
(* to apply holds the two rows of its transfer.                            *)
THEOREM LocksMatch == Spec => []LocksMatchTransactions
<1>1. Init => RowsInv /\ TInv /\ SInv
  <2>1. Init => RowsInv
    BY DEF Init, InitButTables, RowsInv, Locking
  <2> QED BY <2>1, TInvInit, SInvInit DEF Init
<1>2. SInv /\ RowsInv => LocksMatchTransactions
  <2> SUFFICES ASSUME SInv, RowsInv PROVE CommitsHoldBothRows
    BY DEF SInv, LocksMatchTransactions
  <2> SUFFICES ASSUME NEW s \in Sessions, txn[s] = "commit" PROVE Cardinality(Held(s)) = 2
    BY DEF CommitsHoldBothRows, Held
  <2>1. PICK a, b \in Accounts : a # b /\ Held(s) = {a, b}
    BY DEF RowsInv
  <2>2. IsFiniteSet({a}) /\ Cardinality({a}) = 1
    BY FS_Singleton
  <2>3. Cardinality({a} \cup {b}) = Cardinality({a}) + 1
    BY <2>1, <2>2, FS_AddElement
  <2>4. {a} \cup {b} = {a, b}
    OBVIOUS
  <2> QED BY <2>1, <2>2, <2>3, <2>4
<1> QED BY <1>1, <1>2, TInvStep, SInvStep, RowsInvStep, PTL DEF Spec
-----------------------------------------------------------------------------
(* The verdict.  A task begun is accounted for by the thread that saw it   *)
(* committed, or by one that is still busy with it or gave up on it; only  *)
(* a termination lets a thread return early; and while none was asked for, *)
(* the last thread to leave its loop found the counter at --operations.    *)

Busy == {w \in Workers : pc[w] \in Working \cup {"dead", "returned"}}

TasksInv ==
  /\ started = Sum(acked) + Cardinality(Busy)
  /\ ~is_terminate => \A w \in Workers : pc[w] # "returned"
  /\ ~is_terminate /\ (\A w \in Workers : pc[w] \in {"close", "finished", "no_close"})
       => operation_num >= Operations

LEMMA SumIsSumOf == \A f : Sum(f) = SumOf(f)
  BY DEF Sum, SumOf

\* A step that begins no task, ends none, and leaves the counter alone.
TasksKept ==
  /\ UNCHANGED <<operation_num, started, acked>>
  /\ Busy' = Busy
  /\ ~is_terminate' =>
       /\ ~is_terminate
       /\ \A w \in Workers :
            /\ pc'[w] = "returned" => pc[w] = "returned"
            /\ pc'[w] \in {"close", "finished", "no_close"}
                 => pc[w] \in {"close", "finished", "no_close"}

LEMMA KeptTasksInv == TasksInv /\ TasksKept => TasksInv'
  BY DEF TasksInv, TasksKept

LEMMA ThreadKeepsTasks ==
  ASSUME TInv, NEW w \in Workers, Thread(w), ~Test(w), ~Store(w), ~Committed(w)
  PROVE  TasksKept
<1> USE DEF TasksKept, Busy, Working, InTxn, Goto, RetryAt, TInv, TypeOK, ThreadTypeOK,
        sharedVars, history
<1>1. CASE Load(w) \/ Connect(w) \/ CannotConnect(w) \/ UncaughtTimeout(w)
  BY <1>1 DEF Load, Connect, CannotConnect, UncaughtTimeout
<1>2. CASE Begin(w) \/ LockRow(w) \/ UpdateAndCommit(w)
  BY <1>2 DEF Begin, LockRow, UpdateAndCommit
<1>3. CASE DeadlockError(w) \/ Rollback(w) \/ RollbackFails(w) \/ UndefinedTable(w) \/ ReadOnlyTransactionError(w)
  BY <1>3 DEF DeadlockError, Rollback, RollbackFails, UndefinedTable, ReadOnlyTransactionError
<1>4. CASE QueryCanceledError(w)
  BY <1>4 DEF QueryCanceledError, CanBeCanceled
<1>5. CASE AdminShutdownError(w)
  BY <1>5 DEF AdminShutdownError
<1>6. CASE ConnectionFailureError(w) \/ Close(w)
  BY <1>6 DEF ConnectionFailureError, Close
<1> QED BY <1>1, <1>2, <1>3, <1>4, <1>5, <1>6 DEF Thread

LEMMA ClusterKeepsTasks ==
  ASSUME ClusterNext \/ Terminate \/ Done \/ UNCHANGED vars
  PROVE  TasksKept
<1> USE DEF sharedVars, threadVars, programVars, history
<1>1. ClusterNext => UNCHANGED <<operation_num, is_terminate, started, acked, pc>>
  BY DEF ClusterNext, Server, Patroni, Faults, ServerCommit, ServerNotices, CancelIgnored,
     Promote, Restart, Replicate, Switchover, Crash, PrimaryEnds, BreakLink, OperatorCancel
<1>2. Done \/ UNCHANGED vars => UNCHANGED <<operation_num, is_terminate, started, acked, pc>>
  BY DEF Done, vars
<1>3. Terminate => UNCHANGED <<operation_num, started, acked, pc>> /\ is_terminate' = TRUE
  BY DEF Terminate
<1> QED BY <1>1, <1>2, <1>3 DEF TasksKept, Busy

LEMMA TestKeepsTasksInv ==
  ASSUME TInv, TasksInv, NEW w \in Workers, Test(w)
  PROVE  TasksInv'
<1>1. /\ UNCHANGED <<operation_num, is_terminate, started, acked>> /\ pc[w] = "test"
      /\ pc' = [pc EXCEPT ![w] = IF TasksLeft /\ ~is_terminate THEN "load" ELSE "close"]
  BY DEF Test, Goto, sharedVars, history
<1>2. Busy' = Busy
  BY <1>1 DEF Busy, Working, InTxn, TInv, TypeOK, ThreadTypeOK
<1>3. pc'[w] = "close" /\ ~is_terminate => operation_num >= Operations
  BY <1>1, ConstantsAssumption
     DEF ConstantsAssumption, TasksLeft, TInv, TypeOK, ThreadTypeOK, SharedTypeOK
<1>4. pc'[w] \in {"load", "close"} /\ \A v \in Workers \ {w} : pc'[v] = pc[v]
  BY <1>1 DEF TInv, TypeOK, ThreadTypeOK
<1> QED BY <1>1, <1>2, <1>3, <1>4 DEF TasksInv

LEMMA BusyIsFinite == IsFiniteSet(Busy) /\ Cardinality(Busy) \in Nat
  BY TakingIsFinite DEF Busy

LEMMA StoreKeepsTasksInv ==
  ASSUME TInv, TasksInv, NEW w \in Workers, Store(w)
  PROVE  TasksInv'
<1>1. /\ UNCHANGED <<is_terminate, acked>> /\ started' = started + 1
      /\ pc[w] \in {"store", "load"} /\ pc' = [pc EXCEPT ![w] = DoWork(w)]
      /\ DoWork(w) \in {"work", "begin"}
  BY DEF Store, Goto, DoWork
<1>2. Busy' = Busy \cup {w} /\ w \notin Busy
  BY <1>1 DEF Busy, Working, InTxn, TInv, TypeOK, ThreadTypeOK
<1>3. Cardinality(Busy') = Cardinality(Busy) + 1
  BY <1>2, BusyIsFinite, FS_AddElement
<1>4. Sum(acked) \in Int /\ Cardinality(Busy) \in Nat
  BY BusyIsFinite, SumIsSumOf, SumType, ConstantsAssumption
     DEF ConstantsAssumption, TInv, TypeOK, HistoryTypeOK
<1>5. pc'[w] \in {"work", "begin"} /\ \A v \in Workers \ {w} : pc'[v] = pc[v]
  BY <1>1 DEF TInv, TypeOK, ThreadTypeOK
<1> QED BY <1>1, <1>3, <1>4, <1>5 DEF TasksInv

LEMMA CommittedKeepsTasksInv ==
  ASSUME TInv, TasksInv, NEW w \in Workers, Committed(w)
  PROVE  TasksInv'
<1>1. /\ UNCHANGED <<operation_num, is_terminate, started>> /\ acked' = [acked EXCEPT ![w] = @ + 1]
      /\ pc[w] = "commit" /\ pc' = [pc EXCEPT ![w] = "test"]
  BY DEF Committed, ReturnsTrue, Goto, sharedVars
<1>2. Busy' = Busy \ {w} /\ w \in Busy
  BY <1>1 DEF Busy, Working, InTxn, TInv, TypeOK, ThreadTypeOK
<1>3. Cardinality(Busy') = Cardinality(Busy) - 1
  BY <1>2, BusyIsFinite, FS_RemoveElement
<1>4. acked \in [Workers -> Int] /\ IsFiniteSet(Workers)
  BY ConstantsAssumption DEF ConstantsAssumption, TInv, TypeOK, HistoryTypeOK
<1>5. Sum(acked') = Sum(acked) + 1
  BY <1>1, <1>4, SumIsSumOf, SumIncrement
<1>6. Sum(acked) \in Int /\ Cardinality(Busy) \in Nat
  BY <1>4, BusyIsFinite, SumIsSumOf, SumType
<1>7. pc'[w] = "test" /\ \A v \in Workers \ {w} : pc'[v] = pc[v]
  BY <1>1 DEF TInv, TypeOK, ThreadTypeOK
<1> QED BY <1>1, <1>3, <1>5, <1>6, <1>7 DEF TasksInv

LEMMA TasksInvThread ==
  ASSUME TInv, TasksInv, NEW w \in Workers, Thread(w)
  PROVE  TasksInv'
  BY TestKeepsTasksInv, StoreKeepsTasksInv, CommittedKeepsTasksInv, ThreadKeepsTasks, KeptTasksInv

LEMMA TasksInvStep == TInv /\ TasksInv /\ [Next]_vars => TasksInv'
  BY TasksInvThread, ClusterKeepsTasks, KeptTasksInv DEF Next, WorkersNext

LEMMA TasksInvInit == Workers # {} /\ InitButTables => TasksInv
<1> SUFFICES ASSUME Workers # {}, InitButTables PROVE TasksInv
  OBVIOUS
<1>1. Busy = {}
  BY DEF InitButTables, Busy, Working, InTxn
<1>2. Sum(acked) = 0
  BY SumIsSumOf, SumOfZeros, ConstantsAssumption DEF ConstantsAssumption, InitButTables
<1> QED BY <1>1, <1>2, FS_EmptySet DEF InitButTables, TasksInv

(* When all threads have ended, none by an exception and none by request,  *)
(* at least --operations transfers were committed, and no more than tasks  *)
(* were begun and COMMITs lost sight of.                                   *)
LEMMA CommitsWhenStopped ==
  ASSUME TInv, AckedImpliesApplied, DuplicatesExplained, TasksInv, operation_num <= started,
         AllStopped, ~is_terminate, \A w \in Workers : pc[w] # "dead"
  PROVE  /\ Sum(applied) \in Int /\ Sum(unknown) \in Int /\ started \in Int
         /\ Operations <= Sum(applied) /\ Sum(applied) <= started + Sum(unknown)
<1>1. \A w \in Workers : pc[w] \in {"finished", "no_close"}
  BY DEF TasksInv, AllStopped, Stopped
<1>2. Busy = {} /\ operation_num >= Operations
  BY <1>1 DEF Busy, Working, InTxn, TasksInv
<1>3. started = Sum(acked)
  <2>1. Cardinality(Busy) = 0 /\ started \in Nat
    BY <1>2, FS_EmptySet DEF TInv, TypeOK, HistoryTypeOK
  <2>2. Sum(acked) \in Int
    BY SumIsSumOf, SumType, ConstantsAssumption
       DEF ConstantsAssumption, TInv, TypeOK, HistoryTypeOK
  <2> QED BY <2>1, <2>2 DEF TasksInv
<1>4. /\ IsFiniteSet(Workers) /\ acked \in [Workers -> Int]
      /\ applied \in [Workers -> Int] /\ unknown \in [Workers -> Int]
  BY ConstantsAssumption DEF ConstantsAssumption, TInv, TypeOK, HistoryTypeOK
<1>5. Sum(acked) \in Int /\ Sum(applied) \in Int /\ Sum(unknown) \in Int
  BY <1>4, SumIsSumOf, SumType
<1>6. Sum(acked) <= Sum(applied)
  BY <1>4, SumIsSumOf, SumMonotone DEF AckedImpliesApplied
<1>7. Sum(applied) <= Sum(acked) + Sum(unknown)
  <2> DEFINE both == [w \in Workers |-> acked[w] + unknown[w]]
  <2>1. ASSUME NEW w \in Workers PROVE applied[w] <= both[w]
    <3>1. applied[w] <= acked[w] + unknown[w] + 0
      BY <1>1 DEF DuplicatesExplained
    <3> QED BY <1>4, <3>1
  <2>2. both \in [Workers -> Int]
    BY <1>4
  <2>3. SumOf(both) = SumOf(acked) + SumOf(unknown)
    BY <1>4, SumOfSums
  <2> HIDE DEF both
  <2>4. SumOf(applied) <= SumOf(both)
    BY <1>4, <2>1, <2>2, SumMonotone
  <2> QED BY <2>3, <2>4, SumIsSumOf
<1> QED BY <1>2, <1>3, <1>5, <1>6, <1>7, ConstantsAssumption
       DEF ConstantsAssumption, TInv, TypeOK, SharedTypeOK

(* With at least one thread, and whatever the cluster does to the workers, *)
(* the balances differ from accounts * 100 + operations by what failovers  *)
(* lost, duplicated COMMITs, the overshoot of the counter, and what an     *)
(* earlier test left in a table a failover brought back, if no thread died *)
(* and the primary has a table.                                            *)
THEOREM VerdictIsExplained ==
  ASSUME Workers # {}
  PROVE  Spec => []VerdictExplained
<1>1. Init => TasksInv /\ TInv
  BY TasksInvInit, TInvInit DEF Init
<1>2. TInv /\ AckedImpliesApplied /\ DuplicatesExplained /\ TasksInv /\ CounterBounds => VerdictExplained
  <2> SUFFICES ASSUME TInv, AckedImpliesApplied, DuplicatesExplained, TasksInv, CounterBounds,
                      Settled, ~is_terminate, \A w \in Workers : pc[w] # "dead"
               PROVE  /\ Difference >= Left - Lost
                      /\ Difference <= Left + started - Operations + Sum(unknown) - Lost
    BY DEF VerdictExplained
  <2>1. /\ Sum(applied) \in Int /\ Sum(unknown) \in Int /\ started \in Int
        /\ Operations <= Sum(applied) /\ Sum(applied) <= started + Sum(unknown)
    BY CommitsWhenStopped DEF CounterBounds, Settled
  <2>2. Sum(ledger[primary]) \in Int
    <3>1. ledger[primary] \in [Workers -> Int]
      BY DEF Settled, TInv, TypeOK, NodeTypeOK
    <3> QED BY <3>1, SumIsSumOf, SumType, ConstantsAssumption DEF ConstantsAssumption
  <2>3. Difference = Sum(ledger[primary]) + Left - Operations /\ Left \in Int
    BY <2>2, ConstantsAssumption DEF ConstantsAssumption, Difference, Balance, Left
  <2> QED BY <2>1, <2>2, <2>3, ConstantsAssumption DEF ConstantsAssumption, Lost
<1>3. TInv /\ TasksInv /\ [Next]_vars => TasksInv'
  BY TasksInvStep
<1> QED BY <1>1, <1>2, <1>3, TInvStep, AckedIsCommitted, DuplicatesAreExplained,
           CounterIsBounded, PTL DEF Spec

-----------------------------------------------------------------------------
(* Leaks: the sessions dropped without closing them. *)

LEMMA HeadIsFirst ==
  ASSUME NEW S, NEW q \in Seq(S), q # <<>>
  PROVE  Head(q) = q[1]
  OBVIOUS

(* With two servers a deque is one of their two orders. *)
LEMMA TwoHostDeques ==
  ASSUME TInv, HostsKept, TwoServers, NEW w \in Workers
  PROVE  LET q == db_hosts[w] IN
         /\ Head(q) \in Hosts /\ Head(Rotated(q)) \in Hosts
         /\ \A h \in Hosts : h = Head(q) <=> h # Head(Rotated(q))
<1> DEFINE q == db_hosts[w]
<1>1. PICK a, b \in Hosts : a # b /\ Hosts = {a, b} /\ HostList = <<a, b>>
  BY DEF TwoServers
<1>2. Len(HostList) = 2 /\ HostList \in Seq(Hosts) /\ HostList[1] = a /\ HostList[2] = b
  BY <1>1
<1>3. PICK k \in 1..2 : q = RotationOf(HostList, k)
  BY <1>2 DEF HostsKept, RotationOf
<1>4. /\ q \in Seq(Hosts) /\ Len(q) = 2
      /\ \A i \in 1..2 : q[i] = IF i <= 2 - k + 1 THEN HostList[k + i - 1] ELSE HostList[k + i - 1 - 2]
  <2>1. 1..Len(HostList) = 1..2 /\ k \in 1..Len(HostList)
    BY <1>2
  <2>2. /\ RotationOf(HostList, k) \in Seq(Hosts) /\ Len(RotationOf(HostList, k)) = Len(HostList)
        /\ \A i \in 1..Len(HostList) :
             RotationOf(HostList, k)[i] = IF i <= Len(HostList) - k + 1 THEN HostList[k + i - 1]
                                          ELSE HostList[k + i - 1 - Len(HostList)]
    BY <1>2, <2>1, RotationElements
  <2> QED BY <1>2, <1>3, <2>2
<1>5. {q[1], q[2]} = {a, b} /\ q[1] # q[2]
  <2>1. CASE k = 1
    BY <1>1, <1>2, <1>4, <2>1
  <2>2. CASE k = 2
    BY <1>1, <1>2, <1>4, <2>2
  <2> QED BY <2>1, <2>2
<1>6. Head(q) = q[1] /\ Tail(q) \in Seq(Hosts) /\ Len(Tail(q)) = 1 /\ Tail(q)[1] = q[2]
  BY <1>4, HeadTailProperties
<1>7. Head(Rotated(q)) = q[2]
  <2> DEFINE t == Append(Tail(q), Head(q))
  <2>1. Head(q) \in Hosts
    BY <1>1, <1>5, <1>6
  <2>2. t \in Seq(Hosts) /\ Len(t) = 2 /\ t[1] = Tail(q)[1]
    BY <1>6, <2>1, AppendProperties
  <2> HIDE DEF t
  <2>3. t # <<>>
    BY <2>2
  <2>4. Head(t) = t[1]
    BY <2>2, <2>3, HeadIsFirst
  <2> QED BY <1>6, <2>2, <2>4 DEF Rotated, t
<1> QED BY <1>1, <1>5, <1>6, <1>7

\* A primary is up, and a connection is to the first host of its deque.
TwoInv ==
  TwoServers =>
    /\ primary # None => primary \in up
    /\ \A w \in Workers : db_local[w] # None => host[db_local[w]] = Head(db_hosts[w])

LEMMA TwoInvInit == InitButTables => TwoInv
  BY DEF InitButTables, TwoInv

LEMMA TwoInvStep == TInv /\ TwoInv /\ [Next]_vars => TwoInv'
<1> SUFFICES ASSUME TInv, TwoInv, [Next]_vars, TwoServers PROVE TwoInv'
  BY DEF TwoInv
<1> USE ConstantsAssumption DEF ConstantsAssumption, TwoInv
<1> USE DEF TInv, TypeOK, ThreadTypeOK, SessTypeOK, NodeTypeOK
<1>1. CASE UNCHANGED <<db_local, host, db_hosts, primary, up>>
  BY <1>1
<1>2. ASSUME NEW w \in Workers, Thread(w), ~UNCHANGED <<db_local, host, db_hosts, primary, up>>
      PROVE  TwoInv'
  <2>1. CASE Connect(w)
    <3>1. PICK s \in Sessions :
             FreeSession(s) /\ db_local' = [db_local EXCEPT ![w] = s] /\ host' = [host EXCEPT ![s] = Target(w)]
      BY <2>1 DEF Connect
    <3>2. /\ UNCHANGED <<primary, up>> /\ Target(w) = Head(HostsToTry(w))
          /\ db_hosts' = [db_hosts EXCEPT ![w] = HostsToTry(w)]
      BY <2>1 DEF Connect, Target, nodeVars, TwoServers
    <3> QED BY <3>1, <3>2 DEF FreeSession
  <2>2. CASE ReadOnlyTransactionError(w)
    BY <2>2 DEF ReadOnlyTransactionError, Forget, SwitchHost, nodeVars, sessVars
  <2>3. CASE QueryCanceledError(w) \/ AdminShutdownError(w) \/ ConnectionFailureError(w) \/ Close(w)
    <3>1. /\ UNCHANGED <<host, primary, up, db_hosts>>
          /\ db_local' \in {db_local, [db_local EXCEPT ![w] = None]}
      BY <2>3 DEF QueryCanceledError, AdminShutdownError, ConnectionFailureError, Close, Forget, nodeVars, sessVars
    <3> QED BY <3>1
  <2>4. CASE CannotConnect(w)
    BY <2>4 DEF CannotConnect, nodeVars, sessVars
  <2>6. CASE Test(w) \/ Load(w) \/ Store(w) \/ UncaughtTimeout(w)
    BY <1>2, <2>6 DEF Test, Load, Store, UncaughtTimeout, nodeVars, sessVars
  <2>7. CASE LockRow(w) \/ Rollback(w) \/ RollbackFails(w) \/ UndefinedTable(w)
    BY <1>2, <2>7 DEF LockRow, Rollback, RollbackFails, UndefinedTable, nodeVars, sessVars
  <2>8. CASE Begin(w) \/ UpdateAndCommit(w) \/ Committed(w) \/ DeadlockError(w)
    BY <1>2, <2>8 DEF Begin, UpdateAndCommit, Committed, KeepConnection, DeadlockError, nodeVars, sessVars
  <2> QED BY <1>2, <2>1, <2>2, <2>3, <2>4, <2>6, <2>7, <2>8 DEF Thread
<1>3. CASE ClusterNext
  <2>1. UNCHANGED <<db_local, host, db_hosts>> /\ (primary' # None => primary' \in up')
    BY <1>3 DEF ClusterNext, Server, Patroni, Faults, ServerCommit, ServerNotices, CancelIgnored, Promote, Restart,
       Replicate, Switchover, Crash, PrimaryEnds, EndSessions, BreakLink, OperatorCancel, programVars, threadVars, nodeVars,
       sessVars, TwoServers
  <2> QED BY <2>1
<1>4. CASE Terminate \/ Done \/ UNCHANGED vars
  BY <1>1, <1>4 DEF Terminate, Done, vars, threadVars, nodeVars, sessVars
<1> QED BY <1>2, <1>1, <1>3, <1>4 DEF Next, WorkersNext

-----------------------------------------------------------------------------
(* Sessions whose client is gone and whose server has not noticed: each of *)
(* them is a link that broke, a fault.                                     *)

Unnoticed == {s \in Sessions : txn[s] # "gone" /\ link[s] # "up"}

UnnoticedInv == IsFiniteSet(Unnoticed) /\ Cardinality(Unnoticed) <= faults

LEMMA UnnoticedInvStep == TInv /\ UnnoticedInv /\ [Next]_vars => UnnoticedInv'
<1> SUFFICES ASSUME TInv, UnnoticedInv, [Next]_vars PROVE UnnoticedInv'
  OBVIOUS
<1> USE ConstantsAssumption DEF ConstantsAssumption
<1> USE DEF TInv, TypeOK, ThreadTypeOK, SessTypeOK, NodeTypeOK
<1>0. faults \in Nat /\ Cardinality(Unnoticed) \in Nat
  BY FS_CardinalityType DEF UnnoticedInv
<1>1. ASSUME faults' \in Nat, faults' >= faults, Unnoticed' \in SUBSET Unnoticed PROVE UnnoticedInv'
  <2>1. IsFiniteSet(Unnoticed') /\ Cardinality(Unnoticed') <= Cardinality(Unnoticed) /\ Cardinality(Unnoticed') \in Nat
    BY <1>1, FS_Subset, FS_CardinalityType DEF UnnoticedInv
  <2> QED BY <1>0, <1>1, <2>1 DEF UnnoticedInv
<1>2. ASSUME NEW s \in Sessions, faults' = faults + 1, Unnoticed' \in SUBSET (Unnoticed \cup {s}) PROVE UnnoticedInv'
  <2>1. /\ IsFiniteSet(Unnoticed \cup {s}) /\ Cardinality(Unnoticed \cup {s}) <= Cardinality(Unnoticed) + 1
        /\ Cardinality(Unnoticed \cup {s}) \in Nat
    <3>1. /\ IsFiniteSet(Unnoticed \cup {s})
          /\ Cardinality(Unnoticed \cup {s}) =
               IF s \in Unnoticed THEN Cardinality(Unnoticed) ELSE Cardinality(Unnoticed) + 1
      BY FS_AddElement DEF UnnoticedInv
    <3> QED BY <1>0, <3>1
  <2>2. /\ IsFiniteSet(Unnoticed') /\ Cardinality(Unnoticed') <= Cardinality(Unnoticed \cup {s})
        /\ Cardinality(Unnoticed') \in Nat
    BY <1>2, <2>1, FS_Subset, FS_CardinalityType
  <2> QED BY <1>0, <1>2, <2>1, <2>2 DEF UnnoticedInv
<1>3. CASE UNCHANGED <<txn, link>> /\ faults' \in Nat /\ faults' >= faults
  BY <1>1, <1>3 DEF Unnoticed
<1>4. ASSUME NEW w \in Workers, Thread(w)
      PROVE  /\ faults' \in Nat /\ faults' >= faults
             /\ \A s \in Sessions : txn'[s] # "gone" /\ link'[s] # "up" => txn[s] # "gone" /\ link[s] # "up"
  <2>1. CASE Connect(w)
    <3>1. /\ faults' = faults
          /\ \E s \in Sessions : txn' = [txn EXCEPT ![s] = "idle"] /\ link' = [link EXCEPT ![s] = "up"]
      BY <2>1 DEF Connect, nodeVars
    <3> QED BY <1>0, <3>1
  <2>2. CASE Begin(w) \/ UpdateAndCommit(w) \/ Committed(w) \/ DeadlockError(w) \/ QueryCanceledError(w)
    <3>1. /\ faults' = faults /\ link' = link /\ LinkUp(w)
          /\ \E t \in {"open", "commit", "idle"} : txn' = [txn EXCEPT ![db_local[w]] = t]
      BY <2>2 DEF Begin, UpdateAndCommit, Committed, CommitAnswered, DeadlockError, QueryCanceledError,
         AbortOnExit, nodeVars
    <3> QED BY <1>0, <3>1 DEF LinkUp
  <2>3. CASE Close(w)
    BY <1>0, <2>3 DEF Close, nodeVars, LinkUp
  <2>4. CASE ReadOnlyTransactionError(w) \/ AdminShutdownError(w) \/ ConnectionFailureError(w) \/ CannotConnect(w)
    BY <1>0, <2>4 DEF ReadOnlyTransactionError, AdminShutdownError, ConnectionFailureError, CannotConnect, nodeVars, sessVars
  <2>5. CASE Test(w) \/ Load(w) \/ Store(w) \/ UncaughtTimeout(w)
    BY <1>0, <2>5 DEF Test, Load, Store, UncaughtTimeout, Fault, nodeVars, sessVars
  <2>6. CASE LockRow(w) \/ Rollback(w) \/ RollbackFails(w) \/ UndefinedTable(w)
    <3>1. UNCHANGED <<faults, txn, link>>
      <4>1. CASE LockRow(w)
        BY <4>1 DEF LockRow, nodeVars
      <4>2. CASE Rollback(w)
        BY <4>2 DEF Rollback, nodeVars, sessVars
      <4>3. CASE RollbackFails(w)
        BY <4>3 DEF RollbackFails, nodeVars, sessVars
      <4>4. CASE UndefinedTable(w)
        BY <4>4 DEF UndefinedTable, nodeVars, sessVars
      <4> QED BY <2>6, <4>1, <4>2, <4>3, <4>4
    <3> QED BY <1>0, <3>1
  <2> QED BY <1>4, <2>1, <2>2, <2>3, <2>4, <2>5, <2>6 DEF Thread
<1>8. ASSUME faults' \in Nat, faults' >= faults,
             \A s \in Sessions : txn'[s] # "gone" => txn[s] # "gone" /\ link'[s] = link[s]
      PROVE  UnnoticedInv'
  <2>1. Unnoticed' \in SUBSET Unnoticed
    BY <1>8 DEF Unnoticed
  <2> QED BY <1>1, <1>8, <2>1
<1>5. CASE WorkersNext
  BY <1>1, <1>4, <1>5 DEF WorkersNext, Unnoticed
<1>6. CASE ClusterNext
  <2>1. ASSUME NEW s \in Sessions, ServerCommit(s) \/ ServerNotices(s) \/ CancelIgnored(s)
        PROVE  UnnoticedInv'
    <3>1. /\ faults' = faults
          /\ \A r \in Sessions : txn'[r] # "gone" => txn[r] # "gone" /\ link'[r] = link[r]
      BY <2>1 DEF ServerCommit, ServerNotices, CancelIgnored, nodeVars
    <3> QED BY <1>0, <3>1, <1>8
  <2>2. ASSUME NEW h \in Hosts, Promote(h) \/ Restart(h) \/ Replicate(h) PROVE UnnoticedInv'
    <3>1. UNCHANGED <<txn, link, faults>>
      BY <2>2 DEF Promote, Restart, Replicate, sessVars
    <3> QED BY <1>0, <1>3, <3>1
  <2>3. CASE Switchover \/ Crash
    <3>1. faults' = faults + 1 /\ PrimaryEnds
      BY <2>3 DEF Switchover, Crash, Fault
    <3>2. \A s \in Sessions : txn'[s] # "gone" => txn[s] # "gone" /\ link'[s] = link[s]
      BY <3>1 DEF PrimaryEnds, EndSessions, OnHost
    <3> QED BY <1>0, <1>8, <3>1, <3>2
  <2>5. ASSUME NEW s \in Sessions, BreakLink(s) PROVE UnnoticedInv'
    <3>1. /\ faults' = faults + 1
          /\ \A r \in Sessions \ {s} : txn'[r] = txn[r] /\ link'[r] = link[r]
      BY <2>5 DEF BreakLink, Fault
    <3> QED BY <1>2, <3>1 DEF Unnoticed
  <2>6. ASSUME NEW s \in Sessions, OperatorCancel(s) PROVE UnnoticedInv'
    BY <1>0, <1>3, <2>6 DEF OperatorCancel, Fault
  <2> QED BY <1>6, <2>1, <2>2, <2>3, <2>5, <2>6 DEF ClusterNext, Server, Patroni, Faults
<1>7. CASE Terminate \/ Done \/ UNCHANGED vars
  BY <1>0, <1>3, <1>7 DEF Terminate, Done, vars, nodeVars, sessVars
<1> QED BY <1>5, <1>6, <1>7 DEF Next
-----------------------------------------------------------------------------
(* The sessions that may still leak: each thread that is on its way to a   *)
(* replica, or may be sent there by a lost link, leaks one at most, and so *)
(* does each cancel request under way.  While there is no primary every    *)
(* thread is, and what it drops then is counted in "blind".                *)

MayMeetReplica(w) ==
  IF db_local[w] = None THEN Head(HostsToTry(w)) # primary
                        ELSE LinkUp(w) => host[db_local[w]] # primary

Exposed == IF Proxied THEN {} ELSE {w \in Workers : MayMeetReplica(w)}

Dropping == IF is_terminate THEN {} ELSE cancel

LeakBound == IF Proxied THEN faults ELSE (faults + 1) * Cardinality(Workers) + blind

LeakInv ==
  Proxied \/ TwoServers =>
    /\ IsFiniteSet(LeakedSessions) /\ IsFiniteSet(Exposed) /\ IsFiniteSet(Dropping)
    /\ Cardinality(LeakedSessions) + Cardinality(Exposed) + Cardinality(Dropping) <= LeakBound

LEMMA Shrinks ==
  ASSUME NEW A, IsFiniteSet(A), NEW B \in SUBSET A
  PROVE  IsFiniteSet(B) /\ Cardinality(B) <= Cardinality(A) /\ Cardinality(A) \in Nat /\ Cardinality(B) \in Nat
  BY FS_Subset, FS_CardinalityType

LEMMA GrowsByOne ==
  ASSUME NEW A, IsFiniteSet(A), NEW x, NEW B \in SUBSET (A \cup {x})
  PROVE  IsFiniteSet(B) /\ Cardinality(B) <= Cardinality(A) + 1 /\ Cardinality(A) \in Nat /\ Cardinality(B) \in Nat
<1>1. /\ IsFiniteSet(A \cup {x}) /\ Cardinality(A) \in Nat
      /\ Cardinality(A \cup {x}) = IF x \in A THEN Cardinality(A) ELSE Cardinality(A) + 1
  BY FS_AddElement, FS_CardinalityType
<1>2. /\ IsFiniteSet(B) /\ Cardinality(B) <= Cardinality(A \cup {x}) /\ Cardinality(B) \in Nat
  BY <1>1, FS_Subset, FS_CardinalityType
<1> QED BY <1>1, <1>2

LEMMA ShrinksByOne ==
  ASSUME NEW A, IsFiniteSet(A), NEW x \in A, NEW B \in SUBSET A, x \notin B
  PROVE  IsFiniteSet(B) /\ Cardinality(B) + 1 <= Cardinality(A) /\ Cardinality(A) \in Nat /\ Cardinality(B) \in Nat
<1>1. IsFiniteSet(A \ {x}) /\ Cardinality(A \ {x}) = Cardinality(A) - 1 /\ Cardinality(A) \in Nat
  BY FS_RemoveElement, FS_CardinalityType
<1>2. B \in SUBSET (A \ {x})
  OBVIOUS
<1>3. IsFiniteSet(B) /\ Cardinality(B) <= Cardinality(A \ {x}) /\ Cardinality(B) \in Nat
  BY <1>1, <1>2, FS_Subset, FS_CardinalityType
<1> QED BY <1>1, <1>3

LEMMA UnionIsSmall ==
  ASSUME NEW A, IsFiniteSet(A), NEW B, IsFiniteSet(B)
  PROVE  /\ IsFiniteSet(A \cup B) /\ Cardinality(A \cup B) \in Nat
         /\ Cardinality(A \cup B) <= Cardinality(A) + Cardinality(B)
<1>1. (A \cap B) \in SUBSET A
  OBVIOUS
<1>2. Cardinality(A \cap B) \in Nat /\ Cardinality(A) \in Nat /\ Cardinality(B) \in Nat
  BY <1>1, Shrinks, FS_CardinalityType
<1>3. IsFiniteSet(A \cup B) /\ Cardinality(A \cup B) = Cardinality(A) + Cardinality(B) - Cardinality(A \cap B)
  BY FS_Union
<1> QED BY <1>2, <1>3, FS_CardinalityType

LEMMA TimesMonotone ==
  ASSUME NEW k \in Nat, NEW m \in Nat, NEW n \in Nat, m <= n
  PROVE  m * k <= n * k /\ m * k \in Nat
<1>1. (n - m) * k >= 0
  BY SMT
<1>2. n * k = m * k + (n - m) * k
  BY SMT
<1>3. m * k \in Nat /\ (n - m) * k \in Int
  BY SMT
<1> QED BY <1>1, <1>2, <1>3

\* As long as the leaks are bounded, a thread without a session finds one.
LEMMA BackendIsFree ==
  ASSUME TInv, SInv, UnnoticedInv, LeakInv, TwoServers, NEW w \in Workers, db_local[w] = None
  PROVE  \E s \in Sessions : FreeSession(s)
<1> SUFFICES ASSUME \A s \in Sessions : ~FreeSession(s) PROVE FALSE
  OBVIOUS
<1> USE ConstantsAssumption DEF ConstantsAssumption
<1> DEFINE Driven == {s \in Sessions : \E v \in Workers : db_local[v] = s}
           n == Cardinality(Workers)
<1>0. /\ n \in Nat /\ faults \in Nat /\ MaxFaults \in Nat /\ faults <= MaxFaults /\ ~Proxied
      /\ blind \in Nat /\ MaxBlind \in Nat /\ blind <= MaxBlind
  BY FS_CardinalityType DEF TInv, TypeOK, NodeTypeOK, HistoryTypeOK, TwoServers
<1>1. IsFiniteSet(Driven) /\ Cardinality(Driven) \in Nat /\ Cardinality(Driven) <= n - 1
  <2> DEFINE f == [s \in Driven |-> owner[s]]
  <2>1. f \in Injection(Driven, Workers \ {w})
    <3>1. \A v \in Workers : db_local[v] \in Driven => owner[db_local[v]] = v /\ v # w
      BY DEF SInv, OwnsConnection
    <3>2. f \in [Driven -> Workers \ {w}]
      BY <3>1
    <3>3. \A s, t \in Driven : f[s] = f[t] => s = t
      BY <3>1
    <3> QED BY <3>2, <3>3, Fun_IsInj
  <2>2. IsFiniteSet(Workers \ {w}) /\ Cardinality(Workers \ {w}) = n - 1
    BY FS_RemoveElement
  <2> HIDE DEF f, Driven
  <2>3. IsFiniteSet(Driven) /\ Cardinality(Driven) <= Cardinality(Workers \ {w})
    BY <2>1, <2>2, FS_Injection
  <2> QED BY <2>2, <2>3, FS_CardinalityType
<1>2. Sessions \subseteq (LeakedSessions \cup Unnoticed) \cup Driven
  BY DEF FreeSession, LeakedSessions, Unnoticed, TInv, TypeOK, ThreadTypeOK
<1> HIDE DEF Driven, n
<1>3. /\ IsFiniteSet(LeakedSessions) /\ Cardinality(LeakedSessions) \in Nat
      /\ IsFiniteSet(Exposed) /\ Cardinality(Exposed) \in Nat
      /\ IsFiniteSet(Dropping) /\ Cardinality(Dropping) \in Nat
      /\ IsFiniteSet(Unnoticed) /\ Cardinality(Unnoticed) \in Nat
  BY FS_CardinalityType DEF LeakInv, UnnoticedInv
<1>4. Cardinality(LeakedSessions) <= (faults + 1) * n + blind /\ Cardinality(Unnoticed) <= faults
  <2>1. Cardinality(LeakedSessions) + Cardinality(Exposed) + Cardinality(Dropping) <= (faults + 1) * n + blind
    BY <1>0 DEF LeakInv, LeakBound, n
  <2>2. (faults + 1) * n \in Nat
    BY <1>0, TimesMonotone
  <2> QED BY <1>0, <1>3, <2>1, <2>2 DEF UnnoticedInv
<1>5. /\ IsFiniteSet(LeakedSessions \cup Unnoticed) /\ Cardinality(LeakedSessions \cup Unnoticed) \in Nat
      /\ Cardinality(LeakedSessions \cup Unnoticed) <= Cardinality(LeakedSessions) + Cardinality(Unnoticed)
  BY <1>3, UnionIsSmall
<1>6. /\ IsFiniteSet((LeakedSessions \cup Unnoticed) \cup Driven)
      /\ Cardinality((LeakedSessions \cup Unnoticed) \cup Driven) \in Nat
      /\ Cardinality((LeakedSessions \cup Unnoticed) \cup Driven) <=
           Cardinality(LeakedSessions \cup Unnoticed) + Cardinality(Driven)
  BY <1>1, <1>5, UnionIsSmall
<1>7. IsFiniteSet(Sessions) /\ Cardinality(Sessions) \in Nat
      /\ Cardinality(Sessions) <= Cardinality((LeakedSessions \cup Unnoticed) \cup Driven)
  BY <1>2, <1>6, Shrinks
<1>8. Cardinality(Sessions) >= (MaxFaults + 2) * n + MaxFaults + MaxBlind
  BY <1>7 DEF TwoServers, BackendsSuffice, n
<1>9. (faults + 1) * n <= (MaxFaults + 1) * n /\ (MaxFaults + 2) * n = (MaxFaults + 1) * n + n
  BY <1>0, TimesMonotone
<1>10. (MaxFaults + 1) * n \in Nat /\ (faults + 1) * n \in Nat
  BY <1>0, TimesMonotone
<1>11. Cardinality(Sessions) <= (faults + 1) * n + blind + faults + (n - 1)
  BY <1>0, <1>1, <1>3, <1>4, <1>5, <1>6, <1>7, <1>10
<1> QED BY <1>0, <1>7, <1>8, <1>9, <1>10, <1>11
-----------------------------------------------------------------------------

LInv == TInv /\ SInv /\ HostsKept /\ PlaceInv /\ TwoInv /\ UnnoticedInv /\ LeakInv

\* What a step can do to the three sets.
Spares == LeakedSessions' \subseteq LeakedSessions /\ Exposed' \subseteq Exposed /\ Dropping' \subseteq Dropping

LeavesReplica(w) ==
  /\ w \in Exposed /\ w \notin Exposed' /\ Exposed' \subseteq Exposed /\ Dropping' \subseteq Dropping
  /\ LeakedSessions' \subseteq LeakedSessions \cup {db_local[w]}

DropsCancelled(w) ==
  /\ db_local[w] \in Dropping /\ db_local[w] \notin Dropping' /\ Dropping' \subseteq Dropping
  /\ Exposed' \subseteq Exposed /\ LeakedSessions' \subseteq LeakedSessions \cup {db_local[w]}

DropsBlindly(w) ==
  /\ ~Proxied /\ Exposed' \subseteq Exposed /\ Dropping' \subseteq Dropping
  /\ LeakedSessions' \subseteq LeakedSessions \cup {db_local[w]}

LEMMA FaultsMonotone ==
  ASSUME NEW k \in Nat, NEW i \in Nat, NEW j \in Nat, i <= j
  PROVE  (i + 1) * k \in Nat /\ (j + 1) * k \in Nat /\ (i + 1) * k <= (j + 1) * k
<1>1. i + 1 \in Nat /\ j + 1 \in Nat /\ i + 1 <= j + 1
  OBVIOUS
<1> QED BY <1>1, TimesMonotone

LEMMA SparingKeepsLeakInv ==
  ASSUME TInv, LeakInv, Proxied \/ TwoServers, faults' \in {faults, faults + 1},
         \/ blind' = blind /\ (Spares \/ \E w \in Workers : LeavesReplica(w) \/ DropsCancelled(w))
         \/ blind' = blind + 1 /\ \E w \in Workers : DropsBlindly(w)
  PROVE  LeakInv'
<1> DEFINE l == Cardinality(LeakedSessions)
           e == Cardinality(Exposed)
           d == Cardinality(Dropping)
           n == Cardinality(Workers)
<1>1. /\ IsFiniteSet(LeakedSessions) /\ IsFiniteSet(Exposed) /\ IsFiniteSet(Dropping)
      /\ l + e + d <= LeakBound
  BY DEF LeakInv
<1>2. l \in Nat /\ e \in Nat /\ d \in Nat /\ n \in Nat /\ faults \in Nat /\ blind \in Nat
  BY <1>1, FS_CardinalityType, ConstantsAssumption
     DEF ConstantsAssumption, TInv, TypeOK, NodeTypeOK, HistoryTypeOK
<1>3. /\ LeakBound \in Nat /\ LeakBound' \in Nat /\ LeakBound <= LeakBound'
      /\ ~Proxied /\ blind' = blind + 1 => LeakBound + 1 <= LeakBound'
  <2> HIDE DEF l, e, d, n
  <2>1. faults' \in Nat /\ faults <= faults'
    BY <1>2
  <2>2. (faults + 1) * n \in Nat /\ (faults' + 1) * n \in Nat /\ (faults + 1) * n <= (faults' + 1) * n
    <3>1. n \in Nat /\ faults \in Nat /\ faults' \in Nat /\ faults <= faults'
      BY <1>2, <2>1
    <3> QED BY <3>1, FaultsMonotone
  <2> QED BY <1>2, <2>1, <2>2 DEF LeakBound, n
<1>4. CASE Spares
  <2>1. /\ LeakedSessions' \in SUBSET LeakedSessions /\ Exposed' \in SUBSET Exposed
        /\ Dropping' \in SUBSET Dropping
    BY <1>4 DEF Spares
  <2>2. /\ IsFiniteSet(LeakedSessions') /\ Cardinality(LeakedSessions') <= l /\ Cardinality(LeakedSessions') \in Nat
        /\ IsFiniteSet(Exposed') /\ Cardinality(Exposed') <= e /\ Cardinality(Exposed') \in Nat
        /\ IsFiniteSet(Dropping') /\ Cardinality(Dropping') <= d /\ Cardinality(Dropping') \in Nat
    BY <1>1, <2>1, Shrinks
  <2>3. Cardinality(LeakedSessions') + Cardinality(Exposed') + Cardinality(Dropping') <= LeakBound'
    <3> HIDE DEF l, e, d
    <3> QED BY <1>1, <1>2, <1>3, <2>2
  <2> QED BY <2>2, <2>3 DEF LeakInv
<1>5. ASSUME NEW w \in Workers, LeavesReplica(w) PROVE LeakInv'
  <2>1. /\ LeakedSessions' \in SUBSET (LeakedSessions \cup {db_local[w]}) /\ Exposed' \in SUBSET Exposed
        /\ Dropping' \in SUBSET Dropping
    BY <1>5 DEF LeavesReplica
  <2>2. /\ IsFiniteSet(LeakedSessions') /\ Cardinality(LeakedSessions') <= l + 1 /\ Cardinality(LeakedSessions') \in Nat
        /\ IsFiniteSet(Exposed') /\ Cardinality(Exposed') + 1 <= e /\ Cardinality(Exposed') \in Nat
        /\ IsFiniteSet(Dropping') /\ Cardinality(Dropping') <= d /\ Cardinality(Dropping') \in Nat
    BY <1>1, <1>5, <2>1, Shrinks, GrowsByOne, ShrinksByOne DEF LeavesReplica
  <2>3. Cardinality(LeakedSessions') + Cardinality(Exposed') + Cardinality(Dropping') <= LeakBound'
    <3> HIDE DEF l, e, d
    <3> QED BY <1>1, <1>2, <1>3, <2>2
  <2> QED BY <2>2, <2>3 DEF LeakInv
<1>6. ASSUME NEW w \in Workers, DropsCancelled(w) PROVE LeakInv'
  <2>1. /\ LeakedSessions' \in SUBSET (LeakedSessions \cup {db_local[w]}) /\ Exposed' \in SUBSET Exposed
        /\ Dropping' \in SUBSET Dropping
    BY <1>6 DEF DropsCancelled
  <2>2. /\ IsFiniteSet(LeakedSessions') /\ Cardinality(LeakedSessions') <= l + 1 /\ Cardinality(LeakedSessions') \in Nat
        /\ IsFiniteSet(Exposed') /\ Cardinality(Exposed') <= e /\ Cardinality(Exposed') \in Nat
        /\ IsFiniteSet(Dropping') /\ Cardinality(Dropping') + 1 <= d /\ Cardinality(Dropping') \in Nat
    BY <1>1, <1>6, <2>1, Shrinks, GrowsByOne, ShrinksByOne DEF DropsCancelled
  <2>3. Cardinality(LeakedSessions') + Cardinality(Exposed') + Cardinality(Dropping') <= LeakBound'
    <3> HIDE DEF l, e, d
    <3> QED BY <1>1, <1>2, <1>3, <2>2
  <2> QED BY <2>2, <2>3 DEF LeakInv
<1>7. ASSUME NEW w \in Workers, DropsBlindly(w), blind' = blind + 1 PROVE LeakInv'
  <2>1. /\ LeakedSessions' \in SUBSET (LeakedSessions \cup {db_local[w]}) /\ Exposed' \in SUBSET Exposed
        /\ Dropping' \in SUBSET Dropping
    BY <1>7 DEF DropsBlindly
  <2>2. /\ IsFiniteSet(LeakedSessions') /\ Cardinality(LeakedSessions') <= l + 1 /\ Cardinality(LeakedSessions') \in Nat
        /\ IsFiniteSet(Exposed') /\ Cardinality(Exposed') <= e /\ Cardinality(Exposed') \in Nat
        /\ IsFiniteSet(Dropping') /\ Cardinality(Dropping') <= d /\ Cardinality(Dropping') \in Nat
    BY <1>1, <2>1, Shrinks, GrowsByOne
  <2>3. LeakBound + 1 <= LeakBound'
    BY <1>3, <1>7 DEF DropsBlindly
  <2>4. Cardinality(LeakedSessions') + Cardinality(Exposed') + Cardinality(Dropping') <= LeakBound'
    <3> HIDE DEF l, e, d
    <3> QED BY <1>1, <1>2, <1>3, <2>2, <2>3
  <2> QED BY <2>2, <2>4 DEF LeakInv
<1> QED BY <1>4, <1>5, <1>6, <1>7

\* Without a primary every host is a replica.
LEMMA AllExposed ==
  ASSUME TInv, ~Proxied, primary = None
  PROVE  Exposed = Workers
<1> SUFFICES ASSUME NEW w \in Workers PROVE MayMeetReplica(w)
  BY DEF Exposed
<1>1. db_hosts[w] \in Seq(Hosts) /\ db_hosts[w] # <<>>
  BY DEF TInv, TypeOK, ThreadTypeOK, HostsNonempty
<1>2. Head(HostsToTry(w)) \in Hosts
  BY <1>1, RotatedType, HeadTailProperties DEF HostsToTry
<1>3. db_local[w] # None => host[db_local[w]] \in Hosts
  BY DEF TInv, TypeOK, ThreadTypeOK, SessTypeOK
<1> QED BY <1>2, <1>3, ConstantsAssumption DEF ConstantsAssumption, MayMeetReplica

\* A thread's own state decides whether it may meet a replica.
LEMMA Unexposed ==
  ASSUME UNCHANGED <<db_local, db_hosts, reconnect_attempt, link, host, primary>>
  PROVE  Exposed' = Exposed
  BY DEF Exposed, MayMeetReplica, HostsToTry, Rotating, Rotated, LinkUp

LEMMA OthersUnexposed ==
  ASSUME NEW w \in Workers, UNCHANGED primary,
         \A v \in Workers \ {w} : /\ db_local'[v] = db_local[v] /\ db_hosts'[v] = db_hosts[v]
                                  /\ reconnect_attempt'[v] = reconnect_attempt[v]
                                  /\ db_local[v] # None => link'[db_local[v]] = link[db_local[v]]
                                  /\ db_local[v] # None => host'[db_local[v]] = host[db_local[v]],
         w \in Exposed' => w \in Exposed
  PROVE  Exposed' \subseteq Exposed
<1> SUFFICES ASSUME ~Proxied, NEW v \in Workers \ {w}, MayMeetReplica(v)' PROVE MayMeetReplica(v)
  BY DEF Exposed
<1>1. HostsToTry(v)' = HostsToTry(v)
  BY DEF HostsToTry, Rotating, Rotated
<1> QED BY <1>1 DEF MayMeetReplica, LinkUp

LEMMA ThreadLeaks ==
  ASSUME LInv, Proxied \/ TwoServers, NEW w \in Workers, Thread(w)
  PROVE  /\ faults' \in {faults, faults + 1}
         /\ \/ blind' = blind /\ (Spares \/ LeavesReplica(w) \/ DropsCancelled(w))
            \/ blind' = blind + 1 /\ DropsBlindly(w)
<1> USE ConstantsAssumption DEF ConstantsAssumption
<1> USE DEF LInv, TInv, TypeOK, ThreadTypeOK, SessTypeOK, NodeTypeOK
<1>1. CASE Connect(w)
  <2>1. PICK s \in Sessions :
           /\ FreeSession(s) /\ db_local' = [db_local EXCEPT ![w] = s]
           /\ host' = [host EXCEPT ![s] = Target(w)] /\ txn' = [txn EXCEPT ![s] = "idle"]
           /\ link' = [link EXCEPT ![s] = "up"] /\ cancel' = cancel \ {s}
    BY <1>1 DEF Connect
  <2>2. /\ db_local[w] = None /\ UNCHANGED <<primary, faults, is_terminate>>
        /\ db_hosts' = [db_hosts EXCEPT ![w] = HostsToTry(w)]
        /\ reconnect_attempt' = [reconnect_attempt EXCEPT ![w] = AttemptsMade(w)]
    BY <1>1 DEF Connect, nodeVars
  <2>3. LeakedSessions' \subseteq LeakedSessions /\ Dropping' \subseteq Dropping
    BY <2>1, <2>2 DEF LeakedSessions, Dropping, FreeSession
  <2>4. ~Proxied => (MayMeetReplica(w)' => MayMeetReplica(w))
    BY <2>1, <2>2 DEF MayMeetReplica, LinkUp, Target
  <2>5. Exposed' \subseteq Exposed
    <3>1. \A v \in Workers \ {w} : db_local[v] # s
      BY <2>1 DEF FreeSession
    <3>2. \A v \in Workers \ {w} : /\ db_local'[v] = db_local[v] /\ db_hosts'[v] = db_hosts[v]
                                   /\ reconnect_attempt'[v] = reconnect_attempt[v]
      BY <2>1, <2>2
    <3>3. \A v \in Workers \ {w} : /\ db_local[v] # None => link'[db_local[v]] = link[db_local[v]]
                                   /\ db_local[v] # None => host'[db_local[v]] = host[db_local[v]]
      BY <2>1, <3>1, <3>2, SMTT(30) DEF LinkUp
    <3>4. \A v \in Workers \ {w} : /\ db_local'[v] = db_local[v] /\ db_hosts'[v] = db_hosts[v]
                                   /\ reconnect_attempt'[v] = reconnect_attempt[v]
                                   /\ db_local[v] # None => link'[db_local[v]] = link[db_local[v]]
                                   /\ db_local[v] # None => host'[db_local[v]] = host[db_local[v]]
      BY <3>2, <3>3
    <3> HIDE DEF LInv, TInv, TypeOK, ThreadTypeOK, SessTypeOK, NodeTypeOK
    <3>5. w \in Exposed' => w \in Exposed
      BY <2>4 DEF Exposed
    <3> QED BY <2>2, <3>4, <3>5, OthersUnexposed
  <2>6. blind' = blind
    BY <1>1 DEF Connect, history
  <2> QED BY <2>2, <2>3, <2>5, <2>6 DEF Spares
<1>2. CASE CannotConnect(w)
  <2>1. /\ db_local[w] = None /\ UNCHANGED <<db_local, link, txn, host, primary, faults, is_terminate, cancel>>
    BY <1>2 DEF CannotConnect, nodeVars, sessVars, sharedVars
  <2>2. LeakedSessions' \subseteq LeakedSessions /\ Dropping' \subseteq Dropping
    BY <2>1 DEF LeakedSessions, Dropping
  <2>3. \A v \in Workers \ {w} : /\ db_local'[v] = db_local[v] /\ db_hosts'[v] = db_hosts[v]
                                 /\ reconnect_attempt'[v] = reconnect_attempt[v]
    BY <1>2 DEF CannotConnect
  <2>4. ~Proxied => w \in Exposed
    <3> SUFFICES ASSUME TwoServers, Head(HostsToTry(w)) = primary PROVE FALSE
      BY <2>1 DEF Exposed, MayMeetReplica
    <3>1. Target(w) = primary
      BY DEF TwoServers, Target
    <3>2. primary \in Hosts
      BY TwoHostDeques DEF HostsToTry
    <3>3. Target(w) \in up
      BY <3>1, <3>2 DEF TwoInv
    <3>4. \E s \in Sessions : FreeSession(s)
      BY <2>1, BackendIsFree
    <3> QED BY <1>2, <3>3, <3>4 DEF CannotConnect
  <2>5. Exposed' \subseteq Exposed
    <3>1. \A v \in Workers \ {w} : /\ db_local'[v] = db_local[v] /\ db_hosts'[v] = db_hosts[v]
                                   /\ reconnect_attempt'[v] = reconnect_attempt[v]
                                   /\ db_local[v] # None => link'[db_local[v]] = link[db_local[v]]
                                   /\ db_local[v] # None => host'[db_local[v]] = host[db_local[v]]
      BY <2>1, <2>3
    <3>2. w \in Exposed' => w \in Exposed
      BY <2>4 DEF Exposed
    <3> HIDE DEF LInv, TInv, TypeOK, ThreadTypeOK, SessTypeOK, NodeTypeOK
    <3> QED BY <2>1, <3>1, <3>2, OthersUnexposed
  <2>6. blind' = blind
    BY <1>2 DEF CannotConnect, history
  <2> QED BY <2>1, <2>2, <2>5, <2>6 DEF Spares
<1>3. CASE ReadOnlyTransactionError(w)
  <2> DEFINE s == db_local[w]
  <2>1. /\ s \in Sessions /\ link[s] = "up" /\ host[s] # primary /\ LinkUp(w)
        /\ db_local' = [db_local EXCEPT ![w] = None] /\ db_hosts' = [db_hosts EXCEPT ![w] = Rotated(@)]
        /\ UNCHANGED <<reconnect_attempt, link, txn, host, primary, faults, is_terminate, cancel>>
    BY <1>3 DEF ReadOnlyTransactionError, LinkUp, Forget, SwitchHost, nodeVars, sessVars, sharedVars
  <2>2. TwoServers
    BY <2>1 DEF PlaceInv, LiveOnLink, AllAtPrimary
  <2>3. Dropping' = Dropping /\ LeakedSessions' \subseteq LeakedSessions \cup {s}
    BY <2>1 DEF Dropping, LeakedSessions
  <2>4. CASE primary = None
    <3>1. blind' = blind + 1
      BY <1>3, <2>4 DEF ReadOnlyTransactionError
    <3>2. Exposed' \subseteq Exposed
      BY <2>2, <2>4, AllExposed DEF Exposed, TwoServers
    <3> QED BY <2>1, <2>2, <2>3, <3>1, <3>2 DEF DropsBlindly, TwoServers
  <2>5. CASE primary # None
    <3>1. blind' = blind
      BY <1>3, <2>5 DEF ReadOnlyTransactionError
    <3>2. w \in Exposed
      BY <2>1, <2>2 DEF Exposed, MayMeetReplica, TwoServers
    <3>3. ~MayMeetReplica(w)'
      <4>1. reconnect_attempt[w] = 0 \/ reconnect_attempt[w] < ReconnectAttempt
        BY <2>1 DEF HostsKept
      <4>2. HostsToTry(w)' = Rotated(db_hosts[w])
        BY <2>1, <2>2, <4>1 DEF HostsToTry, Rotating, TwoServers
      <4>3. Head(Rotated(db_hosts[w])) = primary
        <5>1. host[s] = Head(db_hosts[w]) /\ primary \in Hosts
          BY <2>1, <2>2, <2>5 DEF TwoInv
        <5> QED BY <2>1, <2>2, <5>1, TwoHostDeques
      <4> QED BY <2>1, <4>2, <4>3 DEF MayMeetReplica
    <3>4. Exposed' \subseteq Exposed
      <4>1. \A v \in Workers \ {w} : /\ db_local'[v] = db_local[v] /\ db_hosts'[v] = db_hosts[v]
                                     /\ reconnect_attempt'[v] = reconnect_attempt[v]
                                     /\ db_local[v] # None => link'[db_local[v]] = link[db_local[v]]
                                     /\ db_local[v] # None => host'[db_local[v]] = host[db_local[v]]
        BY <2>1 DEF LinkUp
      <4> QED BY <2>1, <3>3, <4>1, OthersUnexposed DEF Exposed
    <3>5. w \notin Exposed'
      BY <2>2, <3>3 DEF Exposed, TwoServers
    <3> QED BY <2>1, <2>3, <3>1, <3>2, <3>4, <3>5 DEF LeavesReplica
  <2> QED BY <2>4, <2>5
<1>4. CASE QueryCanceledError(w)
  <2> DEFINE s == db_local[w]
  <2>1. /\ s \in cancel /\ s \in Sessions /\ link[s] = "up" /\ LinkUp(w) /\ pc[w] = "lock"
        /\ cancel' = cancel \ {s}
        /\ txn' = [txn EXCEPT ![s] = "idle"]
        /\ UNCHANGED <<reconnect_attempt, link, host, primary, faults, is_terminate, db_hosts, blind>>
    BY <1>4 DEF QueryCanceledError, CanBeCanceled, LinkUp, AbortOnExit, nodeVars, sharedVars, history
  <2>2. \/ is_terminate /\ UNCHANGED db_local
        \/ ~is_terminate /\ db_local' = [db_local EXCEPT ![w] = None]
    BY <1>4 DEF QueryCanceledError, Forget
  <2>3. txn[s] = "open" /\ host[s] = primary
    BY <2>1 DEF SInv, OpenWhileLocking, PlaceInv, OpenAtPrimary
  <2>4. CASE is_terminate /\ UNCHANGED db_local
    <3>1. Exposed' = Exposed
      BY <2>1, <2>4, Unexposed
    <3>2. LeakedSessions' \subseteq LeakedSessions /\ Dropping' \subseteq Dropping
      BY <2>1, <2>3, <2>4 DEF LeakedSessions, Dropping
    <3> QED BY <2>1, <3>1, <3>2 DEF Spares
  <2>5. CASE ~is_terminate /\ db_local' = [db_local EXCEPT ![w] = None]
    <3>1. /\ s \in Dropping /\ s \notin Dropping' /\ Dropping' \subseteq Dropping
          /\ LeakedSessions' \subseteq LeakedSessions \cup {s}
      BY <2>1, <2>3, <2>5 DEF LeakedSessions, Dropping
    <3>2. ~Proxied => ~MayMeetReplica(w)'
      <4> SUFFICES ASSUME TwoServers PROVE Head(HostsToTry(w))' = primary'
        BY <2>5 DEF MayMeetReplica
      <4>1. reconnect_attempt[w] = 0 \/ reconnect_attempt[w] < ReconnectAttempt
        BY <2>1 DEF HostsKept
      <4>2. HostsToTry(w)' = db_hosts[w]
        BY <2>1, <4>1 DEF HostsToTry, Rotating, TwoServers
      <4>3. Head(db_hosts[w]) = host[s]
        BY <2>1 DEF TwoInv
      <4> QED BY <2>1, <2>3, <4>2, <4>3
    <3>3. Exposed' \subseteq Exposed
      <4>1. \A v \in Workers \ {w} : /\ db_local'[v] = db_local[v] /\ db_hosts'[v] = db_hosts[v]
                                     /\ reconnect_attempt'[v] = reconnect_attempt[v]
                                     /\ db_local[v] # None => link'[db_local[v]] = link[db_local[v]]
                                     /\ db_local[v] # None => host'[db_local[v]] = host[db_local[v]]
        BY <2>1, <2>5 DEF LinkUp
      <4>2. w \in Exposed' => w \in Exposed
        BY <3>2 DEF Exposed
      <4>3. primary' = primary
        BY <2>1
      <4> HIDE DEF LInv, TInv, TypeOK, ThreadTypeOK, SessTypeOK, NodeTypeOK
      <4> QED BY <4>1, <4>2, <4>3, OthersUnexposed
    <3> QED BY <2>1, <3>1, <3>3 DEF DropsCancelled
  <2> QED BY <2>2, <2>4, <2>5
<1>5. CASE AdminShutdownError(w) \/ ConnectionFailureError(w) \/ Close(w)
  <2>1. /\ UNCHANGED <<link, host, primary, faults, is_terminate, db_hosts, cancel>>
        /\ db_local' \in {db_local, [db_local EXCEPT ![w] = None]}
        /\ \A v \in Workers \ {w} : reconnect_attempt'[v] = reconnect_attempt[v]
    BY <1>5 DEF AdminShutdownError, ConnectionFailureError, Close, Forget, nodeVars, sharedVars, sessVars
  <2>2. LeakedSessions' \subseteq LeakedSessions
    <3>1. CASE AdminShutdownError(w) \/ ConnectionFailureError(w)
      <4>1. txn' = txn /\ db_local[w] # None /\ link[db_local[w]] # "up"
        BY <3>1 DEF AdminShutdownError, ConnectionFailureError, LinkIn, sessVars
      <4> QED BY <2>1, <4>1 DEF LeakedSessions
    <3>2. CASE Close(w)
      <4>1. txn' = IF LinkUp(w) THEN [txn EXCEPT ![db_local[w]] = "gone"] ELSE txn
        BY <3>2 DEF Close
      <4>2. CASE db_local[w] = None
        BY <2>1, <4>1, <4>2 DEF LeakedSessions, LinkUp
      <4>3. CASE db_local[w] # None
        <5>1. \A s \in Sessions : link[s] = "up" /\ txn'[s] # "gone" => s # db_local[w] /\ txn'[s] = txn[s]
          BY <4>1, <4>3 DEF LinkUp
        <5> QED BY <2>1, <5>1 DEF LeakedSessions
      <4> QED BY <4>2, <4>3
    <3> QED BY <1>5, <3>1, <3>2
  <2>3. ~Proxied => (MayMeetReplica(w)' => MayMeetReplica(w))
    <3>1. CASE AdminShutdownError(w) \/ ConnectionFailureError(w)
      BY <3>1 DEF AdminShutdownError, ConnectionFailureError, LinkIn, LinkUp, MayMeetReplica
    <3>2. CASE Close(w) /\ LinkUp(w)
      <4> SUFFICES ASSUME TwoServers PROVE Head(HostsToTry(w))' = host[db_local[w]]
        BY <2>1, <3>2 DEF MayMeetReplica, Close, LinkUp
      <4>1. reconnect_attempt[w] = 0 \/ reconnect_attempt[w] < ReconnectAttempt
        BY <3>2 DEF HostsKept, LinkUp
      <4>2. HostsToTry(w)' = db_hosts[w]
        BY <2>1, <3>2, <4>1 DEF HostsToTry, Rotating, TwoServers, Close
      <4>3. Head(db_hosts[w]) = host[db_local[w]]
        BY <3>2 DEF TwoInv, LinkUp
      <4> QED BY <4>2, <4>3
    <3>3. CASE Close(w) /\ ~LinkUp(w)
      <4>1. UNCHANGED <<db_hosts, reconnect_attempt, primary>> /\ (db_local[w] = None => db_local' = db_local)
        BY <3>3 DEF Close, nodeVars
      <4> QED BY <3>3, <4>1 DEF MayMeetReplica, HostsToTry, Rotating, Rotated, LinkUp
    <3> QED BY <1>5, <3>1, <3>2, <3>3
  <2>4. Exposed' \subseteq Exposed
    <3>1. \A v \in Workers \ {w} : /\ db_local'[v] = db_local[v] /\ db_hosts'[v] = db_hosts[v]
                                   /\ reconnect_attempt'[v] = reconnect_attempt[v]
                                   /\ db_local[v] # None => link'[db_local[v]] = link[db_local[v]]
                                   /\ db_local[v] # None => host'[db_local[v]] = host[db_local[v]]
      BY <2>1 DEF LinkUp
    <3>2. w \in Exposed' => w \in Exposed
      BY <2>3 DEF Exposed
    <3> QED BY <2>1, <3>1, <3>2, OthersUnexposed
  <2>5. blind' = blind
    BY <1>5 DEF AdminShutdownError, ConnectionFailureError, Close, history
  <2> QED BY <2>1, <2>2, <2>4, <2>5 DEF Spares, Dropping
<1>6. CASE Begin(w) \/ UpdateAndCommit(w) \/ Committed(w) \/ DeadlockError(w)
  <2>1. /\ UNCHANGED <<db_local, db_hosts, reconnect_attempt, link, host, primary, faults, is_terminate, cancel>>
        /\ \E t \in {"open", "commit", "idle"} : txn' = [txn EXCEPT ![db_local[w]] = t]
    BY <1>6 DEF Begin, UpdateAndCommit, Committed, KeepConnection, DeadlockError, AbortOnExit, nodeVars, sharedVars
  <2>2. LeakedSessions' \subseteq LeakedSessions
    BY <2>1 DEF LeakedSessions
  <2>3. blind' = blind
    BY <1>6 DEF Begin, UpdateAndCommit, Committed, DeadlockError, history
  <2> QED BY <2>1, <2>2, <2>3, Unexposed DEF Spares, Dropping
<1>7. CASE Test(w) \/ Load(w) \/ Store(w) \/ UncaughtTimeout(w) \/ LockRow(w) \/ Rollback(w) \/ RollbackFails(w) \/ UndefinedTable(w)
  <2>1. /\ UNCHANGED <<db_local, db_hosts, reconnect_attempt, link, host, primary, txn, is_terminate, cancel>>
        /\ faults' \in {faults, faults + 1}
    BY <1>7 DEF Test, Load, Store, UncaughtTimeout, Fault, LockRow, Rollback, RollbackFails, UndefinedTable, nodeVars, sharedVars, sessVars
  <2>2. LeakedSessions' \subseteq LeakedSessions
    BY <2>1 DEF LeakedSessions
  <2>3. blind' = blind
    BY <1>7 DEF Test, Load, Store, UncaughtTimeout, LockRow, Rollback, RollbackFails, UndefinedTable, history
  <2> QED BY <2>1, <2>2, <2>3, Unexposed DEF Spares, Dropping
<1> QED BY <1>1, <1>2, <1>3, <1>4, <1>5, <1>6, <1>7 DEF Thread
-----------------------------------------------------------------------------
\* A fault may expose every thread again, which its share of the bound allows.
LEMMA FaultsExpose ==
  ASSUME TInv, LeakInv, Proxied \/ TwoServers, faults' = faults + 1, blind' = blind,
         LeakedSessions' \subseteq LeakedSessions, Dropping' \subseteq Dropping
  PROVE  LeakInv'
<1>1. CASE Proxied
  BY <1>1, SparingKeepsLeakInv DEF Spares, Exposed
<1>2. CASE ~Proxied
  <2> DEFINE n == Cardinality(Workers)
  <2>0. n \in Nat /\ faults \in Nat /\ blind \in Nat /\ IsFiniteSet(Workers)
    BY FS_CardinalityType, ConstantsAssumption
       DEF ConstantsAssumption, TInv, TypeOK, NodeTypeOK, HistoryTypeOK
  <2>1. /\ IsFiniteSet(LeakedSessions) /\ IsFiniteSet(Exposed) /\ IsFiniteSet(Dropping)
        /\ Cardinality(LeakedSessions) + Cardinality(Exposed) + Cardinality(Dropping) <= (faults + 1) * n + blind
    BY <1>2 DEF LeakInv, LeakBound
  <2>2. Exposed' \in SUBSET Workers /\ LeakedSessions' \in SUBSET LeakedSessions /\ Dropping' \in SUBSET Dropping
    BY DEF Exposed
  <2>3. /\ IsFiniteSet(LeakedSessions') /\ Cardinality(LeakedSessions') <= Cardinality(LeakedSessions)
        /\ Cardinality(LeakedSessions') \in Nat /\ Cardinality(LeakedSessions) \in Nat
        /\ IsFiniteSet(Exposed') /\ Cardinality(Exposed') <= n /\ Cardinality(Exposed') \in Nat
        /\ IsFiniteSet(Dropping') /\ Cardinality(Dropping') <= Cardinality(Dropping)
        /\ Cardinality(Dropping') \in Nat /\ Cardinality(Dropping) \in Nat
    BY <2>0, <2>1, <2>2, Shrinks
  <2>4. Cardinality(Exposed) \in Nat
    BY <2>1, FS_CardinalityType
  <2>5. (faults' + 1) * n = (faults + 1) * n + n /\ (faults + 1) * n \in Nat
    <3> HIDE DEF n
    <3> QED BY <2>0, FaultsMonotone
  <2>6. Cardinality(LeakedSessions') + Cardinality(Exposed') + Cardinality(Dropping') <= (faults' + 1) * n + blind'
    <3> HIDE DEF n
    <3> QED BY <2>0, <2>1, <2>3, <2>4, <2>5
  <2> QED BY <1>2, <2>3, <2>6 DEF LeakInv, LeakBound
<1> QED BY <1>1, <1>2

\* So does one cancel request.
LEMMA CancelIsAFault ==
  ASSUME TInv, SInv, LeakInv, Proxied \/ TwoServers, NEW s \in Sessions, OperatorCancel(s)
  PROVE  LeakInv'
<1> DEFINE n == Cardinality(Workers)
           l == Cardinality(LeakedSessions)
           e == Cardinality(Exposed)
           d == Cardinality(Dropping)
<1>0. n \in Nat /\ n >= 1 /\ faults \in Nat /\ blind \in Nat
  <2>1. n \in Nat /\ faults \in Nat /\ blind \in Nat /\ IsFiniteSet(Workers)
    BY FS_CardinalityType, ConstantsAssumption
       DEF ConstantsAssumption, TInv, TypeOK, NodeTypeOK, HistoryTypeOK
  <2>2. Workers # {}
    BY DEF OperatorCancel, SInv, HasOwner
  <2> QED BY <2>1, <2>2, FS_EmptySet
<1>1. /\ faults' = faults + 1 /\ cancel' = cancel \cup {s} /\ UNCHANGED is_terminate
      /\ UNCHANGED <<db_local, db_hosts, reconnect_attempt, link, host, primary, txn, blind>>
  BY DEF OperatorCancel, Fault, programVars, sharedVars, threadVars, history
<1>2. LeakedSessions' = LeakedSessions /\ Exposed' = Exposed /\ Dropping' \in SUBSET (Dropping \cup {s})
  <2>1. LeakedSessions' = LeakedSessions /\ Dropping' \in SUBSET (Dropping \cup {s})
    BY <1>1 DEF LeakedSessions, Dropping
  <2> QED BY <1>1, <2>1, Unexposed
<1>3. /\ IsFiniteSet(LeakedSessions) /\ IsFiniteSet(Exposed) /\ IsFiniteSet(Dropping)
      /\ l + e + d <= LeakBound
  BY DEF LeakInv
<1>4. IsFiniteSet(Dropping') /\ Cardinality(Dropping') <= d + 1 /\ Cardinality(Dropping') \in Nat
      /\ d \in Nat /\ l \in Nat /\ e \in Nat
  BY <1>2, <1>3, GrowsByOne, FS_CardinalityType
<1>5. LeakBound \in Nat /\ LeakBound' \in Nat /\ LeakBound + 1 <= LeakBound'
  <2>1. CASE Proxied
    BY <1>0, <1>1, <2>1 DEF LeakBound
  <2>2. CASE ~Proxied
    <3> HIDE DEF n
    <3>1. (faults' + 1) * n = (faults + 1) * n + n /\ (faults + 1) * n \in Nat
      BY <1>0, <1>1, FaultsMonotone
    <3>2. LeakBound = (faults + 1) * n + blind /\ LeakBound' = (faults' + 1) * n + blind
      BY <1>1, <2>2 DEF LeakBound, n
    <3> QED BY <1>0, <3>1, <3>2
  <2> QED BY <2>1, <2>2
<1>6. l + e + Cardinality(Dropping') <= LeakBound'
  <2> HIDE DEF n, l, e, d
  <2> QED BY <1>3, <1>4, <1>5
<1> QED BY <1>2, <1>3, <1>4, <1>6 DEF LeakInv

LEMMA LeakInvStep == LInv /\ [Next]_vars => LeakInv'
<1> SUFFICES ASSUME LInv, Proxied \/ TwoServers, [Next]_vars PROVE LeakInv'
  BY DEF LeakInv
<1> USE ConstantsAssumption DEF ConstantsAssumption, LInv
<1>0. faults \in Nat
  BY DEF TInv, TypeOK, NodeTypeOK
<1>1. CASE WorkersNext
  BY <1>1, ThreadLeaks, SparingKeepsLeakInv DEF WorkersNext
<1>2. ASSUME UNCHANGED <<db_local, db_hosts, reconnect_attempt, link, host, primary, faults, blind>>,
             \A s \in Sessions : txn'[s] # "gone" => txn[s] # "gone",
             Dropping' \subseteq Dropping
      PROVE  LeakInv'
  <2>1. LeakedSessions' \subseteq LeakedSessions
    BY <1>2 DEF LeakedSessions
  <2> QED BY <1>2, <2>1, Unexposed, SparingKeepsLeakInv DEF Spares
<1>3. CASE ClusterNext
  <2> USE DEF programVars, sharedVars, threadVars, nodeVars, sessVars, history
  <2>1. ASSUME NEW s \in Sessions, ServerCommit(s) \/ ServerNotices(s) \/ CancelIgnored(s)
        PROVE  LeakInv'
    <3>1. /\ UNCHANGED <<db_local, db_hosts, reconnect_attempt, link, host, primary, faults, blind, is_terminate>>
          /\ cancel' \subseteq cancel
          /\ \A r \in Sessions : txn'[r] # "gone" => txn[r] # "gone"
      <4> USE DEF TInv, TypeOK, SessTypeOK
      <4>1. CASE ServerCommit(s)
        BY <4>1 DEF ServerCommit
      <4>2. CASE ServerNotices(s)
        BY <4>2 DEF ServerNotices
      <4>3. CASE CancelIgnored(s)
        BY <4>3 DEF CancelIgnored
      <4> QED BY <2>1, <4>1, <4>2, <4>3
    <3> QED BY <1>2, <3>1 DEF Dropping
  <2>2. ASSUME NEW h \in Hosts, Promote(h) PROVE LeakInv'
    <3>1. UNCHANGED <<db_local, link, txn, faults, blind, is_terminate, cancel>> /\ primary = None
      BY <2>2 DEF Promote
    <3>2. LeakedSessions' = LeakedSessions /\ Dropping' = Dropping
      BY <3>1 DEF LeakedSessions, Dropping
    <3>3. Exposed' \subseteq Exposed
      BY <3>1, AllExposed DEF Exposed
    <3> QED BY <3>1, <3>2, <3>3, SparingKeepsLeakInv DEF Spares
  <2>3. ASSUME NEW h \in Hosts, Restart(h) \/ Replicate(h) PROVE LeakInv'
    BY <1>2, <2>3 DEF Restart, Replicate, Dropping
  <2>4. CASE Switchover \/ Crash
    <3>1. faults' = faults + 1 /\ PrimaryEnds
      BY <2>4 DEF Switchover, Crash, Fault
    <3>2. /\ UNCHANGED <<db_local, is_terminate, cancel, blind>>
          /\ \A s \in Sessions : txn'[s] # "gone" => txn[s] # "gone" /\ link'[s] = link[s]
      BY <3>1 DEF PrimaryEnds, EndSessions, OnHost
    <3>3. LeakedSessions' \subseteq LeakedSessions /\ Dropping' = Dropping
      BY <3>2 DEF LeakedSessions, Dropping
    <3> QED BY <3>1, <3>2, <3>3, FaultsExpose
  <2>6. ASSUME NEW s \in Sessions, BreakLink(s) PROVE LeakInv'
    <3>1. /\ UNCHANGED <<db_local, is_terminate, cancel, blind>> /\ faults' = faults + 1
          /\ \A r \in Sessions : link'[r] = "up" => link[r] = "up" /\ txn'[r] = txn[r]
      <4> USE DEF TInv, TypeOK, SessTypeOK
      <4> QED BY <2>6 DEF BreakLink, Fault
    <3>2. LeakedSessions' \subseteq LeakedSessions /\ Dropping' = Dropping
      BY <3>1 DEF LeakedSessions, Dropping
    <3> QED BY <3>1, <3>2, FaultsExpose
  <2>7. ASSUME NEW s \in Sessions, OperatorCancel(s) PROVE LeakInv'
    BY <2>7, CancelIsAFault
  <2> QED BY <1>3, <2>1, <2>2, <2>3, <2>4, <2>6, <2>7 DEF ClusterNext, Server, Patroni, Faults
<1>4. CASE Terminate \/ Done \/ UNCHANGED vars
  BY <1>2, <1>4 DEF Terminate, Done, vars, sharedVars, threadVars, nodeVars, sessVars, history, Dropping
<1> QED BY <1>1, <1>3, <1>4 DEF Next

LEMMA LInvInit == Init => LInv
<1> SUFFICES ASSUME Init PROVE LInv
  OBVIOUS
<1> USE DEF Init
<1> USE ConstantsAssumption DEF ConstantsAssumption
<1>1. UnnoticedInv
  <2>1. Unnoticed = {} /\ faults = 0
    BY DEF InitButTables, Unnoticed
  <2> QED BY <2>1, FS_EmptySet DEF UnnoticedInv
<1>2. LeakInv
  <2> SUFFICES ASSUME Proxied \/ TwoServers
               PROVE  /\ IsFiniteSet(LeakedSessions) /\ IsFiniteSet(Exposed) /\ IsFiniteSet(Dropping)
                      /\ Cardinality(LeakedSessions) + Cardinality(Exposed) + Cardinality(Dropping) <= LeakBound
    BY DEF LeakInv
  <2>1. LeakedSessions = {} /\ Dropping = {} /\ faults = 0 /\ blind = 0
    BY DEF InitButTables, LeakedSessions, Dropping
  <2>2. IsFiniteSet({}) /\ Cardinality({}) = 0
    BY FS_EmptySet
  <2>3. CASE Proxied
    BY <2>1, <2>2, <2>3 DEF Exposed, LeakBound
  <2>4. CASE ~Proxied
    <3>1. Exposed \in SUBSET Workers
      BY DEF Exposed
    <3>2. IsFiniteSet(Exposed) /\ Cardinality(Exposed) <= Cardinality(Workers)
          /\ Cardinality(Exposed) \in Nat /\ Cardinality(Workers) \in Nat
      BY <3>1, Shrinks
    <3>3. LeakBound = Cardinality(Workers)
      BY <2>1, <2>4, <3>2 DEF LeakBound
    <3> QED BY <2>1, <2>2, <3>2, <3>3
  <2> QED BY <2>3, <2>4
<1> QED BY <1>1, <1>2, TInvInit, SInvInit, HostsKeptInit, PlaceInvInit, TwoInvInit DEF LInv

(* Sessions a thread dropped without ending them, which the server keeps:  *)
(* behind haproxy there are no more of them than there were faults; with   *)
(* two servers named directly, at most one per thread for each fault and   *)
(* one per thread more, besides those dropped while there was no primary.  *)
THEOREM LeaksAreBounded == Spec => [](LeaksBounded /\ LeaksBehindProxy)
<1>1. Init => LInv
  BY LInvInit
<1>2. LInv /\ [Next]_vars => LInv'
  BY TInvStep, SInvStep, HostsKeptStep, PlaceInvStep, TwoInvStep, UnnoticedInvStep, LeakInvStep DEF LInv
<1>3. LInv => LeaksBounded /\ LeaksBehindProxy
  <2> SUFFICES ASSUME LInv, Proxied \/ TwoServers PROVE Cardinality(LeakedSessions) <= LeakBound
    BY DEF LeaksBounded, LeaksBehindProxy, LeakBound, TwoServers
  <2>1. /\ Cardinality(LeakedSessions) \in Nat /\ Cardinality(Exposed) \in Nat /\ Cardinality(Dropping) \in Nat
        /\ Cardinality(LeakedSessions) + Cardinality(Exposed) + Cardinality(Dropping) <= LeakBound
    BY FS_CardinalityType DEF LInv, LeakInv
  <2>2. LeakBound \in Nat
    <3>1. faults \in Nat /\ blind \in Nat /\ Cardinality(Workers) \in Nat
      BY FS_CardinalityType, ConstantsAssumption
         DEF ConstantsAssumption, LInv, TInv, TypeOK, NodeTypeOK, HistoryTypeOK
    <3>2. faults <= faults
      BY <3>1
    <3> QED BY <3>1, <3>2, FaultsMonotone DEF LeakBound
  <2> QED BY <2>1, <2>2
<1> QED BY <1>1, <1>2, <1>3, PTL DEF Spec
=============================================================================
