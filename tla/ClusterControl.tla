----------------------------- MODULE ClusterControl -----------------------------
(***************************************************************************)
(* cluster.Cluster: starts, stops and removes the server of a data         *)
(* directory through its process, its pid file and signals, while the      *)
(* server itself, an administrator and the operating system go on: a       *)
(* method is a stack of frames, and each look at the system is a step.     *)
(***************************************************************************)
EXTENDS Common, Naturals, Sequences

CONSTANTS
  Pids,        \* process identifiers
  MaxCalls     \* bound: calls of methods

ASSUME ClusterAssumption == None \notin Pids /\ None # "timeout"

VARIABLES
  proc,        \* pid -> what the process is
  pidfile,     \* postmaster.pid: the pid in it, or None
  datadir,     \* whether the data directory is there
  daemon,      \* Cluster.daemon_process: its pid, or None
  polled,      \* whether daemon_process has a returncode
  frames,      \* the methods in progress, innermost first
  answer,      \* what running() or ready_for_connections() returned
  seen,        \* the pid that was read from the file
  raised,      \* the exception the last call ended with, or None
  stopped,     \* wait_until_stopped() was the last to return, and has
  warned,      \* drop() has warned that the server did not end
  mine,        \* history: the servers this object has started
  ncalls
clusterVars == <<proc, pidfile, datadir, daemon, polled, frames, answer, seen, raised, stopped, warned, mine, ncalls>>
host == <<proc, pidfile, datadir>>
object == <<daemon, polled, mine>>

Serving == {"new", "starting", "ready", "stopping", "exiting"}   \* states of a postmaster
Exists(s) == s \notin {"none", "gone"}                           \* kill(pid, 0) finds it

ClusterInit ==
  /\ proc = [p \in Pids |-> "none"] /\ pidfile \in Pids \cup {None} /\ datadir = TRUE   \* a file may be stale
  /\ daemon = None /\ polled = FALSE /\ frames = <<>> /\ answer = FALSE /\ seen = None
  /\ raised = None /\ stopped = FALSE /\ warned = FALSE /\ mine = {} /\ ncalls = 0

-----------------------------------------------------------------------------
(* Processes *)

\* A process that ends is a zombie until its parent, this object, polls it.
Dead(p) == [proc EXCEPT ![p] = IF daemon = p /\ ~polled THEN "zombie" ELSE "gone"]

\* A postmaster writes its pid file, unless the process in the file exists; it then becomes ready.
LockDataDir(p) ==
  /\ proc[p] = "new"
  /\ IF ~datadir \/ (pidfile # None /\ pidfile # p /\ Exists(proc[pidfile]))
     THEN proc' = Dead(p) /\ UNCHANGED pidfile
     ELSE proc' = [proc EXCEPT ![p] = "starting"] /\ pidfile' = p
BecomeReady(p) == proc[p] = "starting" /\ proc' = [proc EXCEPT ![p] = "ready"] /\ UNCHANGED pidfile
Unlock(p) ==
  /\ proc[p] = "stopping" /\ proc' = [proc EXCEPT ![p] = "exiting"]
  /\ pidfile' = IF pidfile = p THEN None ELSE pidfile
Terminate(p) == proc[p] = "exiting" /\ proc' = Dead(p) /\ UNCHANGED pidfile
Crash(p) == proc[p] \in {"new", "starting", "ready"} /\ proc' = Dead(p) /\ UNCHANGED pidfile

\* An administrator starts and stops servers too, and other processes come and take a free pid.
StartElsewhere(p) == proc[p] = "none" /\ datadir /\ proc' = [proc EXCEPT ![p] = "new"] /\ UNCHANGED pidfile
StopElsewhere(p) == proc[p] = "ready" /\ proc' = [proc EXCEPT ![p] = "stopping"] /\ UNCHANGED pidfile
Recycle(p) == proc[p] = "gone" /\ proc' = [proc EXCEPT ![p] = "foreign"] /\ UNCHANGED pidfile

HostStep ==
  /\ \E p \in Pids : \/ LockDataDir(p) \/ BecomeReady(p) \/ Unlock(p) \/ Terminate(p) \/ Crash(p)
                     \/ StartElsewhere(p) \/ StopElsewhere(p) \/ Recycle(p)
  /\ UNCHANGED <<datadir, object, frames, answer, seen, raised, stopped, warned, ncalls>>

-----------------------------------------------------------------------------
(* Frames *)

InFrame(f) == frames # <<>> /\ Head(frames) = f
Goto(fs) == frames' = fs \o Tail(frames) /\ UNCHANGED <<raised, stopped>>
Return(b) == answer' = b /\ Goto(<<>>)

\* drop() catches the timeout of each wait.
Caught(fs, exc) ==
  IF exc = "timeout" /\ \E i \in DOMAIN fs : fs[i] \in {"tried shutdown", "tried kill"}
  THEN SubSeq(fs, CHOOSE i \in DOMAIN fs : /\ fs[i] \in {"tried shutdown", "tried kill"}
                                           /\ \A j \in 1..(i - 1) : fs[j] \notin {"tried shutdown", "tried kill"}, Len(fs))
  ELSE <<>>
Raise(exc) == raised' = exc /\ frames' = Caught(frames, exc) /\ UNCHANGED stopped

Methods == {"start", "stop", "shutdown", "kill", "restart", "drop", "wait_until_started", "wait_until_stopped"}
CallMethod ==
  /\ frames = <<>> /\ ncalls < MaxCalls /\ datadir
  /\ \E method \in Methods : frames' = <<method>>
  /\ ncalls' = ncalls + 1 /\ raised' = None /\ stopped' = FALSE /\ warned' = FALSE
  /\ UNCHANGED <<host, object, answer, seen>>

EnterMethod(method, fs) ==
  /\ InFrame(method) /\ Goto(fs)
  /\ UNCHANGED <<host, object, answer, seen, warned, ncalls>>

\* running(): the process first, and the pid file for a server this object has not started.
Poll ==
  /\ InFrame("running")
  /\ IF daemon = None THEN Goto(<<"read pid file">>) /\ UNCHANGED <<proc, polled, answer>>
     ELSE IF polled \/ proc[daemon] = "zombie"
       THEN /\ polled' = TRUE /\ Goto(<<"read pid file">>) /\ UNCHANGED answer
            /\ proc' = IF polled THEN proc ELSE [proc EXCEPT ![daemon] = "gone"]
     ELSE Return(TRUE) /\ UNCHANGED <<proc, polled>>
  /\ UNCHANGED <<pidfile, datadir, daemon, mine, seen, warned, ncalls>>
ReadPidFile ==
  /\ InFrame("read pid file")
  /\ IF pidfile = None THEN Return(FALSE) /\ UNCHANGED <<daemon, polled, seen>>
     ELSE IF daemon # None THEN daemon' = None /\ polled' = FALSE /\ Goto(<<"running">>) /\ UNCHANGED <<answer, seen>>
     ELSE seen' = pidfile /\ Goto(<<"probe">>) /\ UNCHANGED <<daemon, polled, answer>>
  /\ UNCHANGED <<host, mine, warned, ncalls>>
Probe == InFrame("probe") /\ Return(Exists(proc[seen])) /\ UNCHANGED <<host, object, seen, warned, ncalls>>

\* stop(), shutdown(), kill(): the pid of the file, or else that of the process; ESRCH is ignored.
Signals == {"stop", "shutdown", "kill"}
ReadPid ==
  /\ frames # <<>> /\ Head(frames) \in Signals
  /\ seen' = IF pidfile # None THEN pidfile ELSE daemon
  /\ Goto(IF seen' = None THEN <<>> ELSE <<IF InFrame("kill") THEN "SIGKILL" ELSE "SIGTERM or SIGINT">>)
  /\ UNCHANGED <<host, object, answer, warned, ncalls>>
Signal ==
  /\ frames # <<>> /\ Head(frames) \in {"SIGKILL", "SIGTERM or SIGINT"} /\ Goto(<<>>)
  /\ proc' = IF proc[seen] \in Serving \cup {"foreign"} /\ (InFrame("SIGKILL") \/ proc[seen] \in {"new", "foreign"}) THEN Dead(seen)
             ELSE IF proc[seen] \in {"starting", "ready"} THEN [proc EXCEPT ![seen] = "stopping"] ELSE proc
  /\ UNCHANGED <<pidfile, datadir, object, answer, seen, warned, ncalls>>

\* Whether or not it is running.
PopenAnyway ==
  /\ InFrame("unless running")
  /\ \E p \in Pids : /\ proc[p] = "none" /\ proc' = [proc EXCEPT ![p] = "new"]
                      /\ daemon' = p /\ polled' = FALSE /\ mine' = mine \cup {p}
  /\ frames' = Tail(frames) /\ stopped' = FALSE /\ UNCHANGED raised
  /\ UNCHANGED <<pidfile, datadir, answer, seen, warned, ncalls>>
\* start(), once running() has answered.
Popen ==
  /\ InFrame("unless running")
  /\ IF answer THEN UNCHANGED <<proc, object>>
     ELSE \E p \in Pids : /\ proc[p] = "none" /\ proc' = [proc EXCEPT ![p] = "new"]
                          /\ daemon' = p /\ polled' = FALSE /\ mine' = mine \cup {p}
  /\ frames' = Tail(frames) /\ stopped' = (stopped /\ answer) /\ UNCHANGED raised
  /\ UNCHANGED <<pidfile, datadir, answer, seen, warned, ncalls>>

\* wait_until_started(): an error of the connection attempt may be raised, and the time may be over.
CheckStarting ==
  /\ InFrame("check starting")
  /\ IF answer THEN Goto(<<"running", "connect", "check started">>)
     ELSE Raise(IF daemon # None THEN "ClusterStartupError" ELSE "ClusterNotRunningError")
  /\ UNCHANGED <<host, object, answer, seen, warned, ncalls>>
Connect ==
  /\ InFrame("connect")
  /\ \/ Return(answer /\ \E p \in Pids : proc[p] = "ready")
     \/ answer /\ (\A p \in Pids : proc[p] # "ready") /\ Raise("CFError") /\ UNCHANGED answer
  /\ UNCHANGED <<host, object, seen, warned, ncalls>>
CheckStarted ==
  /\ InFrame("check started")
  /\ IF answer THEN Goto(<<>>) ELSE Goto(<<"running", "check starting">>) \/ Raise("timeout")
  /\ UNCHANGED <<host, object, answer, seen, warned, ncalls>>

\* wait_until_stopped(): os.kill(None, 0) is a TypeError, and that of a process that is gone an OSError.
CheckStopped ==
  /\ InFrame("check stopped")
  /\ IF ~answer THEN /\ frames' = Tail(frames) /\ stopped' = TRUE /\ UNCHANGED <<raised, proc, polled>>
     ELSE IF daemon # None
       THEN /\ polled' = (polled \/ proc[daemon] = "zombie")
            /\ proc' = IF ~polled /\ proc[daemon] = "zombie" THEN [proc EXCEPT ![daemon] = "gone"] ELSE proc
            /\ Goto(<<"running", "check stopped">>) \/ Raise("timeout")
     ELSE /\ UNCHANGED <<proc, polled>>
          /\ IF pidfile = None \/ ~Exists(proc[pidfile]) THEN Raise("error")
             ELSE Goto(<<"running", "check stopped">>) \/ Raise("timeout")
  /\ UNCHANGED <<pidfile, datadir, daemon, mine, answer, seen, warned, ncalls>>

CheckRestart ==
  \/ InFrame("restart running") /\ Goto((IF answer THEN <<"stop", "wait_until_stopped">> ELSE <<>>) \o <<"running", "restart stopped">>)
  \/ InFrame("restart stopped") /\ IF answer THEN Raise("ClusterError") ELSE Goto(<<"start", "wait_until_started">>)
Restart == CheckRestart /\ UNCHANGED <<host, object, answer, seen, warned, ncalls>>

\* drop()
CheckDrop ==
  \/ InFrame("drop running") /\ UNCHANGED warned
     /\ Goto(IF answer THEN <<"shutdown", "wait_until_stopped", "tried shutdown", "rmdir">> ELSE <<"rmdir">>)
  \/ InFrame("tried shutdown") /\ UNCHANGED <<stopped, warned>> /\ raised' = None
     /\ frames' = (IF raised = None THEN <<>> ELSE <<"kill", "wait_until_stopped", "tried kill">>) \o Tail(frames)
  \/ InFrame("tried kill") /\ warned' = (raised # None) /\ raised' = None /\ frames' = Tail(frames) /\ UNCHANGED stopped
Drop == CheckDrop /\ UNCHANGED <<host, object, answer, seen, ncalls>>
Rmdir ==
  /\ InFrame("rmdir") /\ Goto(<<>>) /\ datadir' = FALSE /\ pidfile' = None
  /\ UNCHANGED <<proc, object, answer, seen, warned, ncalls>>

Method ==
  \/ EnterMethod("start", <<"running", "unless running">>)
  \/ EnterMethod("wait_until_started", <<"running", "check starting">>)
  \/ EnterMethod("wait_until_stopped", <<"running", "check stopped">>)
  \/ EnterMethod("restart", <<"running", "restart running">>) \/ EnterMethod("drop", <<"running", "drop running">>)
  \/ Poll \/ ReadPidFile \/ Probe \/ ReadPid \/ Signal \/ Popen \/ CheckStarting \/ Connect \/ CheckStarted
  \/ CheckStopped \/ Restart \/ Drop \/ Rmdir

ClusterNext == HostStep \/ CallMethod \/ Method
ClusterSpec == ClusterInit /\ [][ClusterNext]_clusterVars

-----------------------------------------------------------------------------
(* Properties *)

\* Types: processes are in one of their states, and the pids of the file and of the handle are pids.
ClusterTypeOK ==
  /\ proc \in [Pids -> Serving \cup {"none", "gone", "zombie", "foreign"}]
  /\ pidfile \in Pids \cup {None} /\ daemon \in Pids \cup {None} /\ polled \in BOOLEAN /\ mine \subseteq Pids

\* However the pid file and the process table change under it, the object never loses the handle of a server it has
\* started while that server lives: so none of them lives when wait_until_stopped() has returned, or when drop() has
\* removed the data directory without its warning.
KeepsItsServer ==
  /\ \A p \in mine : proc[p] \in Serving => daemon = p
  /\ stopped \/ (~datadir /\ ~warned) => \A p \in mine : proc[p] \notin Serving
===============================================================================
