-------------------------------- MODULE Temporal --------------------------------
(***************************************************************************)
(* temporal.py: nested "with pg_tmp" blocks.  Each has a connection bound  *)
(* in builtins and a schema of its own, in a cluster made by the first     *)
(* block of the process and removed when the process ends.  A block may    *)
(* end with an exception or an interrupt, and each clean-up may fail.      *)
(***************************************************************************)
EXTENDS Common, Naturals, FiniteSets, SequencesExt, FiniteSetsExt

CONSTANTS
  Conn,         \* connections the server has room for (max_connections)
  MaxDepth,     \* bound: levels
  MaxMishaps    \* bound: blocks that end without their clean-up

\* Connections are numbered: NewConn is the least that is free.
ASSUME TemporalAssumption == Conn \subseteq Nat

VARIABLES
  bound,        \* builtins: what each name is, a connection standing for itself and its methods
  builtins_stack, \* its levels: their connection and those new() made
  previous,     \* its first entry: what builtins_keys were
  sandbox_id,
  cluster,      \* whether self.cluster is set
  pg,           \* the server: [running, directory]
  opened_conns, \* open connections -> the sandbox first in their search_path, 0 for none
  schemas,      \* the sandboxes in the database
  entered,      \* history: how many with blocks are being executed
  mishaps,      \* history: blocks that ended without their clean-up
  exited,       \* the process has exited
  had           \* history: what builtins_keys were at the beginning
temporalVars ==
  <<bound, builtins_stack, previous, sandbox_id, cluster, pg, opened_conns, schemas, entered, mishaps, exited, had>>
stackVars == <<bound, builtins_stack, previous, sandbox_id>>
serverVars == <<opened_conns, schemas>>
life == <<cluster, pg, exited, had>>

builtins_keys == {"db", "settings"}     \* for the nine: they are handled alike
Builtins == builtins_keys \cup {"new"}

\* Some of the names may be in use already.
TemporalInit ==
  /\ bound \in {b \in [Builtins -> {None, "user"}] : b.new = None}
  /\ builtins_stack = <<>> /\ previous = None /\ sandbox_id = 0
  /\ cluster = FALSE /\ pg = [running |-> FALSE, directory |-> FALSE]
  /\ opened_conns = << >> /\ schemas = {}
  /\ entered = 0 /\ mishaps = 0 /\ exited = FALSE /\ had = bound

Fresh == Conn \ DOMAIN opened_conns
Closing(cs, gone) == [c \in DOMAIN cs \ gone |-> cs[c]]
OfLevel(level) == <<level.db>> \o level.extras

-----------------------------------------------------------------------------
(* init() and destroy() *)

\* A directory that init() finds is dropped with its server.  One that init() fails on stays, and its server
\* too if it was started.
InitFails ==
  /\ ~cluster /\ ~exited
  /\ pg' \in {pg} \cup {s \in [running : BOOLEAN, directory : BOOLEAN] : s.running => s.directory}
  /\ UNCHANGED <<stackVars, cluster, serverVars, entered, mishaps, exited, had>>
ClusterInitialized ==
  /\ ~cluster /\ ~exited
  /\ cluster' = TRUE /\ pg' = [running |-> TRUE, directory |-> TRUE]
  /\ UNCHANGED <<stackVars, serverVars, entered, mishaps, exited, had>>

\* Open connections are not terminated (the name "cluster" is unbound where that is tried): a server that has
\* some does not stop in time, and the directory stays.
Destroy ==
  /\ ~exited /\ entered = 0
  /\ exited' = TRUE /\ cluster' = FALSE /\ opened_conns' = << >>
  /\ pg' = IF cluster THEN [running |-> FALSE, directory |-> DOMAIN opened_conns # {}] ELSE pg
  /\ UNCHANGED <<stackVars, schemas, entered, mishaps, had>>

-----------------------------------------------------------------------------
(* push() and pop() *)

Given == IF builtins_stack = <<>> THEN [k \in builtins_keys |-> bound[k]] ELSE previous
WithLevel(c) == Append(builtins_stack, [db |-> c, extras |-> <<>>])
WithConn(c, sandbox) == [x \in DOMAIN opened_conns \cup {c} |-> IF x = c THEN sandbox ELSE opened_conns[x]]
Push(c) ==
  /\ previous' = Given /\ builtins_stack' = WithLevel(c)
  /\ bound' = [k \in Builtins |-> c] /\ sandbox_id' = sandbox_id + 1

\* The names are given back to the level below, or to whoever had them.  Those that nobody had, not cleared:
RestoredByUpdate(names, stack, given) ==
  [k \in Builtins |-> IF stack # <<>> THEN Last(stack).db
                   ELSE IF k \in builtins_keys /\ given[k] # None THEN given[k] ELSE names[k]]
Restored(names, stack, given) ==
  [k \in Builtins |-> IF stack # <<>> THEN Last(stack).db ELSE IF k \in builtins_keys THEN given[k] ELSE names[k]]

\* The connections are closed one after the other, then the sandbox is dropped: an error leaves the rest.
CleanedUp(opened, mine, sandbox) ==
  \E n \in 0..Len(mine) : \E dropped \in BOOLEAN :
    /\ dropped => n = Len(mine) /\ sandbox \in schemas
    /\ opened_conns' = Closing(opened, ToSet(SubSeq(mine, 1, n)))
    /\ schemas' = schemas \ (IF dropped THEN {sandbox} ELSE {})
    /\ mishaps' = IF dropped \/ (n = Len(mine) /\ sandbox \notin schemas) THEN mishaps ELSE mishaps + 1

\* The level on top of a stack, after a block or __enter__() has ended with an exception, an interrupt or none.
Pop(stack, names, given, opened, sandbox, exc) ==
  /\ builtins_stack' = Front(stack) /\ sandbox_id' = sandbox - 1
  /\ bound' = Restored(names, Front(stack), given) /\ previous' = IF Len(stack) > 1 THEN given ELSE None
  /\ IF exc = "interrupt" THEN mishaps' = mishaps + 1 /\ opened_conns' = opened /\ UNCHANGED schemas
     ELSE CleanedUp(opened, OfLevel(Last(stack)), sandbox)
  /\ mishaps' <= MaxMishaps

-----------------------------------------------------------------------------
(* __enter__(), new() and __exit__() *)

CanEnter == cluster /\ ~exited /\ Len(builtins_stack) < MaxDepth /\ Fresh # {}
NewConn == Min(Fresh)

Enter ==
  /\ CanEnter /\ sandbox_id + 1 \notin schemas
  /\ Push(NewConn) /\ opened_conns' = WithConn(NewConn, sandbox_id')
  /\ schemas' = schemas \cup {sandbox_id'} /\ entered' = entered + 1
  /\ UNCHANGED <<life, mishaps>>

\* CREATE SCHEMA fails, for one if an interrupt has left the sandbox: pop() drops it.
EnterFails ==
  /\ CanEnter
  /\ Pop(WithLevel(NewConn), [k \in Builtins |-> NewConn], Given, WithConn(NewConn, 0), sandbox_id + 1, "exception")
  /\ UNCHANGED <<life, entered>>

\* An interrupt of its statements is not caught: the level stays.
EnterInterrupted ==
  /\ CanEnter /\ mishaps < MaxMishaps
  /\ Push(NewConn)
  /\ \/ opened_conns' = WithConn(NewConn, 0) /\ schemas' \in {schemas, schemas \cup {sandbox_id'}}
     \/ sandbox_id' \notin schemas /\ opened_conns' = WithConn(NewConn, sandbox_id') /\ schemas' = schemas \cup {sandbox_id'}
  /\ mishaps' = mishaps + 1
  /\ UNCHANGED <<life, entered>>

New ==
  /\ builtins_stack # <<>> /\ ~exited /\ Fresh # {}
  /\ builtins_stack' = [builtins_stack EXCEPT ![Len(builtins_stack)].extras = Append(@, NewConn)]
  /\ opened_conns' = WithConn(NewConn, sandbox_id)
  /\ UNCHANGED <<bound, previous, sandbox_id, life, schemas, entered, mishaps>>

Exit(exc) ==
  /\ entered > 0 /\ ~exited
  /\ Pop(builtins_stack, bound, previous, opened_conns, sandbox_id, exc) /\ entered' = entered - 1
  /\ UNCHANGED life

\* A connection that nothing refers to may be collected, which closes its socket.
Collect ==
  /\ ~exited
  /\ \E c \in DOMAIN opened_conns :
       /\ c # bound["new"] /\ \A i \in DOMAIN builtins_stack : c \notin ToSet(OfLevel(builtins_stack[i]))
       /\ opened_conns' = Closing(opened_conns, {c})
  /\ UNCHANGED <<stackVars, life, schemas, entered, mishaps>>

TemporalNext ==
  \/ InitFails \/ ClusterInitialized \/ Destroy \/ Enter \/ EnterFails \/ EnterInterrupted \/ New \/ Collect
  \/ \E exc \in {None, "exception", "interrupt"} : Exit(exc)

TemporalSpec == TemporalInit /\ [][TemporalNext]_temporalVars

-----------------------------------------------------------------------------
(* Properties *)

\* Types: the number of the sandbox is that of the levels.
TemporalTypeOK == sandbox_id = Len(builtins_stack) /\ DOMAIN opened_conns \subseteq Conn /\ (exited => ~cluster)

OfLevels == UNION {ToSet(OfLevel(builtins_stack[i])) : i \in DOMAIN builtins_stack}

\* However the blocks before have ended, the names belong to the block being executed, to the program's own
\* definitions outside of any; a level's connections are open until it ends and search its own sandbox; and
\* no connection or sandbox outlives its block, but for the blocks that an error or an interrupt kept from
\* cleaning up.
SandboxesEnd ==
  /\ \A k \in builtins_keys : bound[k] = IF builtins_stack = <<>> THEN had[k] ELSE Last(builtins_stack).db
  /\ ~exited => OfLevels \subseteq DOMAIN opened_conns
  /\ \A i \in DOMAIN builtins_stack : \A c \in ToSet(OfLevel(builtins_stack[i])) \cap DOMAIN opened_conns :
       opened_conns[c] = i \/ (opened_conns[c] = 0 /\ entered < Len(builtins_stack))
  /\ Cardinality(schemas \ 1..Len(builtins_stack)) <= mishaps
  /\ mishaps = 0 => /\ DOMAIN opened_conns = OfLevels /\ schemas = 1..entered
                    /\ entered = Len(builtins_stack)
===============================================================================
