------------------------ MODULE ProtocolConnection ------------------------
(***************************************************************************)
(* psc/postgresql/protocol/client3.py: the connection that drives one      *)
(* protocol transaction at a time over its socket, with the methods of     *)
(* driver/pq3.py its callers use (_pq_push, _pq_step, _pq_complete, close) *)
(* and a PostgreSQL server at the other end, which is external and answers *)
(* as the message flow of protocol version 3.0 prescribes.                 *)
(*                                                                         *)
(* Control is with the caller (pc = "idle") or inside one of the methods.  *)
(* A recv gets any non-empty part of what the server has sent.             *)
(***************************************************************************)
EXTENDS Instruction, FiniteSets

CONSTANTS
  Batches,          \* the batches the driver pushes: sequences of types
  QueryResults,     \* what a Query may return: sequences of types
  ExecuteResults,   \* what an Execute may return
  Payloads,         \* contents of notifications
  Repeated,         \* TRUE where two notifications or notices can be equal
  EarlyCopyErrors,  \* TRUE where a COPY FROM STDIN can fail before its data
  MaxXacts,         \* bound on the transactions
  MaxChunks,        \* bound on the chunks of COPY data sent
  MaxGarbage,       \* bound on the statements and cursors collected
  MaxNotifies,      \* bound on the notifications
  MaxFaults         \* bound on the ends of the server process

ASSUME ConnectionAssumption ==
  /\ Batches \subseteq Seq(DOMAIN hook)
  /\ MaxXacts \in Nat /\ MaxChunks \in Nat /\ MaxGarbage \in Nat
  /\ MaxNotifies \in Nat /\ MaxFaults \in Nat
  /\ Optimized \in BOOLEAN /\ EarlyCopyErrors \in BOOLEAN /\ Repeated \in BOOLEAN

\* What pq3.py pushes: a Query, or the commands of a statement or cursor and
\* one Synchronize behind them.
Pushable(batch) ==
  \/ batch = <<"Query">>
  \/ /\ batch # <<>> /\ Last(batch) = "Synchronize"
     /\ \A i \in 1 .. Len(batch) - 1 :
          batch[i] \in {"Parse", "Bind", "Describe", "Close", "Execute"}

\* types is a result of a command of this type: it goes from step to step of
\* its hook and comes to last with its end, or begins a COPY FROM STDIN there.
CanReturn(type, types, last) ==
  \E step \in [0 .. Len(types) -> {End} \cup 0 .. 3] :
    /\ step[0] = 0
    /\ \A i \in DOMAIN types :
         /\ step[i - 1] # End
         /\ \/ types[i] \in AsynchronousMap /\ step[i] = step[i - 1]
            \/ /\ types[i] \in DOMAIN hook[type][step[i - 1] + 1]
               /\ step[i] = hook[type][step[i - 1] + 1][types[i]]
         /\ types[i] = "CopyFromBegin" => i = Len(types)
    /\ \/ step[Len(types)] = last
       \/ types # <<>> /\ Last(types) = "CopyFromBegin"

\* A COPY FROM STDIN is run by execute, or by a batch that ends with the
\* Execute and a Synchronize.
CopiesAlone ==
  (\E types \in ExecuteResults : types # <<>> /\ Last(types) = "CopyFromBegin") =>
    \A batch \in Batches : \A i \in 1 .. Len(batch) - 2 : batch[i] # "Execute"

\* The types of the messages that answer commands: those hook has a step for.
Replies == {"TupleDescriptor", "Null", "Complete", "CopyToBegin", "CopyFromBegin",
            "Ready", "CopyData", "CopyDone", "Tuple", "ParseComplete", "BindComplete",
            "AttributeTypes", "NoData", "CloseComplete", "Suspension", "FunctionResult"}

ASSUME ProtocolAssumption ==
  /\ \A batch \in Batches : Pushable(batch)
  /\ QueryResults \cup ExecuteResults \subseteq Seq(Replies \cup AsynchronousMap)
  /\ \A types \in QueryResults : CanReturn("Query", types, 0)
  /\ \A types \in ExecuteResults : CanReturn("Execute", types, End)
  /\ CopiesAlone

\* Where no two asynchronous messages are equal, a result has one of a kind at
\* most, and no notification that answers a command.
ASSUME AsyncAssumption ==
  ~ Repeated =>
    /\ \A types \in QueryResults \cup ExecuteResults : \A i, j \in DOMAIN types :
         types[i] \in AsynchronousMap /\ types[i] = types[j] => i = j
    /\ \A payload \in Payloads : payload \notin Nat \X Nat

\* What the client itself says of a broken transaction.
ClientErrors == {"connection", "unexpected EOF", "protocol violation",
                 "operation on closed connection"}

\* The values of a protocol transaction.
Transactions ==
  [number : Nat, commands : Seq([type : DOMAIN hook \cup {"Disconnect"}, id : Nat \X Nat]),
   offset : Nat, step : 0 .. 3,
   completed : Seq([command : Nat \X Nat,
                    reply : [type : Replies, of : Nat \X Nat, tx : {"I", "T", "E", None}]]),
   state : States, messages : MessageSets,
   reissued : Seq([type : DOMAIN hook, id : Nat \X Nat]), fatal : {Fatal, NotFatal, None},
   error_message : [type : {"Error", "FatalError", "ClientError"},
                    of : (Nat \X Nat) \cup {<<text>> : text \in ClientErrors} \cup {None},
                    tx : {None}] \cup {None},
   last_ready : {"I", "T", "E", None}]

\* None is no other value.
ASSUME NoneAssumption ==
  /\ None \notin BOOLEAN /\ None \notin Nat /\ None \notin Transactions
  /\ None \notin {"I", "T", "E"} /\ None \notin {"complete", "return", "close"}
  /\ None \notin {"_pq_push", "_pq_complete", "take_out_trash", "synchronize",
                  "synchronized", "close"}

VARIABLES
  xact, read, state, socket, garbage,   \* attributes of client3.Connection
  pc, then, pushing, runs,              \* where the methods of pq3 are
  toServer, toClient, server, faults,   \* the wire and its other end
  made, chunks, failed, reported, swallowed, killed, notified, heard \* history

(* then: the caller of complete(); pushing: the transaction given to push; *)
(* runs: what follows the push.  made, chunks: counts that bound the model. *)
(* failed: transactions the server reported an error for; reported: those  *)
(* whose error was raised; swallowed: those completed without raising it,  *)
(* and for whom; killed: those whose error was fatal; notified, heard:     *)
(* asynchronous messages sent by the server and given to asynchook.        *)

connVars   == <<xact, read, state, socket, garbage>>
callVars   == <<pc, then, pushing, runs>>
serverVars == <<server, faults>>
boundVars  == <<made, chunks>>
errorVars  == <<failed, reported, swallowed, killed>>
asyncVars  == <<notified, heard>>
vars == <<connVars, callVars, toServer, toClient, serverVars, boundVars,
          errorVars, asyncVars>>

Init ==
  /\ xact = None /\ read = <<>> /\ state = "I" /\ socket = "open" /\ garbage = 0
  /\ pc = "idle" /\ then = None /\ pushing = None /\ runs = None
  /\ toServer = <<>> /\ toClient = <<>> /\ faults = 0
  /\ server = [mode |-> "ready", tx |-> "I", by |-> None]
  /\ made = 0 /\ chunks = 0
  /\ failed = {} /\ reported = {} /\ swallowed = {}
  /\ killed = {}
  /\ notified = <<>> /\ heard = <<>>

-----------------------------------------------------------------------------
(* The server.  mode: "ready", "skip" (after an error, until a             *)
(* Synchronize), "copyin" and "copyin_synced" (in a COPY FROM STDIN begun  *)
(* by the command by, before and after it has read the Synchronize of the  *)
(* batch, which it ignores), "gone".                                       *)

CopyIn == {"copyin", "copyin_synced"}

Reply(c, type, tx) ==
  [type |-> type, of |-> c.id, tx |-> IF type = "Ready" THEN tx ELSE None]

Results(c) ==
  CASE c.type = "Query"    -> QueryResults
    [] c.type = "Execute"  -> ExecuteResults
    [] c.type = "Parse"    -> { <<"ParseComplete">> }
    [] c.type = "Bind"     -> { <<"BindComplete">> }
    [] c.type = "Describe" -> { <<"AttributeTypes", "TupleDescriptor">>,
                                <<"AttributeTypes", "NoData">> }
    [] c.type = "Close"    -> { <<"CloseComplete">> }
    [] c.type = "Function" -> { <<"FunctionResult">> }
    [] OTHER               -> { << >> }

Answer(c, types, tx, mode, by) ==
  [out |-> [i \in DOMAIN types |-> Reply(c, types[i], tx)],
   server |-> [mode |-> mode, tx |-> tx, by |-> by]]

\* The end of a command that has no Synchronize after it.
Ended(c, types) ==
  IF c.type \in ImplySync \cup {"Synchronize"} THEN Append(types, "Ready") ELSE types

\* BEGIN, COMMIT and ROLLBACK are statements as others; a failed block
\* accepts its end only.
Succeeds(c, types) ==
  IF types # <<>> /\ Last(types) = "CopyFromBegin"
  THEN IF server.tx = "E" THEN {} ELSE {Answer(c, types, server.tx, "copyin", c)}
  ELSE {Answer(c, Ended(c, types), tx, "ready", None) :
          tx \in IF c.type \notin {"Query", "Execute"} THEN {server.tx}
                 ELSE IF server.tx # "E" THEN {"I", "T"}
                 ELSE IF types = <<"Complete">> THEN {"I"} ELSE {} }

Fails(c, types) ==
  Answer(c, Ended(c, Append(types, "Error")),
         IF server.tx = "I" THEN "I" ELSE "E",
         IF c.type \in ImplySync THEN "ready" ELSE "skip", None)

\* A statement can fail after any part of its result.
ReadyAnswers(c) ==
  (UNION {Succeeds(c, types) : types \in Results(c)})
    \cup IF c.type \in {"Synchronize", "Flush"} THEN {}
         ELSE UNION {{Fails(c, p) : p \in Prefixes(types) \ {types}} : types \in Results(c)}

Silently(mode) == [out |-> <<>>, server |-> [server EXCEPT !.mode = mode]]

Answers(c) ==
  CASE c.type = "Disconnect" -> {Silently("gone")}
    [] c.type # "Disconnect" /\ server.mode = "skip" ->
         IF c.type = "Synchronize" THEN ReadyAnswers(c) ELSE {Silently("skip")}
    [] c.type # "Disconnect" /\ server.mode \in CopyIn ->
         CASE c.type \in {"Synchronize", "Flush"} -> {Silently("copyin_synced")}
           [] c.type = "CopyData" -> {Silently(server.mode), Fails(server.by, <<>>)}
           [] c.type = "CopyDone" -> Succeeds(server.by, <<"Complete">>)
                                       \cup {Fails(server.by, <<>>)}
           [] OTHER               -> {Fails(server.by, <<>>)}
    [] OTHER ->
         IF c.type \in {"CopyData", "CopyDone", "CopyFail"} THEN {Silently("ready")}
         ELSE ReadyAnswers(c)

IsAsync(m) == m.type \in AsynchronousMap

\* SelectSeq(s, IsAsync), in the form that can be reasoned about.
Asyncs(s) ==
  LET of[n \in 0 .. Len(s)] == IF n = 0 THEN <<>>
                              ELSE IF IsAsync(s[n]) THEN Append(of[n - 1], s[n]) ELSE of[n - 1]
  IN  of[Len(s)]

Respond(a) ==
  /\ server' = a.server
  /\ toClient' = toClient \o a.out
  /\ notified' = notified \o Asyncs(a.out)
  /\ failed' = failed \cup {m.of[1] : m \in {r \in ToSet(a.out) : r.type = "Error"}}

ServerStep ==
  /\ server.mode # "gone" /\ toServer # <<>>
  /\ \E a \in Answers(Head(toServer)) : Respond(a)
  /\ toServer' = Tail(toServer)
  /\ UNCHANGED <<connVars, callVars, faults, boundVars, reported, swallowed,
                 killed, heard>>

\* A trigger or a cancel fails the COPY before any of its data was read.
CopyFailsEarly ==
  /\ EarlyCopyErrors /\ server.mode = "copyin"
  /\ Respond(Fails(server.by, <<>>))
  /\ UNCHANGED <<connVars, callVars, toServer, faults, boundVars, reported,
                 swallowed, killed, heard>>

SendNotify ==
  /\ server.mode = "ready" /\ Len(notified) < MaxNotifies
  /\ \E payload \in Payloads :
       LET m == [type |-> "Notify", of |-> payload, tx |-> None]
       IN  /\ toClient' = Append(toClient, m)
           /\ notified' = Append(notified, m)
           /\ Repeated \/ m \notin ToSet(notified)
  /\ UNCHANGED <<connVars, callVars, toServer, serverVars, boundVars, errorVars, heard>>

\* The server process ends: told to, with a last message, or by a crash,
\* which may lose what was on its way.
ServerEnds ==
  /\ server.mode # "gone" /\ faults < MaxFaults
  /\ faults' = faults + 1
  /\ server' = [server EXCEPT !.mode = "gone"]
  /\ toServer' = <<>>
  /\ \/ toClient' = Append(toClient, [type |-> "FatalError", of |-> None, tx |-> None])
     \/ \E n \in 0 .. Len(toClient) : toClient' = SubSeq(toClient, 1, n)
  /\ UNCHANGED <<connVars, callVars, boundVars, errorVars, asyncVars>>

-----------------------------------------------------------------------------
(* The socket: "open", "broken" once a send has failed, "closed".  When    *)
(* the server is gone, a send is accepted and lost, or fails, and so will  *)
(* all later ones; a recv gets what has arrived, then the end.             *)

\* write_messages succeeds.
Written(x) ==
  /\ socket = "open"
  /\ toServer' = IF server.mode = "gone" THEN toServer ELSE toServer \o Wire(x)
  /\ UNCHANGED socket

\* write_messages has marked the transaction and returned False.
WriteFails(x) ==
  /\ socket # "open" \/ (server.mode = "gone" /\ Wire(x) # <<>>)
  /\ socket' = IF socket = "open" THEN "broken" ELSE socket
  /\ UNCHANGED toServer

\* read_messages: what an earlier transaction left of a group comes first.
Groups ==
  IF read # <<>> THEN {read}
  ELSE {SubSeq(toClient, 1, n) : n \in 1 .. Len(toClient)}

Unread(group) ==
  IF read # <<>> THEN toClient ELSE SubSeq(toClient, Len(group) + 1, Len(toClient))

AtEOF == read = <<>> /\ toClient = <<>> /\ (server.mode = "gone" \/ socket = "closed")

\* self.read = self.read[op(self.read):]
Took(r, group) ==
  /\ read' = SubSeq(group, r.count + 1, Len(group))
  /\ toClient' = Unread(group)
  /\ heard' = heard \o r.heard

LastReadyOrNone(x) == x.last_ready
LastReadyForgotten(x) == state
LastReady(x) == IF x.last_ready # None THEN x.last_ready ELSE state

KeptNever(x) == None
\* Only remove the transaction if it is not fatal.
Kept(x) == IF x.fatal = Fatal THEN x ELSE None

-----------------------------------------------------------------------------
(* complete() *)

CompleteSend ==
  /\ pc = "complete" /\ xact.state \in Sending
  /\ \/ Written(xact) /\ xact' = sent(xact.state, xact)
     \/ WriteFails(xact) /\ xact' = Broken(xact, "connection")
  /\ UNCHANGED <<read, state, garbage, callVars, toClient, serverVars,
                 boundVars, errorVars, asyncVars>>

CompleteReceive ==
  /\ pc = "complete" /\ xact.state \in Receiving
  /\ \/ \E group \in Groups :
          LET r == put(xact.state, xact, group)
          IN  xact' = r.xact /\ Took(r, group)
     \/ /\ AtEOF
        /\ xact' = Broken(xact, "unexpected EOF")
        /\ UNCHANGED <<read, toClient, heard>>
  /\ UNCHANGED <<state, socket, garbage, callVars, toServer, serverVars,
                 boundVars, errorVars, notified>>

\* The end of complete(), called by caller.
Completed(caller) ==
  /\ pc = "complete" /\ then = caller /\ xact.state = "Complete"
  /\ state' = LastReady(xact)

\* The error of a completed transaction is raised, or nobody looks at it.
Errors(x, fatal) == {n \in {x.number} : x.state = "Complete" /\ x.fatal \in fatal}
RaisedFatal(x) ==
  /\ reported' = reported \cup Errors(x, {Fatal})
  /\ killed' = killed \cup Errors(x, {Fatal})
  /\ UNCHANGED <<failed, swallowed>>
Raised(x) ==
  /\ reported' = reported \cup Errors(x, {Fatal, NotFatal})
  /\ killed' = killed \cup Errors(x, {Fatal})
  /\ UNCHANGED <<failed, swallowed>>
Ignored(x) ==
  /\ swallowed' = swallowed \cup ({then} \X Errors(x, {Fatal, NotFatal}))
  /\ killed' = killed \cup Errors(x, {Fatal})
  /\ UNCHANGED <<failed, reported>>

Begin(caller) == pc' = "complete" /\ then' = caller
Goto(label)   == pc' = label /\ then' = None
Return        == Goto("idle") /\ pushing' = None /\ runs' = None

NewXact(x) == made' = made + 1 /\ xact' = x
Batch(types) == NewInstruction(made + 1,
                  [i \in DOMAIN types |-> [type |-> types[i], id |-> <<made + 1, i>>]])

wire == <<toServer, toClient, serverVars>>

-----------------------------------------------------------------------------
(* _pq_push, push, take_out_trash, step *)

\* _pq_push finishes the transaction before; its error drops the new one.
PqPush(x, next) ==
  /\ pushing' = x /\ runs' = next
  /\ IF xact # None THEN Begin("_pq_push") ELSE Goto("push")

\* runs: execute and first complete what they push, Statement._init, the
\* streams and load_chunks return.
Push(types, next) ==
  /\ pc = "idle" /\ made < MaxXacts
  /\ made' = made + 1
  /\ PqPush(Batch(types), next)
  /\ UNCHANGED <<connVars, wire, chunks, errorVars, asyncVars>>

PreviousCompleted ==
  /\ Completed("_pq_push")
  /\ xact' = Kept(xact) /\ Raised(xact)
  /\ IF xact.fatal # None THEN Return
     ELSE Goto("push") /\ UNCHANGED <<pushing, runs>>
  /\ UNCHANGED <<read, socket, garbage, wire, boundVars, asyncVars>>

\* take_out_trash has to be done before a new transaction is pushed.
TakeOutTrash ==
  /\ pc = "push" /\ xact = None /\ garbage > 0
  /\ NewXact(Batch([i \in 1 .. garbage + 1 |->
                      IF i <= garbage THEN "Close" ELSE "Synchronize"]))
  /\ garbage' = 0
  /\ Begin("take_out_trash")
  /\ UNCHANGED <<read, state, socket, pushing, runs, wire, chunks, errorVars, asyncVars>>

TrashTakenOut ==
  /\ Completed("take_out_trash")
  /\ xact' = Kept(xact) /\ Ignored(xact)
  /\ Goto(IF Kept(xact) = None THEN "start" ELSE "pushed")
  /\ UNCHANGED <<read, socket, garbage, pushing, runs, wire, boundVars, asyncVars>>

\* The end of step().
Stepped(x) == IF x.state = "Complete" THEN Kept(x) ELSE x

\* step() of a sending transaction does not look at what write_messages
\* returns; op is read before it.
SendStep(x, y) ==
  \/ Written(x) /\ y = sent(x.state, x)
  \/ WriteFails(x) /\ y = sent(x.state, Broken(x, "connection"))

\* Set it as the current transaction and start it up.
Start ==
  /\ pc = "start" \/ (pc = "push" /\ garbage = 0)
  /\ \E y \in {sent(pushing.state, x) : x \in {pushing, Broken(pushing, "connection")}} :
       SendStep(pushing, y) /\ xact' = Stepped(y)
  /\ Goto("pushed")
  /\ UNCHANGED <<read, state, garbage, pushing, runs, toClient, serverVars,
                 boundVars, errorVars, asyncVars>>

Pushed ==
  /\ pc = "pushed" /\ runs # "close"
  /\ pushing' = None /\ runs' = None
  /\ IF runs = "complete" THEN Begin("_pq_complete") ELSE Goto("idle")
  /\ UNCHANGED <<connVars, wire, boundVars, errorVars, asyncVars>>

-----------------------------------------------------------------------------
(* _pq_complete, _pq_step, and the COPY data of _load_copy_chunks.         *)

PqComplete ==
  /\ pc = "idle" /\ xact # None
  /\ Begin("_pq_complete")
  /\ UNCHANGED <<connVars, pushing, runs, wire, boundVars, errorVars, asyncVars>>

PqCompleted ==
  /\ Completed("_pq_complete")
  /\ xact' = Kept(xact) /\ Raised(xact)
  /\ Return
  /\ UNCHANGED <<read, socket, garbage, wire, boundVars, asyncVars>>

\* The callers of step leave the end of a COPY FROM STDIN to complete.
PqStepSend ==
  /\ pc = "idle" /\ xact # None /\ xact.state \in Sending
  /\ xact.messages \notin {"done", "fail"}
  /\ \E y \in {sent(xact.state, x) : x \in {xact, Broken(xact, "connection")}} :
       /\ SendStep(xact, y) /\ xact' = Stepped(y)
       /\ Raised(y)
  /\ UNCHANGED <<read, state, garbage, callVars, toClient, serverVars,
                 boundVars, asyncVars>>

\* What read_messages returns is not looked at either: at the end of the
\* stream the operation is given nothing.
PqStepReceive ==
  /\ pc = "idle" /\ xact # None /\ xact.state \in Receiving
  /\ \E group \in Groups \cup {g \in { <<>> } : AtEOF} :
       LET x == IF group = <<>> THEN Broken(xact, "unexpected EOF") ELSE xact
           r == put(xact.state, x, group)
       IN  /\ Took(r, group)
           /\ IF r.raised
              THEN xact' = x /\ UNCHANGED <<state, errorVars>>
              ELSE /\ xact' = Stepped(r.xact) /\ state' = LastReady(r.xact)
                   /\ Raised(r.xact)
  /\ UNCHANGED <<socket, garbage, callVars, toServer, serverVars, boundVars, notified>>

\* push has dropped the transaction because taking out the trash killed the
\* connection; FetchAll and _load_copy_chunks, which look at the state of
\* theirs, step what is there: a RuntimeError, a dead transaction has no
\* direction.
StepDropped ==
  /\ pc = "pushed" /\ runs = "return" /\ xact.number # pushing.number
  /\ Return
  /\ UNCHANGED <<connVars, wire, boundVars, errorVars, asyncVars>>

\* The caller of a COPY FROM STDIN binds messages anew.
SetMessages(messages) ==
  /\ pc = "idle" /\ xact # None
  /\ xact.state = "sent_from_stdin" /\ xact.messages = "fail"
  /\ messages = "chunk" => chunks < MaxChunks
  /\ chunks' = IF messages = "chunk" THEN chunks + 1 ELSE chunks
  /\ xact' = [xact EXCEPT !.messages = messages]
  /\ UNCHANGED <<read, state, socket, garbage, callVars, wire, made, errorVars, asyncVars>>

-----------------------------------------------------------------------------
(* synchronize, which replaces the transaction whatever became of it, and  *)
(* close.                                                                  *)

Synchronize ==
  /\ pc = "idle" /\ made < MaxXacts
  /\ IF xact = None
     THEN NewXact(Batch(<<"Synchronize">>)) /\ Begin("synchronized")
     ELSE UNCHANGED <<xact, made>> /\ Begin("synchronize")
  /\ UNCHANGED <<read, state, socket, garbage, pushing, runs, wire, chunks,
                 errorVars, asyncVars>>

BeforeSynchronize ==
  /\ Completed("synchronize")
  /\ Ignored(xact)
  /\ NewXact(Batch(<<"Synchronize">>)) /\ Begin("synchronized")
  /\ UNCHANGED <<read, socket, garbage, pushing, runs, wire, chunks, asyncVars>>

Synchronized ==
  /\ Completed("synchronized")
  /\ Ignored(xact) /\ xact' = Kept(xact)
  /\ Return
  /\ UNCHANGED <<read, socket, garbage, wire, boundVars, asyncVars>>

Close ==
  /\ pc = "idle" /\ socket # "closed"
  /\ IF xact # None /\ xact.fatal # Fatal
     THEN Begin("close") /\ UNCHANGED <<pushing, runs, made>>
     ELSE IF xact = None
     THEN Goto("push") /\ pushing' = NewClosing(made + 1) /\ runs' = "close" /\ made' = made + 1
     ELSE Goto("pushed") /\ runs' = "close" /\ UNCHANGED <<pushing, made>>
  /\ UNCHANGED <<connVars, wire, chunks, errorVars, asyncVars>>

BeforeClose ==
  /\ Completed("close")
  /\ Ignored(xact) /\ xact' = Kept(xact)
  /\ IF Kept(xact) = None
     THEN Goto("push") /\ pushing' = NewClosing(made + 1) /\ runs' = "close" /\ made' = made + 1
     ELSE Goto("pushed") /\ runs' = "close" /\ UNCHANGED <<pushing, made>>
  /\ UNCHANGED <<read, socket, garbage, wire, chunks, asyncVars>>

\* The transaction is complete here: complete() has nothing left to do.
CloseSocket ==
  /\ pc = "pushed" /\ runs = "close"
  /\ socket' = "closed"
  /\ toClient' = <<>>
  /\ Return
  /\ UNCHANGED <<xact, read, state, garbage, toServer, serverVars, boundVars,
                 errorVars, asyncVars>>

\* A weak reference dies: trash_cursor or trash_statement, anywhere.
Trash ==
  /\ garbage < MaxGarbage
  /\ garbage' = garbage + 1
  /\ UNCHANGED <<xact, read, state, socket, callVars, wire, boundVars, errorVars, asyncVars>>

-----------------------------------------------------------------------------
Connection ==
  \/ CompleteSend \/ CompleteReceive
  \/ PreviousCompleted \/ TakeOutTrash \/ TrashTakenOut \/ Start \/ Pushed
  \/ PqCompleted \/ BeforeSynchronize \/ Synchronized
  \/ BeforeClose \/ CloseSocket

Caller ==
  \/ \E types \in Batches, next \in {"complete", "return"} : Push(types, next)
  \/ PqComplete \/ PqStepSend \/ PqStepReceive \/ StepDropped
  \/ \E messages \in {"chunk", "done"} : SetMessages(messages)
  \/ Synchronize \/ Close \/ Trash

Server == ServerStep \/ CopyFailsEarly \/ ServerEnds

Next == Connection \/ Caller \/ Server \/ SendNotify

\* No call waits for a notification that comes between transactions.
NextUnnotified == Connection \/ Caller \/ Server

\* The methods run on, and the server works off what it was sent; the caller
\* need not call anything.
Fairness == WF_vars(Connection) /\ WF_vars(ServerStep)

Spec == Init /\ [][Next]_vars
FairSpec == Init /\ [][NextUnnotified]_vars /\ Fairness

-----------------------------------------------------------------------------
(* Properties *)

\* Types of the connection (client3.Connection.__init__) and of the methods;
\* a transaction that is receiving has a command its replies are for.
ConnTypeOK ==
  /\ state \in {"I", "T", "E"} /\ socket \in {"open", "broken", "closed"}
  /\ garbage \in Nat /\ faults \in Nat
  /\ pc \in {"idle", "complete", "push", "start", "pushed"}
  /\ then \in {"_pq_push", "_pq_complete", "take_out_trash", "synchronize",
               "synchronized", "close", None}
  /\ (then # None) = (pc = "complete")
  /\ pc \in {"push", "start"} => pushing # None
  /\ pushing # None => pc # "idle" /\ pushing \in Transactions
  /\ server.mode \in {"ready", "skip", "copyin", "copyin_synced", "gone"}
  /\ pc = "complete" => xact # None
  /\ xact # None =>
       /\ xact \in Transactions
       /\ xact.state \in Receiving => xact.offset \in 1 .. Len(xact.commands)

\* Control is with the caller and the connection can take a transaction.
Usable == pc = "idle" /\ xact = None

\* Instruction "takes the response messages for order and integrity
\* validation": each reply is processed for the command it answers, however
\* the replies are grouped and whatever failed before (xact3.standard_put,
\* client3.complete).
RepliesMatch ==
  xact # None =>
    /\ \A i \in DOMAIN xact.completed :
         xact.completed[i].reply.of = xact.completed[i].command
    /\ xact.error_message # None /\ xact.error_message.type = "Error" =>
         xact.error_message.of[1] = xact.number

\* When a transaction is over without a fatal error, client and server are in
\* step: every command was worked off, but for COPY data sent after the server
\* gave up the COPY, which it ignores, and every reply was read.
InSync ==
  Usable =>
    /\ server.mode \in {"ready", "gone"}
    /\ \A c \in ToSet(toServer) : c.type \in {"CopyData", "CopyDone", "CopyFail"}
    /\ \A m \in ToSet(read \o toClient) : IsAsync(m) \/ m.type = "FatalError"

\* Connection.state, from which pq3 decides whether a transaction block is
\* open, is the server's status then.
StateAgrees == Usable /\ server.mode = "ready" => state = server.tx

\* No error of the server is forgotten by _pq_push, _pq_step and _pq_complete:
\* it was raised, or synchronize, close or take_out_trash completed the
\* transaction.
ErrorsReported == Usable => failed \subseteq reported \cup {p[2] : p \in swallowed}

\* "fatal is True == dead connection" (pq3.FetchAll.__next__): after a fatal
\* error, or close, the connection never takes a transaction again.
DeadStaysDead == Usable => killed = {} /\ socket = "open"

\* Both: whatever fails, the caller is told, and no dead connection is used.
FailuresKnown == ErrorsReported /\ DeadStaysDead

\* Every notification and notice reaches asynchook once, in the order of the
\* server, through standard_put and the fast paths (or is still unread).
NotificationsComplete ==
  Usable /\ server.mode = "ready" =>
    Asyncs(heard \o read \o toClient) = notified

\* Every method comes back to its caller, the server's end included: complete()
\* never waits for a reply that is not coming.
CallsReturn == pc # "idle" ~> pc = "idle"
=============================================================================
