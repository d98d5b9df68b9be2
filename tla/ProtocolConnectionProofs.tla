--------------------- MODULE ProtocolConnectionProofs ---------------------
(***************************************************************************)
(* Theorems about the protocol connection (ProtocolConnection): for every  *)
(* set of batches and results the assumptions of that module allow, any    *)
(* grouping of the server's messages, any number of transactions, chunks,  *)
(* notifications, garbage and ends of the server, a reply is processed for *)
(* the command it answers, client and server are in step and agree on the  *)
(* transaction status when a transaction is over, and no error and no      *)
(* asynchronous message is lost.                                           *)
(*                                                                         *)
(* The inductive invariant is Inv: its heart is Live, of the lemmas about  *)
(* one transaction (ProtocolTransactionProofs).  Of the asynchronous       *)
(* messages it is Inv and AsyncInv.                                        *)
(*                                                                         *)
(* The theorems assume that a COPY FROM STDIN does not fail before its     *)
(* data is read (EarlyCopyErrors): where it does, a run shows that the     *)
(* server answers with one Ready more than the transaction takes.          *)
(***************************************************************************)
EXTENDS ProtocolTransactionProofs

-----------------------------------------------------------------------------
(* The inductive invariant.                                                *)

Inbox == read \o toClient
Told == reported \cup {p[2] : p \in swallowed}

\* The connection was lost, or a fatal error seen.
Doomed == socket # "open" \/ killed # {}
\* A batch of the connection's own is about to be sent.
Opening == pc = "complete" /\ then \in {"take_out_trash", "synchronized"}
\* close is about to close the socket.
Leaving == pc = "pushed" /\ runs = "close"
\* The transaction given to push is yet to be started.
Pushing == pc \in {"push", "start"} \/ (pc = "complete" /\ then \in {"_pq_push", "take_out_trash"})

Idle ==
  /\ Settled(Inbox, toServer, server) /\ ~ Doomed
  /\ server.mode = "ready" => state = server.tx
Dead ==
  /\ xact.state = "Complete" /\ xact.fatal = Fatal /\ Resting(toServer, server)
  /\ Leaving \/ socket # "open" \/ Over(Inbox, toServer, server)
Starting ==
  /\ Opening /\ Fresh(xact, failed) /\ Resting(toServer, server)
  /\ socket = "open" => Settled(Inbox, toServer, server)
  /\ Doomed => socket # "open" \/ Over(Inbox, toServer, server)
Lives ==
  /\ Live(xact, Inbox, toServer, server, failed)
  /\ Doomed => xact.state \in Receiving /\ Quiet(Inbox) /\ server.mode = "gone"
StateInv ==
  IF xact = None THEN Idle ELSE Matched(xact) /\ (Dead \/ Starting \/ Lives)

WireInv ==
  /\ read \in Seq(Messages) /\ toClient \in Seq(Messages) /\ toServer \in Seq(Sendables) /\ server \in Servers
  /\ FatalLast(Inbox, server)

Labels == {"idle", "complete", "push", "start", "pushed"}
Callers == {"_pq_push", "_pq_complete", "take_out_trash", "synchronize", "synchronized", "close"}
CallInv ==
  /\ state \in Statuses /\ socket \in {"open", "broken", "closed"}
  /\ garbage \in Nat /\ faults \in Nat /\ made \in Nat
  /\ pc \in Labels /\ then \in Callers \cup {None} /\ (pc = "complete" <=> then # None)
  /\ xact # None => xact \in Transactions
  /\ pushing # None => pc # "idle" /\ pushing \in Transactions
  /\ pc \in {"complete", "pushed"} => xact # None
  /\ pc \in {"push", "start"} => xact = None
  /\ Leaving => xact.fatal = Fatal

PushInv ==
  Pushing =>
    /\ pushing # None /\ pushing.number <= made /\ (xact # None => xact.number # pushing.number)
    /\ \/ Fresh(pushing, failed) /\ runs # "close"
       \/ Closing(pushing, failed) /\ runs = "close"

NumberInv ==
  /\ \A n \in failed : n \in Nat /\ n <= made
  /\ failed \subseteq Told \cup {n \in failed : xact # None /\ n = xact.number}
  /\ xact # None => xact.number <= made

Inv == WireInv /\ CallInv /\ PushInv /\ NumberInv /\ StateInv

LEMMA InitInv == Init => Inv
<1> SUFFICES ASSUME Init PROVE Inv
  OBVIOUS
<1>1. /\ read = <<>> /\ toClient = <<>> /\ toServer = <<>> /\ Inbox = <<>>
      /\ xact = None /\ socket = "open" /\ killed = {} /\ failed = {} /\ state = "I"
      /\ pc = "idle" /\ then = None /\ pushing = None /\ garbage = 0 /\ faults = 0 /\ made = 0
      /\ server = [mode |-> "ready", tx |-> "I", by |-> None]
  BY DEF Init, Inbox
<1>2. Len(<<>>) = 0
  BY EmptySeq
<1>3. server \in Servers /\ server.mode = "ready" /\ server.tx = "I"
  BY <1>1 DEF Servers, Statuses
<1>4. Quiet(Inbox) /\ OnlyCopy(toServer) /\ FatalLast(Inbox, server)
  <2> DEFINE i == <<>>
  <2>1. Len(i) = 0
    BY <1>2
  <2>2. Inbox = i /\ toServer = i
    BY <1>1
  <2> HIDE DEF i
  <2>3. Quiet(i) /\ \A k \in 1 .. Len(i) : FALSE
    BY <2>1, NothingIsQuiet
  <2> QED BY <2>2, <2>3 DEF OnlyCopy, FatalLast
<1>5. WireInv
  BY <1>1, <1>3, <1>4 DEF WireInv
<1>6. CallInv
  BY <1>1 DEF CallInv, Statuses, Labels, Leaving
<1>7. PushInv
  BY <1>1 DEF PushInv, Pushing
<1>8. NumberInv
  BY <1>1 DEF NumberInv
<1>9. StateInv
  BY <1>1, <1>3, <1>4 DEF StateInv, Idle, Settled, Doomed
<1> QED BY <1>5, <1>6, <1>7, <1>8, <1>9 DEF Inv

-----------------------------------------------------------------------------
(* What an action leaves alone.                                            *)

LEMMA WireStays ==
  ASSUME WireInv, UNCHANGED <<read, toClient, toServer, server>>
  PROVE  WireInv' /\ Inbox' = Inbox
<1>1. Inbox' = Inbox
  BY DEF Inbox
<1>2. read' = read /\ toClient' = toClient /\ toServer' = toServer /\ server' = server
  OBVIOUS
<1> QED BY <1>1, <1>2 DEF WireInv

LEMMA StateStays ==
  ASSUME StateInv, UNCHANGED <<xact, read, state, socket, toClient, toServer, server, failed, killed>>,
         Opening => Opening', Leaving => Leaving'
  PROVE  StateInv'
<1>1. /\ xact' = xact /\ state' = state /\ socket' = socket /\ Inbox' = Inbox
      /\ toServer' = toServer /\ server' = server /\ failed' = failed /\ killed' = killed
  BY DEF Inbox
<1>2. Doomed' <=> Doomed
  BY <1>1 DEF Doomed
<1>3. CASE xact = None
  <2>1. Idle
    BY <1>3 DEF StateInv
  <2>2. Idle'
    BY <1>1, <1>2, <2>1 DEF Idle
  <2> QED BY <1>1, <1>3, <2>2 DEF StateInv
<1>4. CASE xact # None
  <2>1. Matched(xact) /\ (Dead \/ Starting \/ Lives)
    BY <1>4 DEF StateInv
  <2>2. Dead => Dead'
    BY <1>1 DEF Dead
  <2>3. Starting => Starting'
    BY <1>1, <1>2 DEF Starting
  <2>4. Lives => Lives'
    BY <1>1, <1>2 DEF Lives
  <2>5. Matched(xact') /\ xact' # None
    BY <1>1, <1>4, <2>1
  <2> QED BY <2>1, <2>2, <2>3, <2>4, <2>5 DEF StateInv
<1> QED BY <1>3, <1>4

LEMMA NumberStays ==
  ASSUME NumberInv, failed' = failed, Told \subseteq Told', made \in Nat, made' \in Nat, made <= made',
         xact # None /\ xact.number \in failed => xact' # None /\ xact'.number = xact.number,
         xact' # None => xact'.number <= made'
  PROVE  NumberInv'
<1>1. \A n \in failed : n \in Nat /\ n <= made'
  <2> SUFFICES ASSUME NEW n \in failed PROVE n \in Nat /\ n <= made'
    OBVIOUS
  <2>1. n \in Nat /\ n <= made
    BY DEF NumberInv
  <2> QED BY <2>1
<1>2. \A n \in failed : n \in Told' \/ (xact' # None /\ n = xact'.number)
  BY DEF NumberInv
<1> QED BY <1>1, <1>2 DEF NumberInv

LEMMA UntoldIs ==
  ASSUME NumberInv, NEW n \in failed
  PROVE  n \in Told \/ (xact # None /\ n = xact.number)
BY DEF NumberInv

LEMMA BatchIs ==
  ASSUME CallInv, NumberInv, NEW types, CommandsOf(Commands(types, made + 1), made + 1), NEW x, x = Batch(types)
  PROVE  /\ x \in Transactions /\ x # None /\ x.number = made + 1 /\ Fresh(x, failed) /\ x.state = "standard_sent"
         /\ made + 1 \in Nat /\ made + 1 \notin failed /\ x.fatal = None
<1> DEFINE n == made + 1
           c == Commands(types, n)
<1>1. n \in Nat /\ made \in Nat /\ n > made
  BY DEF CallInv
<1>2. n \notin failed
  <2>1. SUFFICES ASSUME n \in failed PROVE FALSE
    OBVIOUS
  <2>2. n <= made
    BY <2>1 DEF NumberInv
  <2> QED BY <1>1, <2>2
<1>3. x = NewInstruction(n, c)
  BY DEF Batch, Commands
<1>4. CommandsOf(c, n)
  OBVIOUS
<1> HIDE DEF n, c
<1>5. x.number = n /\ x.commands = c /\ x.state = "standard_sent" /\ x.fatal = None
  BY <1>3 DEF NewInstruction
<1>6. c \in Seq([type : DOMAIN hook \cup {"Disconnect"}, id : Ids])
  <2>1. c \in Seq([type : Answered, id : Ids])
    BY <1>4 DEF CommandsOf
  <2>2. Answered \subseteq DOMAIN hook
    BY HookDomain DEF Answered, Extended
  <2>3. [type : Answered, id : Ids] \subseteq [type : DOMAIN hook \cup {"Disconnect"}, id : Ids]
    BY <2>2
  <2>4. \A S, T : S \subseteq T => Seq(S) \subseteq Seq(T)
    OBVIOUS
  <2> QED BY <2>1, <2>3, <2>4
<1>7. x \in Transactions
  BY <1>1, <1>3, <1>6, NewIs
<1>8. Fresh(x, failed)
  BY <1>2, <1>3, <1>4, <1>5 DEF Fresh, WellFormed
<1> QED BY <1>1, <1>2, <1>5, <1>7, <1>8, NoneAssumption DEF n

-----------------------------------------------------------------------------
(* The actions that only move control.                                     *)

LEMMA IdleIs ==
  ASSUME CallInv, pc = "idle"
  PROVE  pushing = None /\ then = None /\ ~ Opening /\ ~ Leaving /\ ~ Pushing
BY DEF CallInv, Opening, Leaving, Pushing

LEMMA PushKeeps ==
  ASSUME Inv, NEW types \in Batches, NEW next \in {"complete", "return"}, Push(types, next)
  PROVE  Inv'
<1>1. /\ WireInv /\ CallInv /\ NumberInv /\ StateInv
  BY DEF Inv
<1>2. /\ pc = "idle" /\ made' = made + 1 /\ pushing' = Batch(types) /\ runs' = next
      /\ xact # None => pc' = "complete" /\ then' = "_pq_push"
      /\ xact = None => pc' = "push" /\ then' = None
      /\ UNCHANGED <<xact, read, state, socket, garbage, toServer, toClient, server, faults>>
      /\ UNCHANGED <<failed, reported, swallowed, killed>>
  BY DEF Push, PqPush, Begin, Goto, connVars, wire, serverVars, errorVars
<1>3. ~ Opening /\ ~ Leaving
  BY <1>1, <1>2, IdleIs
<1>4. CommandsOf(Commands(types, made + 1), made + 1) /\ made \in Nat /\ made + 1 \in Nat
  BY <1>1, BatchesAre DEF CallInv
<1>5. /\ pushing' \in Transactions /\ pushing' # None /\ pushing'.number = made + 1 /\ Fresh(pushing', failed)
  BY <1>1, <1>2, <1>4, BatchIs
<1>6. WireInv'
  BY <1>1, <1>2, WireStays
<1>7. StateInv'
  BY <1>1, <1>2, <1>3, StateStays
<1>8. CallInv'
  BY <1>1, <1>2, <1>4, <1>5, NoneAssumption DEF CallInv, Labels, Callers, Leaving
<1>9. NumberInv'
  <2>1. xact # None => xact.number <= made' /\ xact.number \in Nat
    BY <1>1, <1>2 DEF NumberInv, CallInv, Transactions
  <2> QED BY <1>1, <1>2, <1>4, <2>1, NumberStays DEF Told
<1>10. PushInv'
  <2>1. xact # None => xact.number # made + 1
    BY <1>1, <1>4 DEF NumberInv, CallInv, Transactions
  <2> QED BY <1>2, <1>4, <1>5, <2>1 DEF PushInv
<1> QED BY <1>6, <1>7, <1>8, <1>9, <1>10 DEF Inv

\* Nothing but control moves, and no transaction is being pushed.
LEMMA MovesKeep ==
  ASSUME Inv, UNCHANGED <<xact, read, state, socket, toClient, toServer, server, failed, killed>>,
         UNCHANGED <<reported, swallowed, made, faults>>,
         ~ Pushing', ~ Opening, ~ Leaving,
         garbage' \in Nat, pc' \in Labels, then' \in Callers \cup {None}, pc' = "complete" <=> then' # None,
         pc' \in {"complete", "pushed"} => xact # None, Leaving' => xact.fatal = Fatal,
         pushing' = None \/ (pushing' = pushing /\ pc' # "idle")
  PROVE  Inv'
<1>1. /\ WireInv /\ CallInv /\ NumberInv /\ StateInv
  BY DEF Inv
<1>2. WireInv'
  BY <1>1, WireStays
<1>3. StateInv'
  BY <1>1, StateStays
<1>4. CallInv'
  BY <1>1 DEF CallInv, Pushing
<1>5. NumberInv'
  <2>1. made \in Nat /\ made <= made'
    BY <1>1 DEF CallInv
  <2>2. xact # None => xact.number <= made
    BY <1>1 DEF NumberInv
  <2> QED BY <1>1, <2>1, <2>2, NumberStays DEF Told
<1>6. PushInv'
  BY DEF PushInv
<1> QED BY <1>2, <1>3, <1>4, <1>5, <1>6 DEF Inv

LEMMA PushedKeeps ==
  ASSUME Inv, Pushed
  PROVE  Inv'
<1>1. /\ pc = "pushed" /\ runs # "close" /\ pushing' = None
      /\ \/ pc' = "complete" /\ then' = "_pq_complete"
         \/ pc' = "idle" /\ then' = None
      /\ UNCHANGED <<xact, read, state, socket, toClient, toServer, server, failed, killed>>
      /\ UNCHANGED <<reported, swallowed, made, faults, garbage>>
  BY DEF Pushed, Begin, Goto, connVars, wire, serverVars, boundVars, errorVars
<1>2. ~ Pushing' /\ ~ Opening /\ ~ Leaving /\ ~ Leaving'
  BY <1>1 DEF Pushing, Opening, Leaving
<1>3. xact # None /\ garbage \in Nat
  BY <1>1 DEF Inv, CallInv
<1>4. pc' \in Labels /\ then' \in Callers \cup {None} /\ (pc' = "complete" <=> then' # None)
  BY <1>1, NoneAssumption DEF Labels, Callers
<1> QED BY <1>1, <1>2, <1>3, <1>4, MovesKeep

LEMMA PqCompleteKeeps ==
  ASSUME Inv, PqComplete
  PROVE  Inv'
<1>1. /\ pc = "idle" /\ pushing' = pushing /\ pc' = "complete" /\ then' = "_pq_complete" /\ xact # None
      /\ UNCHANGED <<xact, read, state, socket, toClient, toServer, server, failed, killed>>
      /\ UNCHANGED <<reported, swallowed, made, faults, garbage>>
  BY DEF PqComplete, Begin, connVars, wire, serverVars, boundVars, errorVars
<1>2. ~ Pushing' /\ ~ Opening /\ ~ Leaving /\ ~ Leaving'
  BY <1>1 DEF Pushing, Opening, Leaving
<1>3. garbage \in Nat
  BY DEF Inv, CallInv
<1>4. pc' \in Labels /\ then' \in Callers \cup {None} /\ (pc' = "complete" <=> then' # None)
  BY <1>1, NoneAssumption DEF Labels, Callers
<1> QED BY <1>1, <1>2, <1>3, <1>4, MovesKeep

LEMMA StepDroppedKeeps ==
  ASSUME Inv, StepDropped
  PROVE  Inv'
<1>1. /\ pc = "pushed" /\ runs = "return" /\ pushing' = None /\ pc' = "idle" /\ then' = None
      /\ UNCHANGED <<xact, read, state, socket, toClient, toServer, server, failed, killed>>
      /\ UNCHANGED <<reported, swallowed, made, faults, garbage>>
  BY DEF StepDropped, Return, Goto, connVars, wire, serverVars, boundVars, errorVars
<1>2. ~ Pushing' /\ ~ Opening /\ ~ Leaving /\ ~ Leaving'
  BY <1>1 DEF Pushing, Opening, Leaving
<1>3. garbage \in Nat
  BY DEF Inv, CallInv
<1>4. pc' \in Labels /\ then' \in Callers \cup {None} /\ (pc' = "complete" <=> then' # None)
  BY <1>1, NoneAssumption DEF Labels, Callers
<1> QED BY <1>1, <1>2, <1>3, <1>4, MovesKeep

LEMMA TrashKeeps ==
  ASSUME Inv, Trash
  PROVE  Inv'
<1>1. /\ garbage' = garbage + 1
      /\ UNCHANGED <<xact, read, state, socket, toClient, toServer, server, failed, killed>>
      /\ UNCHANGED <<reported, swallowed, made, faults, pc, then, pushing, runs>>
  BY DEF Trash, callVars, wire, serverVars, boundVars, errorVars
<1>2. (Pushing' <=> Pushing) /\ (Opening => Opening') /\ (Leaving => Leaving') /\ (Leaving' => Leaving)
  BY <1>1 DEF Pushing, Opening, Leaving
<1>3. /\ WireInv /\ CallInv /\ NumberInv /\ StateInv /\ PushInv
  BY DEF Inv
<1>4. WireInv'
  BY <1>1, <1>3, WireStays
<1>5. StateInv'
  BY <1>1, <1>2, <1>3, StateStays
<1>6. CallInv'
  BY <1>1, <1>2, <1>3 DEF CallInv
<1>7. NumberInv'
  <2>1. made \in Nat /\ made <= made'
    BY <1>1, <1>3 DEF CallInv
  <2>2. xact # None => xact.number <= made
    BY <1>3 DEF NumberInv
  <2> QED BY <1>1, <1>3, <2>1, <2>2, NumberStays DEF Told
<1>8. PushInv'
  BY <1>1, <1>2, <1>3 DEF PushInv
<1> QED BY <1>4, <1>5, <1>6, <1>7, <1>8 DEF Inv

-----------------------------------------------------------------------------
(* The end of complete().                                                  *)

LEMMA InboxIs ==
  ASSUME WireInv
  PROVE  Inbox \in Seq(Messages) /\ Len(Inbox) \in Nat
<1>1. read \in Seq(Messages) /\ toClient \in Seq(Messages)
  BY DEF WireInv
<1>2. Inbox \in Seq(Messages)
  BY <1>1, ConcatProperties DEF Inbox
<1> QED BY <1>2, LenProperties

\* A completed transaction is dead, or the server has worked it off.
Finished ==
  \/ /\ xact.fatal = Fatal /\ Resting(toServer, server)
     /\ socket # "open" \/ Over(Inbox, toServer, server)
  \/ /\ xact.fatal # Fatal /\ Settled(Inbox, toServer, server) /\ ~ Doomed
     /\ server.mode = "ready" => xact.last_ready = server.tx
     /\ xact.last_ready \in Statuses
     /\ xact.number \in failed => xact.fatal = NotFatal

LEMMA CompletedIs ==
  ASSUME Inv, pc = "complete", xact.state = "Complete"
  PROVE  /\ xact # None /\ xact \in Transactions /\ Matched(xact) /\ Finished
         /\ LastReady(xact) \in Statuses
         /\ xact.fatal # Fatal => LastReady(xact) = xact.last_ready
<1>1. WireInv /\ CallInv /\ StateInv
  BY DEF Inv
<1>2. xact # None /\ xact \in Transactions
  BY <1>1 DEF CallInv
<1>3. Matched(xact) /\ (Dead \/ Starting \/ Lives)
  BY <1>1, <1>2 DEF StateInv
<1>4. ~ Leaving
  BY DEF Leaving
<1>5. ASSUME Dead PROVE Finished
  BY <1>4, <1>5 DEF Dead, Finished
<1>6. ~ Starting
  <2>1. SUFFICES ASSUME Starting PROVE FALSE
    OBVIOUS
  <2>2. Fresh(xact, failed)
    BY <2>1 DEF Starting
  <2> QED BY <1>2, <2>2, FreshIs
<1>7. ASSUME Lives PROVE Finished
  <2>1. Live(xact, Inbox, toServer, server, failed)
    BY <1>7 DEF Lives
  <2>2. ~ Doomed
    BY <1>7 DEF Lives, Receiving
  <2>3. /\ xact.fatal # Fatal /\ xact.last_ready \in Statuses
        /\ Settled(Inbox, toServer, server)
        /\ server.mode = "ready" => xact.last_ready = server.tx
        /\ xact.number \in failed => xact.fatal = NotFatal
    BY <1>1, <1>2, <2>1, InboxIs, LiveCompletes
  <2> QED BY <2>2, <2>3 DEF Finished
<1>8. Finished
  BY <1>3, <1>5, <1>6, <1>7
<1>9. state \in Statuses /\ xact.last_ready \in Statuses \cup {None}
  BY <1>1, <1>2 DEF CallInv, Transactions, Statuses
<1>10. LastReady(xact) \in Statuses
  BY <1>9 DEF LastReady
<1>11. xact.fatal # Fatal => LastReady(xact) = xact.last_ready
  BY <1>8, NoneAssumption DEF Finished, LastReady, Statuses
<1> QED BY <1>2, <1>3, <1>8, <1>10, <1>11

LEMMA KeptIs ==
  ASSUME NEW x \in Transactions
  PROVE  /\ x.fatal = Fatal => Kept(x) = x /\ Kept(x) # None
         /\ x.fatal # Fatal => Kept(x) = None
BY NoneAssumption DEF Kept

LEMMA ErrorsAre ==
  ASSUME NEW x \in Transactions
  PROVE  /\ x.state # "Complete" => \A s : Errors(x, s) = {}
         /\ x.fatal # Fatal => Errors(x, {Fatal}) = {}
         /\ x.state = "Complete" /\ x.fatal = Fatal => Errors(x, {Fatal, NotFatal}) = {x.number}
         /\ x.state = "Complete" /\ x.fatal = NotFatal => Errors(x, {Fatal, NotFatal}) = {x.number}
BY DEF Errors

\* Its error is told to the caller, or the caller drops it.
LEMMA ErrorsAreTold ==
  ASSUME Inv, xact # None, NEW x \in Transactions, x.number = xact.number, x.state = "Complete",
         Raised(x) \/ Ignored(x), x.number \in failed => x.fatal \in {Fatal, NotFatal}
  PROVE  /\ failed' = failed /\ failed \subseteq Told' /\ Told \subseteq Told'
         /\ killed' = killed \cup Errors(x, {Fatal})
<1>1. failed' = failed /\ killed' = killed \cup Errors(x, {Fatal})
  BY DEF Raised, Ignored
<1> DEFINE e == Errors(x, {Fatal, NotFatal})
<1>2. Told \subseteq Told' /\ e \subseteq Told'
  <2>1. CASE Raised(x)
    BY <2>1 DEF Raised, Told
  <2>2. CASE Ignored(x)
    <3> HIDE DEF e
    <3>1. reported' = reported /\ swallowed' = swallowed \cup ({then} \X e)
      BY <2>2 DEF Ignored, e
    <3>2. \A n \in e : <<then, n>> \in swallowed' /\ <<then, n>>[2] = n
      BY <3>1
    <3>3. e \subseteq Told'
      BY <3>2 DEF Told
    <3>4. Told \subseteq Told'
      BY <3>1 DEF Told
    <3> QED BY <3>3, <3>4
  <2> QED BY <2>1, <2>2
<1>3. x.number \in failed => x.number \in e
  BY ErrorsAre
<1> HIDE DEF e
<1>4. ASSUME NEW n \in failed PROVE n \in Told'
  <2>1. n \in Told \/ n = xact.number
    BY UntoldIs DEF Inv
  <2> QED BY <1>2, <1>3, <2>1
<1> QED BY <1>1, <1>2, <1>4

\* What a caller of complete() does first.
LEMMA CompletionKeeps ==
  ASSUME Inv, pc = "complete", xact.state = "Complete", state' = LastReady(xact), xact' = Kept(xact),
         Raised(xact) \/ Ignored(xact), UNCHANGED <<read, socket, toServer, toClient, server>>,
         made' \in Nat, made <= made'
  PROVE  WireInv' /\ StateInv' /\ NumberInv' /\ (xact' = None \/ (xact' = xact /\ xact.fatal = Fatal))
<1>1. /\ xact # None /\ xact \in Transactions /\ Matched(xact) /\ Finished
      /\ xact.fatal # Fatal => LastReady(xact) = xact.last_ready
  BY CompletedIs
<1>2. xact.number \in failed => xact.fatal \in {Fatal, NotFatal}
  BY <1>1 DEF Finished
<1>3. /\ failed' = failed /\ failed \subseteq Told' /\ Told \subseteq Told'
      /\ killed' = killed \cup Errors(xact, {Fatal})
  BY <1>1, <1>2, ErrorsAreTold
<1>4. WireInv' /\ Inbox' = Inbox
  BY WireStays DEF Inv
<1>5. CASE xact.fatal = Fatal
  <2>1. xact' = xact /\ xact' # None
    BY <1>1, <1>5, KeptIs
  <2>2. Dead'
    BY <1>1, <1>4, <1>5, <2>1 DEF Finished, Dead
  <2>3. StateInv'
    BY <1>1, <2>1, <2>2 DEF StateInv
  <2>4. xact'.number <= made'
    <3>1. xact.number <= made /\ xact.number \in Nat /\ made \in Nat
      BY <1>1 DEF Inv, NumberInv, CallInv, Transactions
    <3> QED BY <2>1, <3>1
  <2>5. NumberInv'
    <3>1. NumberInv /\ made \in Nat
      BY DEF Inv, CallInv
    <3> QED BY <1>3, <2>1, <2>4, <3>1, NumberStays
  <2> QED BY <1>4, <1>5, <2>1, <2>3, <2>5
<1>6. CASE xact.fatal # Fatal
  <2>1. xact' = None
    BY <1>1, <1>6, KeptIs
  <2>2. killed' = killed
    BY <1>1, <1>3, <1>6, ErrorsAre
  <2>3. ~ Doomed'
    BY <1>1, <1>6, <2>2 DEF Finished, Doomed
  <2>4. Settled(Inbox, toServer, server) /\ (server.mode = "ready" => xact.last_ready = server.tx)
    BY <1>1, <1>6 DEF Finished
  <2>5. Idle'
    BY <1>1, <1>4, <1>6, <2>3, <2>4 DEF Idle
  <2>6. StateInv'
    BY <2>1, <2>5 DEF StateInv
  <2>7. \A n \in failed : n \in Nat /\ n <= made'
    <3> SUFFICES ASSUME NEW n \in failed PROVE n \in Nat /\ n <= made'
      OBVIOUS
    <3>1. n \in Nat /\ n <= made /\ made \in Nat
      BY DEF Inv, NumberInv, CallInv
    <3> QED BY <3>1
  <2>8. NumberInv'
    BY <1>3, <2>1, <2>7 DEF NumberInv
  <2> QED BY <1>4, <2>1, <2>6, <2>8
<1> QED BY <1>5, <1>6

-----------------------------------------------------------------------------
(* The callers of complete().                                              *)

LEMMA PreviousCompletedKeeps ==
  ASSUME Inv, PreviousCompleted
  PROVE  Inv'
<1>1. /\ pc = "complete" /\ then = "_pq_push" /\ xact.state = "Complete" /\ state' = LastReady(xact)
      /\ xact' = Kept(xact) /\ Raised(xact)
      /\ UNCHANGED <<read, socket, garbage, toServer, toClient, server, faults, made>>
      /\ \/ xact.fatal # None /\ pc' = "idle" /\ then' = None /\ pushing' = None /\ runs' = None
         \/ xact.fatal = None /\ pc' = "push" /\ then' = None /\ pushing' = pushing /\ runs' = runs
  BY DEF PreviousCompleted, Completed, Return, Goto, wire, serverVars, boundVars
<1>2. /\ CallInv /\ PushInv /\ made' \in Nat /\ made <= made'
  BY <1>1 DEF Inv, CallInv
<1>3. WireInv' /\ StateInv' /\ NumberInv' /\ (xact' = None \/ (xact' = xact /\ xact.fatal = Fatal))
  BY <1>1, <1>2, CompletionKeeps
<1>4. xact \in Transactions /\ LastReady(xact) \in Statuses
  BY <1>1, CompletedIs
<1>5. xact.fatal = None => xact' = None
  BY <1>3, NoneAssumption DEF Fatal
<1>6. Pushing /\ ~ Leaving'
  BY <1>1 DEF Pushing, Leaving
<1>7. CallInv'
  BY <1>1, <1>2, <1>3, <1>4, <1>5, <1>6, NoneAssumption DEF CallInv, Labels, Callers
<1>8. PushInv'
  <2>1. CASE pc' = "idle"
    BY <2>1 DEF PushInv, Pushing
  <2>2. CASE pc' = "push"
    <3>1. /\ pushing # None /\ pushing.number <= made
          /\ \/ Fresh(pushing, failed) /\ runs # "close"
             \/ Closing(pushing, failed) /\ runs = "close"
      BY <1>2, <1>6 DEF PushInv
    <3>2. xact' = None /\ pushing' = pushing /\ runs' = runs /\ made' = made /\ failed' = failed
      BY <1>1, <1>5, <2>2 DEF Raised
    <3> QED BY <3>1, <3>2 DEF PushInv
  <2> QED BY <1>1, <2>1, <2>2
<1> QED BY <1>3, <1>7, <1>8 DEF Inv

LEMMA TrashTakenOutKeeps ==
  ASSUME Inv, TrashTakenOut
  PROVE  Inv'
<1>1. /\ pc = "complete" /\ then = "take_out_trash" /\ xact.state = "Complete" /\ state' = LastReady(xact)
      /\ xact' = Kept(xact) /\ Ignored(xact) /\ pushing' = pushing /\ runs' = runs /\ then' = None
      /\ UNCHANGED <<read, socket, garbage, toServer, toClient, server, faults, made>>
      /\ pc' = IF Kept(xact) = None THEN "start" ELSE "pushed"
  BY DEF TrashTakenOut, Completed, Goto, wire, serverVars, boundVars
<1>2. /\ CallInv /\ PushInv /\ made' \in Nat /\ made <= made'
  BY <1>1 DEF Inv, CallInv
<1>3. WireInv' /\ StateInv' /\ NumberInv' /\ (xact' = None \/ (xact' = xact /\ xact.fatal = Fatal))
  BY <1>1, <1>2, CompletionKeeps
<1>4. xact \in Transactions /\ LastReady(xact) \in Statuses
  BY <1>1, CompletedIs
<1>5. \/ pc' = "start" /\ xact' = None
      \/ pc' = "pushed" /\ xact' = xact /\ xact # None /\ xact.fatal = Fatal
  BY <1>1, <1>3, <1>4, NoneAssumption
<1>6. Pushing
  BY <1>1 DEF Pushing
<1>7. CallInv'
  BY <1>1, <1>2, <1>4, <1>5, NoneAssumption DEF CallInv, Labels, Callers, Leaving
<1>8. PushInv'
  <2>1. CASE pc' = "pushed"
    BY <2>1 DEF PushInv, Pushing
  <2>2. CASE pc' = "start"
    <3>1. /\ pushing # None /\ pushing.number <= made
          /\ \/ Fresh(pushing, failed) /\ runs # "close"
             \/ Closing(pushing, failed) /\ runs = "close"
      BY <1>2, <1>6 DEF PushInv
    <3>2. xact' = None /\ failed' = failed
      BY <1>1, <1>5, <2>2 DEF Ignored
    <3> QED BY <1>1, <3>1, <3>2 DEF PushInv
  <2> QED BY <1>5, <2>1, <2>2
<1> QED BY <1>3, <1>7, <1>8 DEF Inv

\* Control returns to the caller.
LEMMA ReturnKeeps ==
  ASSUME Inv, pc = "complete", xact.state = "Complete", state' = LastReady(xact), xact' = Kept(xact),
         Raised(xact) \/ Ignored(xact), Return,
         UNCHANGED <<read, socket, garbage, toServer, toClient, server, faults, made>>
  PROVE  Inv'
<1>1. pc' = "idle" /\ then' = None /\ pushing' = None
  BY DEF Return, Goto
<1>2. /\ CallInv /\ made' \in Nat /\ made <= made'
  BY DEF Inv, CallInv
<1>3. WireInv' /\ StateInv' /\ NumberInv' /\ (xact' = None \/ (xact' = xact /\ xact.fatal = Fatal))
  BY <1>2, CompletionKeeps
<1>4. xact \in Transactions /\ LastReady(xact) \in Statuses
  BY CompletedIs
<1>5. ~ Pushing' /\ ~ Leaving'
  BY <1>1 DEF Pushing, Leaving
<1>6. CallInv'
  BY <1>1, <1>2, <1>3, <1>4, <1>5 DEF CallInv, Labels
<1>7. PushInv'
  BY <1>5 DEF PushInv
<1> QED BY <1>3, <1>6, <1>7 DEF Inv

LEMMA PqCompletedKeeps ==
  ASSUME Inv, PqCompleted
  PROVE  Inv'
<1>1. /\ pc = "complete" /\ xact.state = "Complete" /\ state' = LastReady(xact)
      /\ xact' = Kept(xact) /\ Raised(xact) /\ Return
      /\ UNCHANGED <<read, socket, garbage, toServer, toClient, server, faults, made>>
  BY DEF PqCompleted, Completed, wire, serverVars, boundVars
<1> QED BY <1>1, ReturnKeeps

LEMMA SynchronizedKeeps ==
  ASSUME Inv, Synchronized
  PROVE  Inv'
<1>1. /\ pc = "complete" /\ xact.state = "Complete" /\ state' = LastReady(xact)
      /\ xact' = Kept(xact) /\ Ignored(xact) /\ Return
      /\ UNCHANGED <<read, socket, garbage, toServer, toClient, server, faults, made>>
  BY DEF Synchronized, Completed, wire, serverVars, boundVars
<1> QED BY <1>1, ReturnKeeps

\* close pushes the Disconnect.
LEMMA ClosingIsNew ==
  ASSUME CallInv, NumberInv
  PROVE  LET x == NewClosing(made + 1)
         IN  /\ x \in Transactions /\ x # None /\ x.number = made + 1 /\ Closing(x, failed)
             /\ made \in Nat /\ made + 1 \in Nat /\ made <= made + 1
<1> DEFINE n == made + 1
           x == NewClosing(n)
<1>1. n \in Nat /\ made \in Nat /\ n > made /\ made <= n
  BY DEF CallInv
<1>2. n \notin failed
  <2>1. SUFFICES ASSUME n \in failed PROVE FALSE
    OBVIOUS
  <2>2. n <= made
    BY <2>1 DEF NumberInv
  <2> QED BY <1>1, <2>2
<1>3. x \in Transactions /\ x.number = n
  <2> HIDE DEF n
  <2> QED BY <1>1, ClosingIs
<1>4. x = NewClosing(x.number) /\ x.number \notin failed
  BY <1>2, <1>3
<1> HIDE DEF x
<1>5. x # None /\ Closing(x, failed)
  BY <1>3, <1>4, NoneAssumption DEF Closing
<1> QED BY <1>1, <1>3, <1>5 DEF x

LEMMA BeforeCloseKeeps ==
  ASSUME Inv, BeforeClose
  PROVE  Inv'
<1> DEFINE c == NewClosing(made + 1)
<1>1. /\ pc = "complete" /\ xact.state = "Complete" /\ state' = LastReady(xact)
      /\ xact' = Kept(xact) /\ Ignored(xact) /\ runs' = "close" /\ then' = None
      /\ UNCHANGED <<read, socket, garbage, toServer, toClient, server, faults>>
      /\ \/ Kept(xact) = None /\ pc' = "push" /\ pushing' = c /\ made' = made + 1
         \/ Kept(xact) # None /\ pc' = "pushed" /\ pushing' = pushing /\ made' = made
  BY DEF BeforeClose, Completed, Goto, wire, serverVars
<1>2. CallInv /\ NumberInv
  BY DEF Inv
<1>3. /\ c \in Transactions /\ c # None /\ c.number = made + 1 /\ Closing(c, failed)
      /\ made \in Nat /\ made + 1 \in Nat /\ made <= made + 1 /\ made <= made
  <2>1. made \in Nat
    BY <1>2 DEF CallInv
  <2> QED BY <1>2, <2>1, ClosingIsNew
<1> HIDE DEF c
<1>4. made' \in Nat /\ made <= made'
  BY <1>1, <1>3
<1>5. WireInv' /\ StateInv' /\ NumberInv' /\ (xact' = None \/ (xact' = xact /\ xact.fatal = Fatal))
  BY <1>1, <1>4, CompletionKeeps
<1>6. xact \in Transactions /\ LastReady(xact) \in Statuses
  BY <1>1, CompletedIs
<1>7. failed' = failed
  BY <1>1 DEF Ignored
<1>8. CallInv'
  BY <1>1, <1>2, <1>3, <1>4, <1>5, <1>6, NoneAssumption DEF CallInv, Labels, Leaving
<1>9. PushInv'
  <2>1. CASE pc' = "pushed"
    BY <2>1 DEF PushInv, Pushing
  <2>2. CASE pc' = "push"
    <3>1. xact' = None /\ pushing' = c /\ made' = made + 1 /\ made + 1 <= made + 1
      BY <1>1, <1>3, <2>2
    <3> QED BY <1>1, <1>3, <1>7, <3>1 DEF PushInv
  <2> QED BY <1>1, <2>1, <2>2
<1> QED BY <1>5, <1>8, <1>9 DEF Inv

-----------------------------------------------------------------------------
(* Transactions of the connection's own, and close.                        *)

\* A batch that the connection sends for itself is the current transaction.
LEMMA OpeningKeeps ==
  ASSUME Inv, NEW types, CommandsOf(Commands(types, made + 1), made + 1),
         xact' = Batch(types), made' = made + 1, Opening',
         UNCHANGED <<read, socket, toServer, toClient, server, failed>>,
         Resting(toServer, server), socket = "open" => Settled(Inbox, toServer, server),
         Doomed' => socket # "open" \/ Over(Inbox, toServer, server),
         failed \subseteq Told', state' \in Statuses
  PROVE  /\ WireInv' /\ NumberInv' /\ StateInv' /\ xact' \in Transactions /\ xact' # None
         /\ xact'.number = made + 1 /\ made \in Nat /\ made' \in Nat
<1>1. CallInv /\ NumberInv /\ WireInv
  BY DEF Inv
<1>2. /\ xact' \in Transactions /\ xact' # None /\ xact'.number = made + 1 /\ Fresh(xact', failed)
      /\ made + 1 \in Nat /\ made \in Nat
  <2>1. made \in Nat
    BY <1>1 DEF CallInv
  <2> QED BY <1>1, <2>1, BatchIs
<1>3. WireInv' /\ Inbox' = Inbox
  BY <1>1, WireStays
<1>4. NumberInv'
  <2>1. \A n \in failed : n \in Nat /\ n <= made'
    <3> SUFFICES ASSUME NEW n \in failed PROVE n \in Nat /\ n <= made'
      OBVIOUS
    <3>1. n \in Nat /\ n <= made
      BY <1>1 DEF NumberInv
    <3> QED BY <1>2, <3>1
  <2>2. xact'.number <= made'
    BY <1>2
  <2> QED BY <1>2, <2>1, <2>2 DEF NumberInv
<1>5. Matched(xact')
  BY <1>2, FreshIs
<1>6. Starting'
  BY <1>2, <1>3 DEF Starting
<1>7. StateInv'
  BY <1>2, <1>5, <1>6 DEF StateInv
<1> QED BY <1>2, <1>3, <1>4, <1>7

LEMMA SynchronizeKeeps ==
  ASSUME Inv, Synchronize
  PROVE  Inv'
<1>1. /\ pc = "idle" /\ pc' = "complete"
      /\ \/ xact = None /\ xact' = Batch(<<"Synchronize">>) /\ made' = made + 1 /\ then' = "synchronized"
         \/ xact # None /\ xact' = xact /\ made' = made /\ then' = "synchronize"
      /\ UNCHANGED <<read, state, socket, garbage, pushing, runs, toServer, toClient, server, faults>>
      /\ UNCHANGED <<failed, reported, swallowed, killed>>
  BY DEF Synchronize, NewXact, Begin, wire, serverVars, errorVars
<1>2. CallInv /\ StateInv /\ NumberInv /\ garbage \in Nat
  BY DEF Inv, CallInv
<1>3. pushing = None /\ ~ Opening /\ ~ Leaving /\ ~ Pushing' /\ ~ Leaving'
  <2>1. pushing = None /\ ~ Opening /\ ~ Leaving
    BY <1>1, <1>2, IdleIs
  <2> QED BY <1>1, <2>1 DEF Pushing, Leaving
<1>4. CASE xact # None
  <2>1. pc' \in Labels /\ then' \in Callers \cup {None} /\ (pc' = "complete" <=> then' # None)
    BY <1>1, <1>4, NoneAssumption DEF Labels, Callers
  <2> QED BY <1>1, <1>2, <1>3, <1>4, <2>1, MovesKeep
<1>5. CASE xact = None
  <2>1. Idle
    BY <1>2, <1>5 DEF StateInv
  <2>2. CommandsOf(Commands(<<"Synchronize">>, made + 1), made + 1)
    <3>1. made + 1 \in Nat
      BY <1>2 DEF CallInv
    <3> QED BY <3>1, BatchesAre
  <2>3. Opening' /\ ~ Doomed'
    BY <1>1, <1>5, <2>1 DEF Opening, Idle, Doomed
  <2>4. failed \subseteq Told' /\ state' \in Statuses
    <3>1. Told' = Told /\ state' \in Statuses
      BY <1>1, <1>2 DEF Told, CallInv
    <3> QED BY <1>2, <1>5, <3>1, UntoldIs
  <2>5. Settled(Inbox, toServer, server) /\ Resting(toServer, server)
    BY <2>1, SettledRests DEF Idle
  <2>6. /\ WireInv' /\ NumberInv' /\ StateInv' /\ xact' \in Transactions /\ xact' # None
        /\ xact'.number = made + 1 /\ made \in Nat /\ made' \in Nat
    BY <1>1, <1>5, <2>2, <2>3, <2>4, <2>5, OpeningKeeps
  <2>7. CallInv'
    BY <1>1, <1>2, <1>3, <1>5, <2>4, <2>6, NoneAssumption DEF CallInv, Labels, Callers
  <2>8. PushInv'
    BY <1>3 DEF PushInv
  <2> QED BY <2>6, <2>7, <2>8 DEF Inv
<1> QED BY <1>4, <1>5

LEMMA TakeOutTrashKeeps ==
  ASSUME Inv, TakeOutTrash
  PROVE  Inv'
<1> DEFINE types == [i \in 1 .. garbage + 1 |-> IF i <= garbage THEN "Close" ELSE "Synchronize"]
<1>1. /\ pc = "push" /\ pc' = "complete" /\ then' = "take_out_trash" /\ garbage' = 0 /\ xact = None
      /\ xact' = Batch(types) /\ made' = made + 1
      /\ UNCHANGED <<read, state, socket, pushing, runs, toServer, toClient, server, faults>>
      /\ UNCHANGED <<failed, reported, swallowed, killed>>
  BY DEF TakeOutTrash, NewXact, Begin, wire, serverVars, errorVars
<1>2. CallInv /\ StateInv /\ NumberInv /\ PushInv
  BY DEF Inv
<1>3. Idle
  BY <1>1, <1>2 DEF StateInv
<1>4. CommandsOf(Commands(types, made + 1), made + 1)
  <2>1. made + 1 \in Nat /\ garbage \in Nat
    BY <1>2 DEF CallInv
  <2> QED BY <2>1, BatchesAre
<1> HIDE DEF types
<1>5. Opening' /\ ~ Doomed' /\ Pushing
  BY <1>1, <1>3 DEF Opening, Idle, Doomed, Pushing
<1>6. failed \subseteq Told' /\ state' \in Statuses
  <2>1. Told' = Told /\ state' \in Statuses
    BY <1>1, <1>2 DEF Told, CallInv
  <2> QED BY <1>1, <1>2, <2>1, UntoldIs
<1>7. Settled(Inbox, toServer, server) /\ Resting(toServer, server)
  BY <1>3, SettledRests DEF Idle
<1>8. /\ WireInv' /\ NumberInv' /\ StateInv' /\ xact' \in Transactions /\ xact' # None
      /\ xact'.number = made + 1 /\ made \in Nat /\ made' \in Nat
  BY <1>1, <1>4, <1>5, <1>6, <1>7, OpeningKeeps
<1>9. CallInv'
  BY <1>1, <1>2, <1>6, <1>8, NoneAssumption DEF CallInv, Labels, Callers, Leaving
<1>10. PushInv'
  <2>1. /\ pushing # None /\ pushing.number <= made
        /\ \/ Fresh(pushing, failed) /\ runs # "close"
           \/ Closing(pushing, failed) /\ runs = "close"
    BY <1>2, <1>5 DEF PushInv
  <2>2. pushing.number \in Nat
    BY <1>2, <2>1 DEF CallInv, Transactions
  <2>3. pushing.number <= made + 1 /\ made + 1 # pushing.number
    BY <1>8, <2>1, <2>2
  <2> QED BY <1>1, <1>8, <2>1, <2>3 DEF PushInv
<1> QED BY <1>8, <1>9, <1>10 DEF Inv

LEMMA BeforeSynchronizeKeeps ==
  ASSUME Inv, BeforeSynchronize
  PROVE  Inv'
<1>1. /\ pc = "complete" /\ pc' = "complete" /\ then' = "synchronized" /\ xact.state = "Complete"
      /\ state' = LastReady(xact) /\ Ignored(xact)
      /\ xact' = Batch(<<"Synchronize">>) /\ made' = made + 1
      /\ UNCHANGED <<read, socket, garbage, pushing, runs, toServer, toClient, server, faults>>
  BY DEF BeforeSynchronize, Completed, NewXact, Begin, wire, serverVars
<1>2. /\ xact # None /\ xact \in Transactions /\ Finished /\ state' \in Statuses /\ CallInv
  BY <1>1, CompletedIs DEF Inv
<1>3. xact.number \in failed => xact.fatal \in {Fatal, NotFatal}
  BY <1>2 DEF Finished
<1>4. /\ failed' = failed /\ failed \subseteq Told'
      /\ killed' = killed \cup Errors(xact, {Fatal})
  BY <1>1, <1>2, <1>3, ErrorsAreTold
<1>5. CommandsOf(Commands(<<"Synchronize">>, made + 1), made + 1)
  <2>1. made + 1 \in Nat
    BY <1>2 DEF CallInv
  <2> QED BY <2>1, BatchesAre
<1>6. Opening' /\ ~ Pushing' /\ ~ Leaving'
  BY <1>1 DEF Opening, Pushing, Leaving
<1>7. /\ Resting(toServer, server) /\ (socket = "open" => Settled(Inbox, toServer, server))
      /\ Doomed' => socket # "open" \/ Over(Inbox, toServer, server)
  <2>1. CASE xact.fatal = Fatal
    BY <1>2, <2>1, OverIsSettled DEF Finished
  <2>2. CASE xact.fatal # Fatal
    <3>1. killed' = killed
      BY <1>2, <1>4, <2>2, ErrorsAre
    <3>2. ~ Doomed' /\ Settled(Inbox, toServer, server)
      BY <1>1, <1>2, <2>2, <3>1 DEF Finished, Doomed
    <3> QED BY <3>2, SettledRests
  <2> QED BY <2>1, <2>2
<1>8. /\ WireInv' /\ NumberInv' /\ StateInv' /\ xact' \in Transactions /\ xact' # None
      /\ xact'.number = made + 1 /\ made \in Nat /\ made' \in Nat
  BY <1>1, <1>2, <1>4, <1>5, <1>6, <1>7, OpeningKeeps
<1>9. CallInv'
  BY <1>1, <1>2, <1>6, <1>8, NoneAssumption DEF CallInv, Labels, Callers
<1>10. PushInv'
  BY <1>6 DEF PushInv
<1> QED BY <1>8, <1>9, <1>10 DEF Inv

LEMMA CloseKeeps ==
  ASSUME Inv, Close
  PROVE  Inv'
<1> DEFINE c == NewClosing(made + 1)
<1>1. /\ pc = "idle"
      /\ \/ /\ xact # None /\ pc' = "complete" /\ then' = "close"
            /\ pushing' = pushing /\ runs' = runs /\ made' = made
         \/ xact = None /\ pc' = "push" /\ then' = None /\ pushing' = c /\ runs' = "close" /\ made' = made + 1
         \/ /\ xact # None /\ xact.fatal = Fatal /\ pc' = "pushed" /\ then' = None
            /\ pushing' = pushing /\ runs' = "close" /\ made' = made
      /\ UNCHANGED <<xact, read, state, socket, garbage, toServer, toClient, server, faults>>
      /\ UNCHANGED <<failed, reported, swallowed, killed>>
  BY DEF Close, Begin, Goto, connVars, wire, serverVars, errorVars
<1>2. WireInv /\ CallInv /\ NumberInv /\ StateInv /\ garbage \in Nat
  BY DEF Inv, CallInv
<1>3. pushing = None /\ ~ Opening /\ ~ Leaving
  BY <1>1, <1>2, IdleIs
<1>4. CASE xact # None
  <2>1. ~ Pushing' /\ (Leaving' => xact.fatal = Fatal)
    BY <1>1, <1>4 DEF Pushing, Leaving
  <2>2. pc' \in Labels /\ then' \in Callers \cup {None} /\ (pc' = "complete" <=> then' # None)
    BY <1>1, <1>4, NoneAssumption DEF Labels, Callers
  <2> QED BY <1>1, <1>2, <1>3, <1>4, <2>1, <2>2, MovesKeep
<1>5. CASE xact = None
  <2>1. /\ c \in Transactions /\ c # None /\ c.number = made + 1 /\ Closing(c, failed)
        /\ made \in Nat /\ made + 1 \in Nat /\ made <= made + 1
    BY <1>2, ClosingIsNew
  <2> HIDE DEF c
  <2>2. pc' = "push" /\ then' = None /\ pushing' = c /\ runs' = "close" /\ made' = made + 1 /\ xact' = None
    BY <1>1, <1>5
  <2>3. WireInv'
    BY <1>1, <1>2, WireStays
  <2>4. StateInv'
    BY <1>1, <1>2, <1>3, StateStays
  <2>5. CallInv'
    BY <1>1, <1>2, <2>1, <2>2, NoneAssumption DEF CallInv, Labels, Leaving
  <2>6. NumberInv'
    <3>1. Told \subseteq Told'
      BY <1>1 DEF Told
    <3> QED BY <1>1, <1>2, <1>5, <2>1, <2>2, <3>1, NumberStays
  <2>7. PushInv'
    BY <1>1, <2>1, <2>2 DEF PushInv
  <2> QED BY <2>3, <2>4, <2>5, <2>6, <2>7 DEF Inv
<1> QED BY <1>4, <1>5

LEMMA ReadIsFirst ==
  ASSUME WireInv
  PROVE  /\ Len(read) \in Nat /\ Len(read) <= Len(Inbox)
         /\ \A n \in 1 .. Len(read) : n \in 1 .. Len(Inbox) /\ Inbox[n] = read[n]
<1>1. read \in Seq(Messages) /\ toClient \in Seq(Messages)
  BY DEF WireInv
<1>2. Len(Inbox) = Len(read) + Len(toClient) /\ Len(read) \in Nat /\ Len(toClient) \in Nat
  BY <1>1, ConcatProperties, LenProperties DEF Inbox
<1>3. \A n \in 1 .. Len(read) : Inbox[n] = read[n]
  BY <1>1, <1>2, ConcatProperties DEF Inbox
<1> QED BY <1>2, <1>3

LEMMA QuietReadIs ==
  ASSUME WireInv, Quiet(Inbox)
  PROVE  Quiet(read)
BY ReadIsFirst DEF Quiet

LEMMA FatalLastOfRead ==
  ASSUME WireInv
  PROVE  \A n \in 1 .. Len(read) : read[n].type = "FatalError" => n = Len(read) /\ server.mode = "gone"
<1> SUFFICES ASSUME NEW n \in 1 .. Len(read), read[n].type = "FatalError"
             PROVE  n = Len(read) /\ server.mode = "gone"
  OBVIOUS
<1>1. n \in 1 .. Len(Inbox) /\ Inbox[n].type = "FatalError" /\ Len(read) \in Nat /\ Len(read) <= Len(Inbox)
  BY ReadIsFirst
<1>2. n = Len(Inbox) /\ server.mode = "gone"
  BY <1>1 DEF WireInv, FatalLast
<1> QED BY <1>1, <1>2

LEMMA CloseSocketKeeps ==
  ASSUME Inv, CloseSocket
  PROVE  Inv'
<1>1. /\ pc = "pushed" /\ runs = "close" /\ socket' = "closed" /\ toClient' = <<>>
      /\ pc' = "idle" /\ then' = None /\ pushing' = None
      /\ UNCHANGED <<xact, read, state, garbage, toServer, server, faults, made>>
      /\ UNCHANGED <<failed, reported, swallowed, killed>>
  BY DEF CloseSocket, Return, Goto, serverVars, boundVars, errorVars
<1>2. WireInv /\ CallInv /\ NumberInv /\ StateInv
  BY DEF Inv
<1>3. xact # None /\ xact \in Transactions /\ xact.fatal = Fatal /\ ~ Opening /\ ~ Pushing' /\ ~ Leaving'
  BY <1>1, <1>2 DEF CallInv, Leaving, Opening, Pushing
<1>4. read \in Seq(Messages) /\ Inbox' = read
  <2>1. read \in Seq(Messages)
    BY <1>2 DEF WireInv
  <2>2. read \o <<>> = read
    BY <2>1, ConcatEmptySeq
  <2> QED BY <1>1, <2>1, <2>2 DEF Inbox
<1>5. Matched(xact) /\ (Dead \/ Lives)
  BY <1>2, <1>3 DEF StateInv, Starting
<1>6. Dead => Dead'
  BY <1>1 DEF Dead
<1>7. Lives => Quiet(Inbox) /\ server.mode = "gone" /\ xact.state \in Receiving /\ Lives'
  <2> SUFFICES ASSUME Lives
               PROVE  Quiet(Inbox) /\ server.mode = "gone" /\ xact.state \in Receiving /\ Lives'
    OBVIOUS
  <2>1. Live(xact, Inbox, toServer, server, failed)
    BY DEF Lives
  <2>2. Quiet(Inbox) /\ server.mode = "gone" /\ xact.state \in Receiving
    BY <1>3, <2>1 DEF Live, Late
  <2>3. Quiet(read)
    BY <1>2, <2>2, QuietReadIs
  <2>4. Live(xact, read, toServer, server, failed)
    BY <1>2, <1>3, <1>4, <2>1, <2>3, InboxIs, LiveForgets
  <2>5. Lives'
    BY <1>1, <1>4, <2>2, <2>3, <2>4 DEF Lives
  <2> QED BY <2>2, <2>5
<1>8. StateInv'
  BY <1>1, <1>3, <1>5, <1>6, <1>7 DEF StateInv
<1>9. WireInv'
  <2>1. \A n \in 1 .. Len(read) : read[n].type = "FatalError" => n = Len(read) /\ server.mode = "gone"
    BY <1>2, FatalLastOfRead
  <2>2. toClient' \in Seq(Messages)
    BY <1>1
  <2> QED BY <1>1, <1>2, <1>4, <2>1, <2>2 DEF WireInv, FatalLast
<1>10. CallInv'
  BY <1>1, <1>2, <1>3 DEF CallInv, Labels
<1>11. NumberInv'
  <2>1. made \in Nat /\ made <= made' /\ Told \subseteq Told' /\ xact.number <= made
    BY <1>1, <1>2, <1>3 DEF CallInv, Told, NumberInv
  <2> QED BY <1>1, <1>2, <2>1, NumberStays
<1>12. PushInv'
  BY <1>3 DEF PushInv
<1> QED BY <1>8, <1>9, <1>10, <1>11, <1>12 DEF Inv

-----------------------------------------------------------------------------
(* Sending.                                                                *)

LEMMA SentIs ==
  ASSUME NEW x
  PROVE  /\ sent("standard_sent", x) = standard_sent(x)
         /\ sent("sent_from_stdin", x) = sent_from_stdin(x)
         /\ sent("closing_sent", x) = closing_sent(x)
BY DEF sent

LEMMA InvIs ==
  ASSUME Inv
  PROVE  /\ WireInv /\ CallInv /\ PushInv /\ NumberInv /\ StateInv
         /\ Inbox \in Seq(Messages) /\ Len(Inbox) \in Nat
         /\ toServer \in Seq(Sendables) /\ server \in Servers /\ made \in Nat
         /\ xact = None => Idle
         /\ xact # None => /\ xact \in Transactions /\ Matched(xact) /\ xact.number <= made
                           /\ Dead \/ Starting \/ Lives
<1>1. /\ WireInv /\ CallInv /\ PushInv /\ NumberInv /\ StateInv
  BY DEF Inv
<1>2. Inbox \in Seq(Messages) /\ Len(Inbox) \in Nat
  BY <1>1, InboxIs
<1>3. toServer \in Seq(Sendables) /\ server \in Servers
  BY <1>1 DEF WireInv
<1>4. made \in Nat /\ (xact # None => xact \in Transactions /\ xact.number <= made)
  BY <1>1 DEF CallInv, NumberInv
<1>5. /\ xact = None => Idle
      /\ xact # None => Matched(xact) /\ (Dead \/ Starting \/ Lives)
  BY <1>1 DEF StateInv
<1> QED BY <1>1, <1>2, <1>3, <1>4, <1>5

\* The rest of the invariant when xact is replaced by another state of it.
LEMMA StepKeeps ==
  ASSUME Inv, xact # None, xact' \in Transactions, xact'.number = xact.number,
         pc \in {"complete", "idle"}, UNCHANGED <<garbage, faults, made, pc, then, pushing, runs>>,
         failed' = failed, Told \subseteq Told',
         socket' \in {"open", "broken", "closed"}, state' \in Statuses
  PROVE  CallInv' /\ PushInv' /\ NumberInv'
<1>1. CallInv /\ PushInv /\ NumberInv /\ xact.number <= made /\ made \in Nat
  BY InvIs
<1>2. ~ Leaving' /\ (Pushing' <=> Pushing) /\ xact' # None
  BY NoneAssumption DEF Leaving, Pushing
<1>3. CallInv'
  BY <1>1, <1>2 DEF CallInv
<1>4. NumberInv'
  <2>1. made <= made' /\ made' \in Nat
    BY <1>1
  <2> QED BY <1>1, <1>2, <2>1, NumberStays
<1>5. PushInv'
  <2> SUFFICES ASSUME Pushing' PROVE PushInv'
    BY DEF PushInv
  <2>1. /\ pushing # None /\ pushing.number <= made /\ xact.number # pushing.number
        /\ \/ Fresh(pushing, failed) /\ runs # "close"
           \/ Closing(pushing, failed) /\ runs = "close"
    BY <1>1, <1>2 DEF PushInv
  <2> QED BY <1>2, <2>1 DEF PushInv
<1> QED BY <1>3, <1>4, <1>5

\* A transaction that sends is the connection's own or a COPY FROM STDIN.
LEMMA SendingIs ==
  ASSUME Inv, xact # None, xact.state \in Sending
  PROVE  \/ Starting /\ xact.state = "standard_sent"
         \/ Lives /\ xact.state = "sent_from_stdin" /\ ~ Doomed
<1>1. xact \in Transactions /\ Matched(xact) /\ (Dead \/ Starting \/ Lives)
  BY InvIs
<1>2. ~ Dead
  BY DEF Dead, Sending
<1>3. Starting => xact.state = "standard_sent"
  BY <1>1, FreshIs DEF Starting
<1>4. Lives => xact.state = "sent_from_stdin" /\ ~ Doomed
  BY DEF Lives, Live, Going, Sending, Receiving
<1> QED BY <1>1, <1>2, <1>3, <1>4

\* The wire after write_messages.
LEMMA WrittenIs ==
  ASSUME Inv, NEW x, Wire(x) \in Seq(Sendables), Written(x), UNCHANGED <<read, toClient, server>>
  PROVE  /\ WireInv' /\ Inbox' = Inbox /\ socket = "open" /\ socket' = "open"
         /\ toServer' = IF server.mode = "gone" THEN toServer ELSE toServer \o Wire(x)
<1>1. WireInv /\ toServer \in Seq(Sendables)
  BY InvIs
<1>2. /\ socket = "open" /\ socket' = "open"
      /\ toServer' = IF server.mode = "gone" THEN toServer ELSE toServer \o Wire(x)
  BY DEF Written
<1>3. toServer' \in Seq(Sendables)
  <2>1. toServer \o Wire(x) \in Seq(Sendables)
    BY <1>1, ConcatProperties
  <2> QED BY <1>1, <1>2, <2>1
<1>4. Inbox' = Inbox
  BY DEF Inbox
<1> QED BY <1>1, <1>2, <1>3, <1>4 DEF WireInv

LEMMA WriteFailsIs ==
  ASSUME Inv, NEW x, WriteFails(x), UNCHANGED <<read, toClient, server>>
  PROVE  /\ WireInv' /\ Inbox' = Inbox /\ toServer' = toServer
         /\ socket # "open" \/ server.mode = "gone"
         /\ socket' # "open" /\ socket' \in {"open", "broken", "closed"}
<1>1. WireInv /\ CallInv
  BY InvIs
<1>2. /\ toServer' = toServer /\ (socket # "open" \/ server.mode = "gone")
      /\ socket' # "open" /\ socket' \in {"open", "broken", "closed"}
  BY <1>1 DEF WriteFails, CallInv
<1>3. WireInv' /\ Inbox' = Inbox
  BY <1>1, <1>2, WireStays
<1> QED BY <1>2, <1>3

LEMMA CompleteSendKeeps ==
  ASSUME Inv, CompleteSend
  PROVE  Inv'
<1>1. /\ pc = "complete" /\ xact.state \in Sending
      /\ \/ Written(xact) /\ xact' = sent(xact.state, xact)
         \/ WriteFails(xact) /\ xact' = Broken(xact, "connection")
      /\ UNCHANGED <<read, toClient, server>>
      /\ UNCHANGED <<state, garbage, faults, made, pc, then, pushing, runs>>
      /\ UNCHANGED <<failed, reported, swallowed, killed>>
  BY DEF CompleteSend, callVars, serverVars, boundVars, errorVars
<1>2. /\ xact # None /\ xact \in Transactions /\ Matched(xact) /\ state' \in Statuses
      /\ Inbox \in Seq(Messages) /\ toServer \in Seq(Sendables)
  <2>1. xact # None /\ state' \in Statuses
    BY <1>1, InvIs DEF CallInv
  <2> QED BY <2>1, InvIs
<1>3. \/ Starting /\ xact.state = "standard_sent"
      \/ Lives /\ xact.state = "sent_from_stdin" /\ ~ Doomed
  BY <1>1, <1>2, SendingIs
<1>4. Told \subseteq Told'
  BY <1>1 DEF Told
<1>5. ASSUME xact' \in Transactions, xact'.number = xact.number, WireInv', Matched(xact'), Dead' \/ Lives',
             socket' \in {"open", "broken", "closed"}
      PROVE  Inv'
  <2>1. CallInv' /\ PushInv' /\ NumberInv'
    BY <1>1, <1>2, <1>4, <1>5, StepKeeps
  <2>2. StateInv'
    BY <1>5, NoneAssumption DEF StateInv
  <2> QED BY <1>5, <2>1, <2>2 DEF Inv
<1>6. CASE WriteFails(xact) /\ xact' = Broken(xact, "connection")
  <2>1. /\ xact' \in Transactions /\ xact'.state = "Complete" /\ xact'.fatal = Fatal /\ xact'.number = xact.number
        /\ Matched(xact')
    <3>1. "connection" \in ClientErrors
      BY DEF ClientErrors
    <3> QED BY <1>2, <1>6, <3>1, BrokenIs
  <2>2. /\ WireInv' /\ Inbox' = Inbox /\ toServer' = toServer
        /\ socket # "open" \/ server.mode = "gone"
        /\ socket' # "open" /\ socket' \in {"open", "broken", "closed"}
    BY <1>1, <1>6, WriteFailsIs
  <2>3. Resting(toServer, server)
    <3>1. CASE Starting
      BY <3>1 DEF Starting
    <3>2. CASE Lives /\ ~ Doomed
      BY <2>2, <3>2 DEF Doomed, Resting
    <3> QED BY <1>3, <3>1, <3>2
  <2>4. Dead'
    BY <1>1, <2>1, <2>2, <2>3 DEF Dead
  <2> QED BY <1>5, <2>1, <2>2, <2>4
<1>7. CASE Written(xact) /\ xact' = sent(xact.state, xact) /\ Starting /\ xact.state = "standard_sent"
  <2>1. /\ Fresh(xact, failed) /\ Wire(xact) = xact.commands /\ xact.commands \in Seq(Sendables)
        /\ Doomed => socket # "open" \/ Over(Inbox, toServer, server)
        /\ socket = "open" => Settled(Inbox, toServer, server)
    BY <1>2, <1>7, FreshIs DEF Starting
  <2>2. /\ WireInv' /\ Inbox' = Inbox /\ socket = "open" /\ socket' = "open"
        /\ toServer' = IF server.mode = "gone" THEN toServer ELSE toServer \o Wire(xact)
    BY <1>1, <1>7, <2>1, WrittenIs
  <2>3. xact' = standard_sent(xact)
    BY <1>7, SentIs
  <2>4. /\ Begins(xact', server, failed) /\ xact' \in Transactions /\ Matched(xact')
        /\ xact'.number = xact.number /\ xact'.commands = xact.commands /\ xact'.state = "standard_put"
    BY <1>2, <2>1, <2>3, FreshIsSent
  <2>5. Live(xact', Inbox, IF server.mode = "gone" THEN toServer ELSE toServer \o xact'.commands, server, failed)
    BY <1>2, <2>1, <2>2, <2>4, LiveBegins
  <2>6. Live(xact', Inbox, toServer', server, failed)
    BY <2>1, <2>2, <2>4, <2>5
  <2>7. Doomed => server.mode = "gone"
    BY <2>1, <2>2 DEF Over
  <2>8. Doomed' <=> Doomed
    BY <1>1, <2>2 DEF Doomed
  <2>9. Quiet(Inbox)
    BY <2>1, <2>2 DEF Settled
  <2>10. Lives'
    BY <1>1, <2>2, <2>4, <2>6, <2>7, <2>8, <2>9 DEF Lives, Receiving
  <2> QED BY <1>5, <2>2, <2>4, <2>10
<1>8. CASE Written(xact) /\ xact' = sent(xact.state, xact) /\ Lives /\ xact.state = "sent_from_stdin" /\ ~ Doomed
  <2>1. Live(xact, Inbox, toServer, server, failed)
    BY <1>8 DEF Lives
  <2>2. xact' = sent_from_stdin(xact)
    BY <1>8, SentIs
  <2>3. /\ Wire(xact) \in Seq(Sendables)
        /\ Live(xact', Inbox, IF server.mode = "gone" THEN toServer ELSE toServer \o Wire(xact), server, failed)
        /\ xact' \in Transactions /\ Matched(xact') /\ xact'.number = xact.number
    BY <1>2, <1>8, <2>1, <2>2, LiveIsSent
  <2>4. /\ WireInv' /\ Inbox' = Inbox /\ socket = "open" /\ socket' = "open"
        /\ toServer' = IF server.mode = "gone" THEN toServer ELSE toServer \o Wire(xact)
    BY <1>1, <1>8, <2>3, WrittenIs
  <2>5. Live(xact', Inbox, toServer', server, failed)
    BY <2>3, <2>4
  <2>6. ~ Doomed'
    BY <1>1, <1>8, <2>4 DEF Doomed
  <2>7. Lives'
    BY <1>1, <2>4, <2>5, <2>6 DEF Lives
  <2> QED BY <1>5, <2>3, <2>4, <2>7
<1> QED BY <1>1, <1>3, <1>6, <1>7, <1>8

-----------------------------------------------------------------------------

LEMMA ClosingSentIs ==
  ASSUME NEW x \in Transactions, NEW y, y = closing_sent(x)
  PROVE  /\ y \in Transactions /\ y.state = "Complete" /\ y.fatal = Fatal /\ y.number = x.number
         /\ Matched(x) => Matched(y)
<1>1. "Complete" \in States /\ "none" \in MessageSets /\ Fatal \in {Fatal, NotFatal, None}
  BY DEF States, MessageSets
<1>2. y = [x EXCEPT !.messages = "none", !.state = "Complete", !.fatal = Fatal]
  BY DEF closing_sent
<1>3. y \in Transactions
  BY <1>1, <1>2, TransactionsAre
<1>4. /\ y.state = "Complete" /\ y.fatal = Fatal /\ y.number = x.number
      /\ y.error_message = x.error_message /\ y.completed = x.completed
  BY <1>2, TransactionsAre
<1> QED BY <1>3, <1>4 DEF Matched

\* The Disconnect is sent, or the connection is broken already.
LEMMA ClosingIsSent ==
  ASSUME NEW x \in Transactions, NEW f, Closing(x, f), NEW z \in Transactions,
         z = x \/ z = Broken(x, "connection"), NEW y, y = closing_sent(z)
  PROVE  /\ y \in Transactions /\ Matched(y) /\ y.number = x.number /\ y.state = "Complete" /\ y.fatal = Fatal
<1>1. x = NewClosing(x.number) /\ x.number \in Nat
  BY DEF Closing, Transactions
<1> DEFINE n == x.number
<1>2. /\ x.completed = <<>> /\ x.error_message = ClientError("operation on closed connection")
  <2>1. n \in Nat /\ x = NewClosing(n)
    BY <1>1
  <2> HIDE DEF n
  <2> QED BY <2>1, ClosingIs
<1>3. Matched(x)
  <2>1. x.error_message.type # "Error"
    <3>1. ClientError("operation on closed connection").type = "ClientError"
      BY DEF ClientError
    <3> QED BY <1>2, <3>1
  <2>2. Len(x.completed) = 0
    BY <1>2, EmptySeq
  <2>3. \A k \in 1 .. Len(x.completed) : FALSE
    BY <2>2, NothingIsQuiet
  <2> QED BY <2>1, <2>3 DEF Matched
<1>4. Matched(z) /\ z.number = x.number
  <2>1. CASE z = x
    BY <1>3, <2>1
  <2>2. CASE z = Broken(x, "connection")
    <3>1. "connection" \in ClientErrors
      BY DEF ClientErrors
    <3> QED BY <1>3, <2>2, <3>1, BrokenIs
  <2> QED BY <2>1, <2>2
<1> QED BY <1>4, ClosingSentIs

LEMMA ClosingWire ==
  ASSUME NEW x \in Transactions, NEW f, Closing(x, f)
  PROVE  /\ x.state = "closing_sent"
         /\ \E m \in Sendables : m.type = "Disconnect" /\ Wire(x) = <<m>>
<1> DEFINE n == x.number
           m == [type |-> "Disconnect", id |-> <<n, 1>>]
<1>1. n \in Nat /\ x = NewClosing(n)
  BY DEF Closing, Transactions
<1>2. m \in Sendables /\ m.type = "Disconnect"
  BY <1>1 DEF Sendables, Ids
<1> HIDE DEF n
<1>3. x.state = "closing_sent" /\ x.messages = "commands" /\ x.commands = <<m>>
  BY <1>1, ClosingIs
<1> HIDE DEF m
<1>4. Wire(x) = <<m>>
  BY <1>3 DEF Wire
<1> QED BY <1>2, <1>3, <1>4

LEMMA RestingEnds ==
  ASSUME NEW o \in Seq(Sendables), NEW s, NEW i, Settled(i, o, s), s.mode # "gone",
         NEW m \in Sendables, m.type = "Disconnect"
  PROVE  Resting(o \o <<m>>, s)
<1>1. s.mode = "ready" /\ OnlyCopy(o)
  BY DEF Settled
<1> DEFINE j == o \o <<m>>
<1>2. /\ Len(j) = Len(o) + 1 /\ Len(o) \in Nat
      /\ \A k \in 1 .. Len(j) : j[k] = m \/ (k \in 1 .. Len(o) /\ j[k] = o[k])
  <2>1. j = Append(o, m)
    OBVIOUS
  <2> HIDE DEF j
  <2>2. /\ Len(j) = Len(o) + 1 /\ Len(o) \in Nat /\ j[Len(o) + 1] = m
        /\ \A k \in 1 .. Len(o) : j[k] = o[k]
        /\ \A k \in 1 .. Len(j) : k \in 1 .. Len(o) \/ k = Len(o) + 1
    BY <2>1, AppendedIs
  <2> QED BY <2>2
<1> HIDE DEF j
<1>3. \A k \in 1 .. Len(j) : j[k].type \in CopyWire \cup {"Disconnect"}
  BY <1>1, <1>2 DEF OnlyCopy
<1> QED BY <1>1, <1>3 DEF Resting, j

\* The rest of the invariant when a transaction is started.
LEMMA StartedKeeps ==
  ASSUME Inv, xact = None, Pushing, pc' = "pushed", then' = None, UNCHANGED <<garbage, faults, made, pushing, runs>>,
         failed' = failed, Told' = Told, state' \in Statuses, socket' \in {"open", "broken", "closed"},
         xact' \in Transactions, xact'.number = pushing.number, Leaving' => xact'.fatal = Fatal
  PROVE  CallInv' /\ PushInv' /\ NumberInv'
<1>1. CallInv /\ PushInv /\ NumberInv /\ made \in Nat
  BY InvIs
<1>2. ~ Pushing' /\ xact' # None /\ pc # "idle"
  BY NoneAssumption DEF Pushing
<1>3. pushing.number <= made
  BY <1>1 DEF PushInv
<1>4. CallInv'
  BY <1>1, <1>2 DEF CallInv, Labels
<1>5. NumberInv'
  <2>1. made <= made' /\ xact'.number <= made'
    BY <1>1, <1>3
  <2> QED BY <1>1, <1>2, <2>1, NumberStays
<1> QED BY <1>2, <1>4, <1>5 DEF PushInv

LEMMA StartKeeps ==
  ASSUME Inv, Start
  PROVE  Inv'
<1>1. PICK y :
        /\ \/ Written(pushing) /\ y = sent(pushing.state, pushing)
           \/ WriteFails(pushing) /\ y = sent(pushing.state, Broken(pushing, "connection"))
        /\ xact' = Stepped(y)
  BY DEF Start, SendStep
<1>2. /\ pc \in {"start", "push"} /\ pc' = "pushed" /\ then' = None
      /\ UNCHANGED <<read, toClient, server>>
      /\ UNCHANGED <<state, garbage, faults, made, pushing, runs>>
      /\ UNCHANGED <<failed, reported, swallowed, killed>>
  BY DEF Start, Goto, serverVars, boundVars, errorVars
<1>3. Pushing /\ xact = None /\ Idle /\ state' \in Statuses /\ Told' = Told /\ (socket' # socket => socket' = "broken")
  <2>1. CallInv
    BY InvIs
  <2>2. Pushing /\ xact = None /\ state' \in Statuses /\ Told' = Told
    BY <1>2, <2>1 DEF Pushing, CallInv, Told
  <2>3. socket' # socket => socket' = "broken"
    BY <1>1 DEF Written, WriteFails
  <2> QED BY <2>2, <2>3, InvIs
<1>4. /\ pushing # None /\ pushing \in Transactions
      /\ \/ Fresh(pushing, failed) /\ runs # "close"
         \/ Closing(pushing, failed) /\ runs = "close"
  <2>1. /\ pushing # None
        /\ \/ Fresh(pushing, failed) /\ runs # "close"
           \/ Closing(pushing, failed) /\ runs = "close"
    BY <1>3, InvIs DEF PushInv
  <2> QED BY <2>1, InvIs DEF CallInv
<1>5. /\ Settled(Inbox, toServer, server) /\ ~ Doomed /\ socket = "open" /\ killed = {}
      /\ Inbox \in Seq(Messages) /\ toServer \in Seq(Sendables)
  BY <1>3, InvIs DEF Idle, Doomed
<1>6. ASSUME xact' \in Transactions, xact'.number = pushing.number, Leaving' => xact'.fatal = Fatal,
             WireInv', Matched(xact'), Dead' \/ Lives', socket' \in {"open", "broken", "closed"}
      PROVE  Inv'
  <2>1. CallInv' /\ PushInv' /\ NumberInv'
    BY <1>2, <1>3, <1>6, StartedKeeps
  <2>2. StateInv'
    BY <1>6, NoneAssumption DEF StateInv
  <2> QED BY <1>6, <2>1, <2>2 DEF Inv
<1>7. WriteFails(pushing) =>
        /\ Broken(pushing, "connection") \in Transactions /\ WireInv' /\ Inbox' = Inbox /\ toServer' = toServer
        /\ server.mode = "gone" /\ socket' # "open" /\ socket' \in {"open", "broken", "closed"}
  <2> SUFFICES ASSUME WriteFails(pushing)
               PROVE  /\ Broken(pushing, "connection") \in Transactions /\ WireInv' /\ Inbox' = Inbox
                      /\ toServer' = toServer
                      /\ server.mode = "gone" /\ socket' # "open" /\ socket' \in {"open", "broken", "closed"}
    OBVIOUS
  <2>1. /\ WireInv' /\ Inbox' = Inbox /\ toServer' = toServer
        /\ socket # "open" \/ server.mode = "gone"
        /\ socket' # "open" /\ socket' \in {"open", "broken", "closed"}
    BY <1>2, WriteFailsIs
  <2>2. "connection" \in ClientErrors
    BY DEF ClientErrors
  <2>3. Broken(pushing, "connection") \in Transactions
    BY <1>4, <2>2, BrokenIs
  <2> QED BY <1>5, <2>1, <2>3
<1>8. CASE Fresh(pushing, failed) /\ runs # "close"
  <2>1. /\ pushing.state = "standard_sent" /\ Wire(pushing) = pushing.commands
        /\ pushing.commands \in Seq(Sendables)
    BY <1>4, <1>8, FreshIs
  <2>2. Written(pushing) =>
          /\ WireInv' /\ Inbox' = Inbox /\ socket' = "open"
          /\ toServer' = IF server.mode = "gone" THEN toServer ELSE toServer \o pushing.commands
    BY <1>2, <2>1, WrittenIs
  <2>3. \E z \in Transactions :
          /\ y = standard_sent(z)
          /\ \/ Written(pushing) /\ z = pushing
             \/ WriteFails(pushing) /\ z = Broken(pushing, "connection")
    <3>1. CASE Written(pushing) /\ y = sent(pushing.state, pushing)
      <4>1. y = standard_sent(pushing)
        BY <2>1, <3>1, SentIs
      <4> QED BY <1>4, <3>1, <4>1
    <3>2. CASE WriteFails(pushing) /\ y = sent(pushing.state, Broken(pushing, "connection"))
      <4>1. y = standard_sent(Broken(pushing, "connection"))
        BY <2>1, <3>2, SentIs
      <4> QED BY <1>7, <3>2, <4>1
    <3> QED BY <1>1, <3>1, <3>2
  <2>4. PICK z \in Transactions :
          /\ y = standard_sent(z)
          /\ \/ Written(pushing) /\ z = pushing
             \/ WriteFails(pushing) /\ z = Broken(pushing, "connection")
    BY <2>3
  <2>5. z = pushing \/ (server.mode = "gone" /\ \E text \in ClientErrors : z = Broken(pushing, text))
    <3>1. "connection" \in ClientErrors
      BY DEF ClientErrors
    <3> QED BY <1>7, <2>4, <3>1
  <2>6. /\ Begins(y, server, failed) /\ y \in Transactions /\ Matched(y) /\ y.number = pushing.number
        /\ y.commands = pushing.commands /\ y.state = "standard_put"
    BY <1>4, <1>8, <2>4, <2>5, FreshIsSent
  <2>7. Live(y, Inbox, IF server.mode = "gone" THEN toServer ELSE toServer \o y.commands, server, failed)
    BY <1>5, <2>6, LiveBegins
  <2>8. /\ WireInv' /\ Inbox' = Inbox /\ socket' \in {"open", "broken", "closed"}
        /\ toServer' = IF server.mode = "gone" THEN toServer ELSE toServer \o pushing.commands
        /\ Doomed' => server.mode = "gone"
    <3>1. CASE Written(pushing)
      BY <1>2, <1>5, <2>2, <3>1 DEF Doomed
    <3>2. CASE WriteFails(pushing)
      BY <1>7, <3>2
    <3> QED BY <2>4, <3>1, <3>2
  <2>9. xact' = y
    BY <1>1, <2>6 DEF Stepped
  <2>10. Live(xact', Inbox', toServer', server, failed) /\ Quiet(Inbox)
    BY <1>5, <2>6, <2>7, <2>8, <2>9 DEF Settled
  <2>11. Lives'
    BY <1>2, <2>6, <2>8, <2>9, <2>10 DEF Lives, Receiving
  <2>12. ~ Leaving'
    BY <1>2, <1>8 DEF Leaving
  <2> QED BY <1>6, <2>6, <2>8, <2>9, <2>11, <2>12
<1>9. CASE Closing(pushing, failed) /\ runs = "close"
  <2>1. pushing.state = "closing_sent" /\ \E m \in Sendables : m.type = "Disconnect" /\ Wire(pushing) = <<m>>
    BY <1>4, <1>9, ClosingWire
  <2>2. PICK m \in Sendables : m.type = "Disconnect" /\ Wire(pushing) = <<m>>
    BY <2>1
  <2>3. Wire(pushing) \in Seq(Sendables)
    BY <2>2
  <2>4. \E z \in Transactions :
          /\ y = closing_sent(z)
          /\ \/ Written(pushing) /\ z = pushing
             \/ WriteFails(pushing) /\ z = Broken(pushing, "connection")
    <3>1. CASE Written(pushing) /\ y = sent(pushing.state, pushing)
      <4>1. y = closing_sent(pushing)
        BY <2>1, <3>1, SentIs
      <4> QED BY <1>4, <3>1, <4>1
    <3>2. CASE WriteFails(pushing) /\ y = sent(pushing.state, Broken(pushing, "connection"))
      <4>1. y = closing_sent(Broken(pushing, "connection"))
        BY <2>1, <3>2, SentIs
      <4> QED BY <1>7, <3>2, <4>1
    <3> QED BY <1>1, <3>1, <3>2
  <2>5. PICK z \in Transactions :
          /\ y = closing_sent(z)
          /\ \/ Written(pushing) /\ z = pushing
             \/ WriteFails(pushing) /\ z = Broken(pushing, "connection")
    BY <2>4
  <2>6. y \in Transactions /\ Matched(y) /\ y.number = pushing.number /\ y.state = "Complete" /\ y.fatal = Fatal
    BY <1>4, <1>9, <2>5, ClosingIsSent
  <2>7. xact' = y
    BY <1>1, <2>6 DEF Stepped, Kept
  <2>8. /\ WireInv' /\ socket' \in {"open", "broken", "closed"} /\ Resting(toServer', server)
    <3>1. CASE Written(pushing)
      <4>1. /\ WireInv' /\ socket' = "open"
            /\ toServer' = IF server.mode = "gone" THEN toServer ELSE toServer \o <<m>>
        BY <1>2, <2>2, <2>3, <3>1, WrittenIs
      <4>2. CASE server.mode = "gone"
        BY <4>1, <4>2 DEF Resting
      <4>3. CASE server.mode # "gone"
        BY <1>5, <2>2, <4>1, <4>3, RestingEnds
      <4> QED BY <4>1, <4>2, <4>3
    <3>2. CASE WriteFails(pushing)
      BY <1>7, <3>2 DEF Resting
    <3> QED BY <2>5, <3>1, <3>2
  <2>9. Leaving'
    BY <1>2, <1>9 DEF Leaving
  <2>10. Dead'
    BY <1>2, <2>6, <2>7, <2>8, <2>9 DEF Dead
  <2> QED BY <1>6, <2>6, <2>7, <2>8, <2>10
<1> QED BY <1>4, <1>8, <1>9

-----------------------------------------------------------------------------

LEMMA RaisedIs ==
  ASSUME NEW y, Raised(y)
  PROVE  failed' = failed /\ Told \subseteq Told' /\ killed' = killed \cup Errors(y, {Fatal})
BY DEF Raised, Told

\* The invariant after an action that takes the transaction a step further.
LEMMA StepsKeep ==
  ASSUME Inv, xact # None, xact' \in Transactions, xact'.number = xact.number, Matched(xact'),
         pc \in {"complete", "idle"}, UNCHANGED <<garbage, faults, made, pc, then, pushing, runs>>,
         failed' = failed, Told \subseteq Told', WireInv', Dead' \/ Lives',
         socket' \in {"open", "broken", "closed"}, state' \in Statuses
  PROVE  Inv'
<1>1. CallInv' /\ PushInv' /\ NumberInv'
  BY StepKeeps
<1>2. StateInv'
  BY NoneAssumption DEF StateInv
<1> QED BY <1>1, <1>2 DEF Inv

LEMMA PqStepSendKeeps ==
  ASSUME Inv, PqStepSend
  PROVE  Inv'
<1>1. PICK y :
        /\ \/ Written(xact) /\ y = sent(xact.state, xact)
           \/ WriteFails(xact) /\ y = sent(xact.state, Broken(xact, "connection"))
        /\ xact' = Stepped(y) /\ Raised(y)
  BY DEF PqStepSend, SendStep
<1>2. /\ pc = "idle" /\ xact # None /\ xact.state \in Sending /\ xact.messages \notin {"done", "fail"}
      /\ UNCHANGED <<read, toClient, server>>
      /\ UNCHANGED <<state, garbage, faults, made, pc, then, pushing, runs>>
  BY DEF PqStepSend, callVars, serverVars, boundVars
<1>3. /\ xact \in Transactions /\ Matched(xact) /\ state' \in Statuses /\ socket \in {"open", "broken", "closed"}
      /\ Inbox \in Seq(Messages) /\ toServer \in Seq(Sendables)
  <2>1. state' \in Statuses /\ socket \in {"open", "broken", "closed"}
    BY <1>2, InvIs DEF CallInv
  <2> QED BY <1>2, <2>1, InvIs
<1>4. Lives /\ xact.state = "sent_from_stdin" /\ ~ Doomed
  <2>1. ~ Starting
    BY <1>2 DEF Starting, Opening
  <2> QED BY <1>2, <2>1, SendingIs
<1>5. failed' = failed /\ Told \subseteq Told' /\ killed' = killed \cup Errors(y, {Fatal})
  BY <1>1, RaisedIs
<1>6. CASE Written(xact) /\ y = sent(xact.state, xact)
  <2>1. Live(xact, Inbox, toServer, server, failed)
    BY <1>4 DEF Lives
  <2>2. y = sent_from_stdin(xact)
    BY <1>4, <1>6, SentIs
  <2>3. /\ Wire(xact) \in Seq(Sendables)
        /\ Live(y, Inbox, IF server.mode = "gone" THEN toServer ELSE toServer \o Wire(xact), server, failed)
        /\ y \in Transactions /\ Matched(y) /\ y.number = xact.number /\ y.state # "Complete"
    BY <1>3, <1>4, <2>1, <2>2, LiveIsSent
  <2>4. /\ WireInv' /\ Inbox' = Inbox /\ socket = "open" /\ socket' = "open"
        /\ toServer' = IF server.mode = "gone" THEN toServer ELSE toServer \o Wire(xact)
    BY <1>2, <1>6, <2>3, WrittenIs
  <2>5. xact' = y /\ killed' = killed
    <3>1. Errors(y, {Fatal}) = {}
      BY <2>3, ErrorsAre
    <3> QED BY <1>1, <1>5, <2>3, <3>1 DEF Stepped
  <2>6. Live(xact', Inbox, toServer', server, failed)
    BY <2>3, <2>4, <2>5
  <2>7. ~ Doomed'
    BY <1>4, <2>4, <2>5 DEF Doomed
  <2>8. Lives'
    BY <1>2, <1>5, <2>4, <2>6, <2>7 DEF Lives
  <2> QED BY <1>2, <1>3, <1>5, <2>3, <2>4, <2>5, <2>8, StepsKeep
<1>7. CASE WriteFails(xact) /\ y = sent(xact.state, Broken(xact, "connection"))
  <2> DEFINE b == Broken(xact, "connection")
  <2>1. /\ b \in Transactions /\ b.state = "Complete" /\ b.fatal = Fatal /\ b.number = xact.number
        /\ b.messages = xact.messages /\ Matched(b)
    <3>1. "connection" \in ClientErrors
      BY DEF ClientErrors
    <3> QED BY <1>3, <3>1, BrokenIs
  <2> HIDE DEF b
  <2>2. y = sent_from_stdin(b)
    <3>1. y = sent("sent_from_stdin", b)
      BY <1>4, <1>7 DEF b
    <3> QED BY <3>1, SentIs
  <2>3. y = [b EXCEPT !.messages = "fail"]
    BY <1>2, <2>1, <2>2 DEF sent_from_stdin
  <2>4. "fail" \in MessageSets
    BY DEF MessageSets
  <2>5. y \in Transactions
    BY <2>1, <2>3, <2>4, TransactionsAre
  <2>6. /\ y.state = "Complete" /\ y.fatal = Fatal /\ y.number = xact.number
        /\ y.completed = b.completed /\ y.error_message = b.error_message
    BY <2>1, <2>3, TransactionsAre
  <2>7. Matched(y)
    BY <2>1, <2>6 DEF Matched
  <2>8. xact' = y
    BY <1>1, <2>6 DEF Stepped, Kept
  <2>9. /\ WireInv' /\ Inbox' = Inbox /\ toServer' = toServer
        /\ socket # "open" \/ server.mode = "gone"
        /\ socket' # "open" /\ socket' \in {"open", "broken", "closed"}
    BY <1>2, <1>7, WriteFailsIs
  <2>10. Resting(toServer, server)
    BY <1>4, <2>9 DEF Doomed, Resting
  <2>11. Dead'
    BY <1>2, <2>6, <2>8, <2>9, <2>10 DEF Dead
  <2> QED BY <1>2, <1>3, <1>5, <2>5, <2>6, <2>7, <2>8, <2>9, <2>11, StepsKeep
<1> QED BY <1>1, <1>6, <1>7

LEMMA SetMessagesKeeps ==
  ASSUME Inv, NEW messages \in {"chunk", "done"}, SetMessages(messages)
  PROVE  Inv'
<1>1. /\ pc = "idle" /\ xact # None /\ xact.state = "sent_from_stdin"
      /\ xact' = [xact EXCEPT !.messages = messages]
      /\ UNCHANGED <<read, toClient, toServer, server>>
      /\ UNCHANGED <<state, socket, garbage, faults, made, pc, then, pushing, runs>>
      /\ UNCHANGED <<failed, reported, swallowed, killed>>
  BY DEF SetMessages, callVars, wire, serverVars, errorVars
<1>2. /\ xact \in Transactions /\ Matched(xact) /\ state' \in Statuses /\ socket' \in {"open", "broken", "closed"}
  <2>1. state' \in Statuses /\ socket' \in {"open", "broken", "closed"}
    BY <1>1, InvIs DEF CallInv
  <2> QED BY <1>1, <2>1, InvIs
<1>3. Lives /\ ~ Doomed
  <2>1. ~ Starting
    BY <1>1 DEF Starting, Opening
  <2> QED BY <1>1, <2>1, SendingIs DEF Sending
<1>4. messages \in MessageSets /\ messages # "commands"
  BY DEF MessageSets
<1>5. xact' \in Transactions
  BY <1>1, <1>2, <1>4, TransactionsAre
<1>6. /\ xact'.commands = xact.commands /\ xact'.number = xact.number /\ xact'.offset = xact.offset
      /\ xact'.step = xact.step /\ xact'.state = xact.state /\ xact'.fatal = xact.fatal
      /\ xact'.reissued = xact.reissued /\ xact'.last_ready = xact.last_ready
      /\ xact'.messages = messages
      /\ xact'.completed = xact.completed /\ xact'.error_message = xact.error_message
  BY <1>1, <1>2, TransactionsAre
<1>7. Matched(xact') /\ Binds(xact, xact')
  BY <1>2, <1>4, <1>6 DEF Matched, Binds
<1>8. WireInv' /\ Inbox' = Inbox
  BY <1>1, InvIs, WireStays
<1>9. Live(xact', Inbox, toServer, server, failed)
  <2>1. Live(xact, Inbox, toServer, server, failed)
    BY <1>3 DEF Lives
  <2> QED BY <1>7, <2>1, LiveBinds
<1>10. ~ Doomed' /\ Told \subseteq Told'
  BY <1>1, <1>3 DEF Doomed, Told
<1>11. Lives'
  BY <1>1, <1>8, <1>9, <1>10 DEF Lives
<1> QED BY <1>1, <1>2, <1>5, <1>6, <1>7, <1>8, <1>10, <1>11, StepsKeep

-----------------------------------------------------------------------------
(* Receiving.                                                              *)

LEMMA ReceivingIs ==
  ASSUME Inv, xact # None, xact.state \in Receiving
  PROVE  /\ Lives /\ xact \in Transactions /\ Matched(xact) /\ Live(xact, Inbox, toServer, server, failed)
         /\ Doomed => Quiet(Inbox) /\ server.mode = "gone"
         /\ Going(xact) /\ (server.mode = "gone" => toServer = <<>>)
<1>1. xact \in Transactions /\ Matched(xact) /\ (Dead \/ Starting \/ Lives)
  BY InvIs
<1>2. ~ Dead
  BY DEF Dead, Receiving
<1>3. ~ Starting
  BY <1>1, FreshIs DEF Starting, Receiving
<1>4. Lives
  BY <1>1, <1>2, <1>3
<1>5. Live(xact, Inbox, toServer, server, failed) /\ (Doomed => Quiet(Inbox) /\ server.mode = "gone")
  BY <1>4 DEF Lives
<1>6. Going(xact) /\ (server.mode = "gone" => toServer = <<>>)
  BY <1>5 DEF Live, StandsAt
<1> QED BY <1>1, <1>4, <1>5, <1>6

LEMMA FirstPart ==
  ASSUME NEW S, NEW i \in Seq(S), NEW g \in 0 .. Len(i), NEW j, j = SubSeq(i, 1, g)
  PROVE  /\ j \in Seq(S) /\ Len(j) = g
         /\ \A n \in 1 .. g : n \in 1 .. Len(i) /\ j[n] = i[n]
<1>1. Len(i) \in Nat /\ g \in Nat /\ g <= Len(i)
  BY LenProperties
<1>2. \A n \in 1 .. g : i[n] \in S
  BY <1>1, ElementOfSeq
<1>3. /\ SubSeq(i, 1, g) \in Seq(S)
      /\ Len(SubSeq(i, 1, g)) = IF 1 <= g THEN g - 1 + 1 ELSE 0
      /\ \A n \in 1 .. g - 1 + 1 : SubSeq(i, 1, g)[n] = i[1 + n - 1]
  BY <1>1, <1>2, SubSeqProperties
<1> QED BY <1>1, <1>3

LEMMA ReceivesIs ==
  ASSUME Inv, xact # None, xact.state \in Receiving, NEW group \in Groups,
         NEW r, r = put(xact.state, xact, group), NEW y, y = r.xact, Took(r, group),
         UNCHANGED <<toServer, server>>
  PROVE  /\ ~ r.raised /\ y \in Transactions /\ Matched(y) /\ y.number = xact.number /\ WireInv'
         /\ \/ y.state = "Complete" /\ y.fatal = Fatal /\ Over(Inbox', toServer, server)
            \/ /\ Live(y, Inbox', toServer, server, failed)
               /\ Doomed => y.state \in Receiving /\ Quiet(Inbox') /\ server.mode = "gone"
<1> DEFINE i == Inbox
           g == Len(group)
           k == r.count
           j == SubSeq(i, k + 1, Len(i))
<1>1. /\ Lives /\ xact \in Transactions /\ Matched(xact) /\ Live(xact, i, toServer, server, failed)
      /\ Doomed => Quiet(i) /\ server.mode = "gone"
      /\ Going(xact)
  BY ReceivingIs
<1>2. /\ i \in Seq(Messages) /\ Len(i) \in Nat
      /\ read \in Seq(Messages) /\ toClient \in Seq(Messages) /\ FatalLast(i, server)
      /\ toServer \in Seq(Sendables) /\ server \in Servers
  BY InvIs DEF WireInv
<1>3. /\ g \in 1 .. Len(i) /\ group = SubSeq(i, 1, g) /\ group \in Seq(Messages) /\ group # <<>>
      /\ Unread(group) \in Seq(Messages)
      /\ \A l \in 0 .. Len(group) :
           /\ SubSeq(group, l + 1, Len(group)) \in Seq(Messages)
           /\ SubSeq(group, l + 1, Len(group)) \o Unread(group) = SubSeq(i, l + 1, Len(i))
  BY <1>2, GroupsAre DEF Inbox
<1>4. \A n \in 1 .. Len(i) : i[n].type = "FatalError" => n = Len(i) /\ server.mode = "gone"
  BY <1>2 DEF FatalLast
<1> HIDE DEF i, g, j, k
<1>5. y = r.xact /\ r = put(xact.state, xact, group)
  OBVIOUS
<1>6. /\ ~ r.raised
      /\ y \in Transactions /\ Matched(y) /\ k \in 0 .. g /\ y.number = xact.number
      /\ Lastly(y, j, toServer, server) \/ Live(y, j, toServer, server, failed)
  <2>1. group \in Starts(i)
    BY <1>3 DEF Starts
  <2>2. Reads(xact, i, toServer, server, failed, group, r)
    BY <1>1, <1>2, <2>1, LiveReads
  <2> QED BY <2>2 DEF Reads, j, k, g
<1>7. read' \in Seq(Messages) /\ toClient' \in Seq(Messages) /\ Inbox' = j
  <2>1. read' = SubSeq(group, k + 1, Len(group)) /\ toClient' = Unread(group)
    BY DEF Took, k
  <2>2. k \in 0 .. Len(group)
    BY <1>6 DEF g
  <2> QED BY <1>3, <2>1, <2>2 DEF Inbox, j
<1>8. /\ j \in Seq(Messages) /\ Len(j) = Len(i) - k /\ Len(j) \in Nat /\ k \in Nat
      /\ \A n \in 1 .. Len(j) : n + k \in 1 .. Len(i) /\ j[n] = i[n + k]
  <2>1. k \in 0 .. Len(i) /\ k \in Nat
    BY <1>2, <1>3, <1>6
  <2>2. j = SubSeq(i, k + 1, Len(i))
    BY DEF j
  <2>3. i \in Seq(Messages)
    BY <1>2, <1>3
  <2> QED BY <2>1, <2>2, <2>3, ShorterIs
<1>9. FatalLast(j, server)
  <2> SUFFICES ASSUME NEW n \in 1 .. Len(j), j[n].type = "FatalError"
               PROVE  n = Len(j) /\ server.mode = "gone"
    BY DEF FatalLast
  <2>1. n + k \in 1 .. Len(i) /\ i[n + k].type = "FatalError"
    BY <1>8
  <2>2. n + k = Len(i) /\ server.mode = "gone"
    BY <1>4, <2>1
  <2>3. Len(i) \in Nat
    BY <2>1, <2>2, <1>8
  <2> QED BY <1>8, <2>2, <2>3
<1>10. WireInv'
  BY <1>2, <1>7, <1>9 DEF WireInv
<1>11. CASE Lastly(y, j, toServer, server)
  BY <1>5, <1>6, <1>7, <1>10, <1>11 DEF Lastly, Over
<1>12. CASE Live(y, j, toServer, server, failed)
  <2>1. ASSUME Doomed PROVE y.state \in Receiving /\ Quiet(j) /\ server.mode = "gone"
    <3>1. Quiet(i) /\ server.mode = "gone"
      BY <1>1, <2>1
    <3>2. Quiet(j)
      BY <1>8, <3>1 DEF Quiet
    <3>3. Quiet(group)
      <4>1. \A n \in 1 .. g : n \in 1 .. Len(i) /\ group[n] = i[n]
        BY <1>2, <1>3, FirstPart
      <4> QED BY <3>1, <4>1 DEF Quiet, g
    <3>4. y.state \in Receiving \/ (y.state = "Complete" /\ y.fatal = Fatal)
      BY <1>1, <1>3, <1>5, <3>3, QuietReads
    <3>5. ~ (y.state = "Complete" /\ y.fatal = Fatal)
      BY <1>12 DEF Live, Late, Receiving
    <3> QED BY <3>1, <3>2, <3>4, <3>5
  <2> QED BY <1>5, <1>6, <1>7, <1>10, <1>12, <2>1
<1> QED BY <1>6, <1>11, <1>12

\* The stream has ended.
LEMMA EndIs ==
  ASSUME Inv, xact # None, xact.state \in Receiving, AtEOF
  PROVE  Inbox = <<>> /\ toServer = <<>> /\ server.mode = "gone" /\ Over(Inbox, toServer, server)
<1>1. Inbox = <<>>
  BY DEF AtEOF, Inbox
<1>2. server.mode = "gone"
  BY ReceivingIs DEF AtEOF, Doomed
<1> QED BY <1>1, <1>2, ReceivingIs DEF Over

LEMMA CompleteReceiveKeeps ==
  ASSUME Inv, CompleteReceive
  PROVE  Inv'
<1>1. /\ pc = "complete" /\ xact.state \in Receiving
      /\ UNCHANGED <<toServer, server>>
      /\ UNCHANGED <<state, socket, garbage, faults, made, pc, then, pushing, runs>>
      /\ UNCHANGED <<failed, reported, swallowed, killed>>
  BY DEF CompleteReceive, callVars, serverVars, boundVars, errorVars
<1>2. /\ xact # None /\ state' \in Statuses /\ socket' \in {"open", "broken", "closed"} /\ Told \subseteq Told'
      /\ ~ Leaving' /\ (Doomed' <=> Doomed)
  BY <1>1, InvIs DEF CallInv, Told, Leaving, Doomed
<1>3. ASSUME NEW group \in Groups, NEW r, r = put(xact.state, xact, group), xact' = r.xact, Took(r, group)
      PROVE  Inv'
  <2>1. /\ xact' \in Transactions /\ Matched(xact') /\ xact'.number = xact.number /\ WireInv'
        /\ \/ xact'.state = "Complete" /\ xact'.fatal = Fatal /\ Over(Inbox', toServer, server)
           \/ /\ Live(xact', Inbox', toServer, server, failed)
              /\ Doomed => xact'.state \in Receiving /\ Quiet(Inbox') /\ server.mode = "gone"
    <3> DEFINE y == r.xact
    <3>1. xact' = y
      BY <1>3
    <3> HIDE DEF y
    <3>2. /\ y \in Transactions /\ Matched(y) /\ y.number = xact.number /\ WireInv'
          /\ \/ y.state = "Complete" /\ y.fatal = Fatal /\ Over(Inbox', toServer, server)
             \/ /\ Live(y, Inbox', toServer, server, failed)
                /\ Doomed => y.state \in Receiving /\ Quiet(Inbox') /\ server.mode = "gone"
      BY <1>1, <1>2, <1>3, ReceivesIs DEF y
    <3> QED BY <3>1, <3>2
  <2>2. CASE xact'.state = "Complete" /\ xact'.fatal = Fatal /\ Over(Inbox', toServer, server)
    <3>1. Dead'
      BY <1>1, <2>2, OverIsSettled DEF Dead
    <3> QED BY <1>1, <1>2, <2>1, <3>1, StepsKeep
  <2>3. CASE /\ Live(xact', Inbox', toServer, server, failed)
             /\ Doomed => xact'.state \in Receiving /\ Quiet(Inbox') /\ server.mode = "gone"
    <3>1. Lives'
      BY <1>1, <1>2, <2>3 DEF Lives
    <3> QED BY <1>1, <1>2, <2>1, <3>1, StepsKeep
  <2> QED BY <2>1, <2>2, <2>3
<1>4. ASSUME AtEOF, xact' = Broken(xact, "unexpected EOF"), UNCHANGED <<read, toClient>>
      PROVE  Inv'
  <2>1. Inbox = <<>> /\ toServer = <<>> /\ server.mode = "gone" /\ Over(Inbox, toServer, server)
    BY <1>1, <1>2, <1>4, EndIs
  <2>2. /\ xact' \in Transactions /\ xact'.state = "Complete" /\ xact'.fatal = Fatal /\ xact'.number = xact.number
        /\ Matched(xact')
    <3>1. "unexpected EOF" \in ClientErrors
      BY DEF ClientErrors
    <3>2. xact \in Transactions /\ Matched(xact)
      BY <1>2, InvIs
    <3> QED BY <1>4, <3>1, <3>2, BrokenIs
  <2>3. WireInv' /\ Inbox' = Inbox
    BY <1>1, <1>4, InvIs, WireStays
  <2>4. Dead'
    BY <1>1, <2>1, <2>2, <2>3, OverIsSettled DEF Dead
  <2> QED BY <1>1, <1>2, <2>2, <2>3, <2>4, StepsKeep
<1> QED BY <1>3, <1>4 DEF CompleteReceive

-----------------------------------------------------------------------------

\* The rest of the invariant at the end of step(): the transaction is over.
LEMMA OverKeeps ==
  ASSUME Inv, xact # None, xact' = None, pc = "idle", UNCHANGED <<garbage, faults, made, pc, then, pushing, runs>>,
         failed' = failed, failed \subseteq Told', UNCHANGED socket, state' \in Statuses, WireInv', Idle'
  PROVE  Inv'
<1>1. CallInv /\ NumberInv /\ made \in Nat
  BY InvIs
<1>2. ~ Leaving' /\ ~ Pushing' /\ pushing = None
  <2>1. pushing = None
    BY <1>1, IdleIs
  <2> QED BY <2>1 DEF Leaving, Pushing
<1>3. CallInv'
  BY <1>1, <1>2 DEF CallInv
<1>4. NumberInv'
  <2>1. \A n \in failed' : n \in Nat /\ n <= made'
    BY <1>1 DEF NumberInv
  <2>2. failed' \subseteq Told'
    OBVIOUS
  <2> QED BY <2>1, <2>2 DEF NumberInv
<1>5. PushInv'
  BY <1>2 DEF PushInv
<1>6. StateInv'
  BY DEF StateInv
<1> QED BY <1>3, <1>4, <1>5, <1>6 DEF Inv

\* step() has received a part of the answer.
LEMMA SteppedKeeps ==
  ASSUME Inv, pc = "idle", xact # None, UNCHANGED <<socket, toServer, server>>,
         UNCHANGED <<garbage, faults, made, pc, then, pushing, runs>>,
         NEW y \in Transactions, Matched(y), y.number = xact.number, WireInv',
         xact' = Stepped(y), state' = LastReady(y), Raised(y),
         \/ y.state = "Complete" /\ y.fatal = Fatal /\ Over(Inbox', toServer, server)
         \/ /\ Live(y, Inbox', toServer, server, failed)
            /\ Doomed => y.state \in Receiving /\ Quiet(Inbox') /\ server.mode = "gone"
  PROVE  Inv'
<1>1. /\ socket' \in {"open", "broken", "closed"} /\ state \in Statuses
  BY InvIs DEF CallInv
<1>2. failed' = failed /\ Told \subseteq Told' /\ killed' = killed \cup Errors(y, {Fatal})
  BY RaisedIs
<1>3. y.last_ready \in Statuses \cup {None}
  BY TransactionsAre DEF Statuses
<1>4. state' \in Statuses
  BY <1>1, <1>3 DEF LastReady
<1>5. CASE y.state = "Complete" /\ y.fatal = Fatal /\ Over(Inbox', toServer, server)
  <2>1. xact' = y
    BY <1>5 DEF Stepped, Kept
  <2>2. Dead'
    BY <1>5, <2>1, OverIsSettled DEF Dead
  <2> QED BY <1>1, <1>2, <1>4, <2>1, <2>2, StepsKeep
<1>6. CASE /\ Live(y, Inbox', toServer, server, failed) /\ y.state # "Complete"
           /\ Doomed => y.state \in Receiving /\ Quiet(Inbox') /\ server.mode = "gone"
  <2>1. xact' = y
    BY <1>6 DEF Stepped
  <2>2. killed' = killed
    BY <1>2, <1>6, ErrorsAre
  <2>3. Doomed' <=> Doomed
    BY <2>2 DEF Doomed
  <2>4. Lives'
    BY <1>2, <1>6, <2>1, <2>3 DEF Lives
  <2> QED BY <1>1, <1>2, <1>4, <2>1, <2>4, StepsKeep
<1>7. CASE /\ Live(y, Inbox', toServer, server, failed) /\ y.state = "Complete"
           /\ Doomed => y.state \in Receiving
  <2>1. Inbox' \in Seq(Messages)
    <3>1. read' \in Seq(Messages) /\ toClient' \in Seq(Messages)
      BY DEF WireInv
    <3> QED BY <3>1, ConcatProperties DEF Inbox
  <2>2. /\ y.fatal # Fatal /\ y.last_ready \in Statuses
        /\ Settled(Inbox', toServer, server)
        /\ server.mode = "ready" => y.last_ready = server.tx
        /\ y.number \in failed => y.fatal = NotFatal
    BY <1>7, <2>1, LiveCompletes
  <2>3. xact' = None
    BY <1>7, <2>2 DEF Stepped, Kept
  <2>4. state' = y.last_ready
    BY <2>2, NoneAssumption DEF LastReady, Statuses
  <2>5. killed' = killed
    BY <1>2, <2>2, ErrorsAre
  <2>6. ~ Doomed'
    BY <1>7, <2>5 DEF Doomed, Receiving
  <2>7. Idle'
    BY <2>2, <2>4, <2>6 DEF Idle
  <2>8. failed \subseteq Told'
    <3>1. y.number \in failed => y.fatal \in {Fatal, NotFatal}
      BY <2>2
    <3> QED BY <1>7, <3>1, ErrorsAreTold
  <2> QED BY <1>2, <1>4, <2>3, <2>7, <2>8, OverKeeps
<1> QED BY <1>5, <1>6, <1>7

LEMMA PqStepReceiveKeeps ==
  ASSUME Inv, PqStepReceive
  PROVE  Inv'
<1>1. /\ pc = "idle" /\ xact # None /\ xact.state \in Receiving
      /\ UNCHANGED <<socket, toServer, server>>
      /\ UNCHANGED <<garbage, faults, made, pc, then, pushing, runs>>
  BY DEF PqStepReceive, callVars, serverVars, boundVars
<1>2. /\ xact \in Transactions /\ Matched(xact) /\ Live(xact, Inbox, toServer, server, failed)
      /\ socket' \in {"open", "broken", "closed"} /\ state \in Statuses
  <2>1. socket' \in {"open", "broken", "closed"} /\ state \in Statuses
    BY <1>1, InvIs DEF CallInv
  <2> QED BY <1>1, <2>1, ReceivingIs
<1>3. PICK group \in Groups \cup {g \in { <<>> } : AtEOF} :
        LET x == IF group = <<>> THEN Broken(xact, "unexpected EOF") ELSE xact
            r == put(xact.state, x, group)
        IN  /\ Took(r, group)
            /\ IF r.raised
               THEN xact' = x /\ UNCHANGED <<state, errorVars>>
               ELSE /\ xact' = Stepped(r.xact) /\ state' = LastReady(r.xact)
                    /\ Raised(r.xact)
  BY DEF PqStepReceive
<1>4. CASE group \in Groups
  <2>1. group # <<>>
    <3>1. read \in Seq(Messages) /\ toClient \in Seq(Messages)
      BY InvIs DEF WireInv
    <3> DEFINE i == Inbox
    <3>2. i = read \o toClient
      BY DEF Inbox
    <3> HIDE DEF i
    <3> QED BY <1>4, <3>1, <3>2, GroupsAre
  <2> DEFINE r == put(xact.state, xact, group)
             y == r.xact
  <2>2. /\ Took(r, group)
        /\ IF r.raised
           THEN xact' = xact /\ UNCHANGED <<state, errorVars>>
           ELSE xact' = Stepped(y) /\ state' = LastReady(y) /\ Raised(y)
    BY <1>3, <2>1
  <2>3. r = put(xact.state, xact, group) /\ y = r.xact
    OBVIOUS
  <2> HIDE DEF r, y
  <2>4. /\ ~ r.raised /\ y \in Transactions /\ Matched(y) /\ y.number = xact.number /\ WireInv'
        /\ \/ y.state = "Complete" /\ y.fatal = Fatal /\ Over(Inbox', toServer, server)
           \/ /\ Live(y, Inbox', toServer, server, failed)
              /\ Doomed => y.state \in Receiving /\ Quiet(Inbox') /\ server.mode = "gone"
    BY <1>1, <1>4, <2>2, <2>3, ReceivesIs
  <2> QED BY <1>1, <2>2, <2>4, SteppedKeeps
<1>5. CASE group = <<>> /\ AtEOF
  <2>1. Inbox = <<>> /\ toServer = <<>> /\ server.mode = "gone" /\ Over(Inbox, toServer, server)
    BY <1>1, <1>5, EndIs
  <2> DEFINE b == Broken(xact, "unexpected EOF")
             r == put(xact.state, b, <<>>)
             y == r.xact
  <2>2. /\ Took(r, <<>>)
        /\ IF r.raised
           THEN xact' = b /\ UNCHANGED <<state, errorVars>>
           ELSE xact' = Stepped(y) /\ state' = LastReady(y) /\ Raised(y)
    BY <1>3, <1>5
  <2>3. b = Broken(xact, "unexpected EOF") /\ r = put(xact.state, b, <<>>) /\ y = r.xact
    OBVIOUS
  <2>4. "unexpected EOF" \in ClientErrors
    BY DEF ClientErrors
  <2> HIDE DEF b, r, y
  <2>5. b \in Transactions /\ b.state = "Complete" /\ b.fatal = Fatal /\ b.number = xact.number /\ Matched(b)
    BY <1>2, <2>3, <2>4, BrokenIs
  <2>6. Live(xact, <<>>, <<>>, server, failed)
    BY <1>2, <2>1
  <2>7. /\ r.count = 0
        /\ ~ r.raised =>
             /\ y \in Transactions /\ Matched(y) /\ y.number = xact.number /\ y.fatal = Fatal
             /\ y.state = "Complete" \/ (y.state \in Receiving /\ Live(y, <<>>, <<>>, server, failed))
    <3>1. ReadsNothing(xact, server, failed, r)
      BY <1>1, <1>2, <2>1, <2>3, <2>6, LiveReadsNothing
    <3> QED BY <2>3, <3>1 DEF ReadsNothing
  <2>8. read' = <<>> /\ toClient' = <<>>
    <3>1. read = <<>> /\ toClient = <<>>
      BY <1>5 DEF AtEOF
    <3>2. Len(<<>>) = 0 /\ SubSeq(<<>>, 1, 0) = <<>>
      BY EmptySeq, SubSeqEmpty
    <3>3. read' = SubSeq(<<>>, 1, 0)
      BY <2>2, <2>7, <3>2 DEF Took
    <3>4. toClient' = SubSeq(<<>>, 1, 0)
      BY <2>2, <3>1, <3>2 DEF Took, Unread
    <3> QED BY <3>2, <3>3, <3>4
  <2>9. UNCHANGED <<read, toClient>>
    BY <1>5, <2>8 DEF AtEOF
  <2>10. WireInv' /\ Inbox' = Inbox
    BY <1>1, <2>9, InvIs, WireStays
  <2>11. CASE r.raised
    <3>1. xact' = b /\ state' \in Statuses /\ failed' = failed /\ Told \subseteq Told'
      BY <1>2, <2>2, <2>11 DEF errorVars, Told
    <3>2. Dead'
      BY <1>1, <2>1, <2>5, <2>10, <3>1, OverIsSettled DEF Dead
    <3> QED BY <1>1, <1>2, <2>5, <2>10, <3>1, <3>2, StepsKeep
  <2>12. CASE ~ r.raised
    <3>1. /\ xact' = Stepped(y) /\ state' = LastReady(y) /\ Raised(y)
          /\ y \in Transactions /\ Matched(y) /\ y.number = xact.number /\ y.fatal = Fatal
      BY <2>2, <2>7, <2>12
    <3>2. Quiet(Inbox')
      BY <2>1, <2>10, OverIsSettled DEF Settled
    <3>3. \/ y.state = "Complete" /\ y.fatal = Fatal /\ Over(Inbox', toServer, server)
          \/ /\ Live(y, Inbox', toServer, server, failed)
             /\ Doomed => y.state \in Receiving /\ Quiet(Inbox') /\ server.mode = "gone"
      BY <2>1, <2>7, <2>10, <2>12, <3>2
    <3> QED BY <1>1, <2>10, <3>1, <3>3, SteppedKeeps
  <2> QED BY <2>11, <2>12
<1> QED BY <1>3, <1>4, <1>5

-----------------------------------------------------------------------------
(* The server.                                                             *)

\* The rest of the invariant: the server reports no error but for xact.
LEMMA ServerKeeps ==
  ASSUME Inv, UNCHANGED <<xact, read, state, socket, garbage, pc, then, pushing, runs, made>>,
         UNCHANGED <<reported, swallowed, killed>>, faults' \in Nat,
         failed \subseteq failed', \A n \in failed' : n \in failed \/ (xact # None /\ n = xact.number)
  PROVE  /\ CallInv' /\ PushInv' /\ NumberInv'
         /\ (Opening' <=> Opening) /\ (Leaving' <=> Leaving) /\ (Doomed' <=> Doomed)
<1>1. CallInv /\ PushInv /\ NumberInv
  BY InvIs
<1>2. (Opening' <=> Opening) /\ (Leaving' <=> Leaving) /\ (Doomed' <=> Doomed) /\ (Pushing' <=> Pushing) /\ Told' = Told
  BY DEF Opening, Leaving, Doomed, Pushing, Told
<1>3. CallInv'
  BY <1>1, <1>2 DEF CallInv
<1>4. NumberInv'
  <2>1. \A n \in failed' : n \in Nat /\ n <= made
    <3> SUFFICES ASSUME NEW n \in failed' PROVE n \in Nat /\ n <= made
      OBVIOUS
    <3>1. xact # None => xact.number \in Nat /\ xact.number <= made
      BY <1>1 DEF CallInv, NumberInv, Transactions
    <3>2. n \in failed => n \in Nat /\ n <= made
      BY <1>1 DEF NumberInv
    <3> QED BY <3>1, <3>2
  <2>2. \A n \in failed' : n \in Told \/ (xact # None /\ n = xact.number)
    BY <1>1, UntoldIs
  <2> QED BY <1>1, <1>2, <2>1, <2>2 DEF NumberInv
<1>5. PushInv'
  <2> SUFFICES ASSUME Pushing PROVE PushInv'
    BY <1>2 DEF PushInv
  <2>1. /\ pushing # None /\ pushing.number <= made /\ (xact # None => xact.number # pushing.number)
        /\ \/ Fresh(pushing, failed) /\ runs # "close"
           \/ Closing(pushing, failed) /\ runs = "close"
    BY <1>1 DEF PushInv
  <2>2. pushing.number \notin failed
    BY <2>1 DEF Fresh, Closing
  <2>3. pushing.number \notin failed'
    BY <2>1, <2>2
  <2>4. \/ Fresh(pushing, failed') /\ runs # "close"
        \/ Closing(pushing, failed') /\ runs = "close"
    BY <2>1, <2>3 DEF Fresh, Closing
  <2> QED BY <2>1, <2>4 DEF PushInv
<1> QED BY <1>2, <1>3, <1>4, <1>5

LEMMA NothingReported ==
  ASSUME NEW f, NEW out, out = <<>>
  PROVE  Reported(f, out) = f /\ out \in Seq(Messages) /\ \A i \in Seq(Messages) : i \o out = i
<1>1. <<>> \in Seq(Messages) /\ ToSet(<<>>) = {}
  BY EmptySeq DEF ToSet
<1>2. \A i \in Seq(Messages) : i \o <<>> = i
  BY ConcatEmptySeq
<1> QED BY <1>1, <1>2 DEF Reported

LEMMA ReportedAre ==
  ASSUME NEW out \in Seq(Messages), NEW f, NEW n \in Reported(f, out)
  PROVE  n \in f \/ \E k \in 1 .. Len(out) : out[k].type = "Error" /\ n = out[k].of[1]
BY DEF Reported, ToSet

LEMMA NotOver ==
  ASSUME NEW i, NEW o, NEW s, s.mode # "gone"
  PROVE  ~ Over(i, o, s)
BY DEF Over

\* A server that is there has sent no FatalError.
LEMMA NoFatalError ==
  ASSUME Inv, server.mode # "gone", NEW n \in 1 .. Len(Inbox)
  PROVE  Inbox[n].type # "FatalError"
BY InvIs DEF WireInv, FatalLast

\* What the server answers is put behind what it sent before.
LEMMA InboxGrows ==
  ASSUME Inv, NEW out \in Seq(Messages), read' = read, toClient' = toClient \o out
  PROVE  /\ Inbox' = Inbox \o out /\ read' \in Seq(Messages) /\ toClient' \in Seq(Messages)
         /\ Inbox' \in Seq(Messages)
<1>1. read \in Seq(Messages) /\ toClient \in Seq(Messages)
  BY InvIs DEF WireInv
<1>2. read \o (toClient \o out) = (read \o toClient) \o out
  BY <1>1, ConcatAssociative
<1>3. toClient \o out \in Seq(Messages) /\ (read \o toClient) \o out \in Seq(Messages)
  BY <1>1, ConcatProperties
<1> QED BY <1>1, <1>2, <1>3 DEF Inbox

LEMMA ServerStepKeeps ==
  ASSUME Inv, ServerStep
  PROVE  Inv'
<1>1. PICK a \in Answers(Head(toServer)) : Respond(a)
  BY DEF ServerStep
<1>2. /\ server.mode # "gone" /\ toServer # <<>> /\ toServer' = Tail(toServer)
      /\ server' = a.server /\ toClient' = toClient \o a.out /\ failed' = Reported(failed, a.out)
      /\ UNCHANGED <<xact, read, state, socket, garbage, pc, then, pushing, runs, made, faults>>
      /\ UNCHANGED <<reported, swallowed, killed>>
  BY <1>1 DEF ServerStep, Respond, Reported, connVars, callVars, boundVars
<1>3. /\ server \in Servers /\ toServer \in Seq(Sendables) /\ Inbox \in Seq(Messages) /\ faults' \in Nat
      /\ xact = None => Idle
      /\ xact # None => /\ xact \in Transactions /\ Matched(xact)
                        /\ Dead \/ Starting \/ Lives
  <2>1. faults' \in Nat
    BY <1>2, InvIs DEF CallInv
  <2> QED BY <2>1, InvIs
<1>4. Tail(toServer) \in Seq(Sendables)
  BY <1>2, <1>3, TailIs
\* What is left to show of each state of the transaction.
<1>5. ASSUME a.out \in Seq(Messages), a.server \in Servers, StateInv',
             \A n \in failed' : n \in failed \/ (xact # None /\ n = xact.number)
      PROVE  Inv'
  <2>1. CallInv' /\ PushInv' /\ NumberInv'
    <3>1. failed \subseteq failed'
      BY <1>2 DEF Reported
    <3> QED BY <1>2, <1>3, <1>5, <3>1, ServerKeeps
  <2>2. Inbox' = Inbox \o a.out /\ read' \in Seq(Messages) /\ toClient' \in Seq(Messages)
    BY <1>2, <1>5, InboxGrows
  <2>3. FatalLast(Inbox', server')
    <3> DEFINE i == Inbox
               j == Inbox'
    <3>1. j = i \o a.out
      BY <2>2
    <3>2. \A n \in 1 .. Len(i) : i[n].type # "FatalError"
      BY <1>2, NoFatalError
    <3>3. \A n \in 1 .. Len(a.out) : a.out[n].type # "FatalError"
      BY <1>3, <1>5, AnswersAreNotFatal
    <3>4. i \in Seq(Messages)
      BY <1>3
    <3> HIDE DEF i, j
    <3>5. \A k \in 1 .. Len(j) : \/ (k \in 1 .. Len(i) /\ j[k] = i[k])
                                 \/ (k - Len(i) \in 1 .. Len(a.out) /\ j[k] = a.out[k - Len(i)])
      BY <1>5, <3>1, <3>4, JoinIs
    <3>6. \A k \in 1 .. Len(j) : j[k].type # "FatalError"
      BY <3>2, <3>3, <3>5
    <3>7. FatalLast(j, server')
      BY <3>6 DEF FatalLast
    <3> QED BY <3>7 DEF j
  <2>4. WireInv'
    BY <1>2, <1>4, <1>5, <2>2, <2>3 DEF WireInv
  <2> QED BY <1>5, <2>1, <2>4 DEF Inv
<1>6. ASSUME a.out = <<>>
      PROVE  /\ failed' = failed /\ a.out \in Seq(Messages) /\ Inbox' = Inbox
             /\ (Opening' <=> Opening) /\ (Leaving' <=> Leaving) /\ (Doomed' <=> Doomed)
  <2>1. failed' = failed /\ a.out \in Seq(Messages)
    BY <1>2, <1>6, NothingReported
  <2>2. Inbox' = Inbox
    <3>1. Inbox' = Inbox \o a.out
      BY <1>2, <2>1, InboxGrows
    <3> QED BY <1>3, <1>6, <3>1, ConcatEmptySeq
  <2> QED BY <1>2, <2>1, <2>2 DEF Opening, Leaving, Doomed
<1>7. ~ Over(Inbox, toServer, server)
  BY <1>2, NotOver
<1>8. CASE xact = None
  <2>1. Settled(Inbox, toServer, server) /\ ~ Doomed /\ (server.mode = "ready" => state = server.tx)
    BY <1>3, <1>8 DEF Idle
  <2>2. /\ a.out = <<>> /\ a.server \in Servers /\ Settled(Inbox, Tail(toServer), a.server)
        /\ server.mode = "ready" /\ a.server.tx = server.tx
    BY <1>2, <1>3, <2>1, SettledServes
  <2>3. Idle'
    BY <1>2, <1>6, <2>1, <2>2 DEF Idle
  <2>4. StateInv'
    BY <1>2, <1>8, <2>3 DEF StateInv
  <2> QED BY <1>5, <1>6, <2>2, <2>4
<1>9. CASE xact # None /\ Dead
  <2>1. /\ xact.state = "Complete" /\ xact.fatal = Fatal /\ Resting(toServer, server)
        /\ Leaving \/ socket # "open"
    BY <1>7, <1>9 DEF Dead
  <2>2. a.out = <<>> /\ a.server \in Servers /\ Resting(Tail(toServer), a.server)
    BY <1>2, <1>3, <2>1, RestingServes
  <2>3. Dead'
    BY <1>2, <1>6, <2>1, <2>2 DEF Dead
  <2>4. StateInv'
    BY <1>2, <1>3, <1>9, <2>3 DEF StateInv
  <2> QED BY <1>5, <1>6, <2>2, <2>4
<1>10. CASE xact # None /\ Starting
  <2>1. /\ Opening /\ Fresh(xact, failed) /\ Resting(toServer, server)
        /\ socket = "open" => Settled(Inbox, toServer, server)
        /\ Doomed => socket # "open"
    BY <1>7, <1>10 DEF Starting
  <2>2. a.out = <<>> /\ a.server \in Servers /\ Resting(Tail(toServer), a.server)
    BY <1>2, <1>3, <2>1, RestingServes
  <2>3. socket = "open" => Settled(Inbox, Tail(toServer), a.server)
    BY <1>2, <1>3, <2>1, SettledServes
  <2>4. Starting'
    BY <1>2, <1>6, <2>1, <2>2, <2>3 DEF Starting
  <2>5. StateInv'
    BY <1>2, <1>3, <1>10, <2>4 DEF StateInv
  <2> QED BY <1>5, <1>6, <2>2, <2>5
<1>11. CASE xact # None /\ Lives
  <2>1. Live(xact, Inbox, toServer, server, failed) /\ ~ Doomed
    BY <1>2, <1>11 DEF Lives
  <2>2. Served(xact, Inbox, toServer, a, failed)
    <3> DEFINE i == Inbox
    <3>1. i \in Seq(Messages) /\ Live(xact, i, toServer, server, failed)
      BY <1>3, <2>1
    <3> HIDE DEF i
    <3>2. Served(xact, i, toServer, a, failed)
      BY <1>2, <1>3, <3>1, LiveServes
    <3> QED BY <3>2 DEF i
  <2>3. /\ a.server \in Servers /\ a.out \in Seq(Messages)
        /\ Live(xact, Inbox \o a.out, Tail(toServer), a.server, failed')
    BY <1>2, <2>2 DEF Served
  <2>4. Inbox' = Inbox \o a.out /\ Inbox' \in Seq(Messages)
    BY <1>2, <2>3, InboxGrows
  <2>5. ~ Doomed'
    BY <1>2, <2>1 DEF Doomed
  <2>6. Live(xact', Inbox', toServer', server', failed')
    BY <1>2, <2>3, <2>4
  <2>7. Lives'
    BY <2>5, <2>6 DEF Lives
  <2>8. StateInv'
    BY <1>2, <1>3, <1>11, <2>7 DEF StateInv
  <2>9. \A n \in failed' : n \in failed \/ (xact # None /\ n = xact.number)
    <3> SUFFICES ASSUME NEW n \in failed', n \notin failed PROVE n = xact.number
      BY <1>11
    <3>1. PICK k \in 1 .. Len(a.out) : a.out[k].type = "Error" /\ n = a.out[k].of[1]
      <4>1. n \in Reported(failed, a.out) /\ n \notin failed /\ a.out \in Seq(Messages)
        BY <1>2, <2>3
      <4>2. \E k \in 1 .. Len(a.out) : a.out[k].type = "Error" /\ n = a.out[k].of[1]
        BY ONLY <4>1, ReportedAre
      <4> QED BY <4>2
    <3> DEFINE i == Inbox
               j == Inbox'
    <3>2. i \in Seq(Messages) /\ j = i \o a.out /\ Live(xact, j, Tail(toServer), a.server, failed')
      BY <1>3, <2>3, <2>4
    <3> HIDE DEF i, j
    <3>3. k + Len(i) \in 1 .. Len(j) /\ j[k + Len(i)] = a.out[k] /\ Len(j) \in Nat
      BY <2>3, <3>2, JoinIs, LenProperties
    <3>4. j[k + Len(i)].of[1] = xact.number
      BY <3>1, <3>2, <3>3, LiveErrors
    <3> QED BY <3>1, <3>3, <3>4
  <2> QED BY <1>5, <2>3, <2>8, <2>9
<1> QED BY <1>3, <1>8, <1>9, <1>10, <1>11

-----------------------------------------------------------------------------

LEMMA CopyFailsEarlyKeeps ==
  ASSUME ~ EarlyCopyErrors, CopyFailsEarly
  PROVE  FALSE
BY DEF CopyFailsEarly

LEMMA QuietAppended ==
  ASSUME NEW i \in Seq(Messages), Quiet(i), NEW m \in Messages, Aside(m), NEW j, j = Append(i, m)
  PROVE  Quiet(j)
<1>1. \A n \in 1 .. Len(j) : j[n] = m \/ (n \in 1 .. Len(i) /\ j[n] = i[n])
  BY AppendedIs
<1> QED BY <1>1 DEF Quiet

LEMMA QuietPart ==
  ASSUME NEW i \in Seq(Messages), Quiet(i), NEW g \in 0 .. Len(i), NEW j, j = SubSeq(i, 1, g)
  PROVE  Quiet(j)
<1>1. Len(j) = g /\ \A n \in 1 .. g : n \in 1 .. Len(i) /\ j[n] = i[n]
  BY FirstPart
<1> QED BY <1>1 DEF Quiet

LEMMA InboxAppended ==
  ASSUME Inv, NEW m \in Messages, read' = read, toClient' = Append(toClient, m)
  PROVE  Inbox' = Append(Inbox, m) /\ read' \in Seq(Messages) /\ toClient' \in Seq(Messages)
<1>1. read \in Seq(Messages) /\ toClient \in Seq(Messages)
  BY InvIs DEF WireInv
<1>2. read \o Append(toClient, m) = Append(read \o toClient, m)
  BY <1>1
<1>3. Append(toClient, m) \in Seq(Messages)
  BY <1>1
<1> QED BY <1>1, <1>2, <1>3 DEF Inbox

LEMMA SendNotifyKeeps ==
  ASSUME Inv, SendNotify
  PROVE  Inv'
<1>1. PICK payload \in Payloads : toClient' = Append(toClient, [type |-> "Notify", of |-> payload, tx |-> None])
  BY DEF SendNotify
<1> DEFINE m == [type |-> "Notify", of |-> payload, tx |-> None]
           i == Inbox
           j == Inbox'
<1>2. /\ server.mode = "ready" /\ toClient' = Append(toClient, m)
      /\ UNCHANGED <<xact, read, state, socket, garbage, pc, then, pushing, runs, made, faults>>
      /\ UNCHANGED <<reported, swallowed, killed, failed, toServer, server>>
  BY <1>1 DEF SendNotify, connVars, callVars, serverVars, boundVars, errorVars
<1>3. m \in Messages /\ IsAsync(m) /\ Aside(m) /\ m.type # "FatalError"
  <2>1. "Notify" \in AsynchronousMap /\ "Notify" \notin Replies \cup {"Error", "FatalError", "Ready"}
    BY DEF AsynchronousMap, Replies
  <2> QED BY <2>1 DEF Messages, IsAsync, Aside
<1> HIDE DEF m
<1>4. j = Append(i, m) /\ read' \in Seq(Messages) /\ toClient' \in Seq(Messages)
  BY <1>2, <1>3, InboxAppended
<1>5. /\ i \in Seq(Messages) /\ faults' \in Nat /\ server \in Servers /\ toServer \in Seq(Sendables)
      /\ xact = None => Idle
      /\ xact # None => /\ xact \in Transactions /\ Matched(xact)
                        /\ Dead \/ Starting \/ Lives
  BY <1>2, InvIs DEF CallInv
<1>6. /\ CallInv' /\ PushInv' /\ NumberInv'
      /\ (Opening' <=> Opening) /\ (Leaving' <=> Leaving) /\ (Doomed' <=> Doomed)
  BY <1>2, <1>5, ServerKeeps
<1>7. FatalLast(j, server')
  <2>1. \A n \in 1 .. Len(i) : i[n].type # "FatalError"
    BY <1>2, NoFatalError
  <2>2. \A n \in 1 .. Len(j) : j[n] = m \/ (n \in 1 .. Len(i) /\ j[n] = i[n])
    BY <1>3, <1>4, <1>5, AppendedIs
  <2>3. \A n \in 1 .. Len(j) : j[n].type # "FatalError"
    BY <1>3, <2>1, <2>2
  <2> QED BY <2>3 DEF FatalLast
<1>8. WireInv'
  BY <1>2, <1>4, <1>5, <1>7 DEF WireInv
<1>9. ~ Over(Inbox, toServer, server)
  BY <1>2, NotOver
\* What was settled is settled with one more notification.
<1>10. ASSUME Settled(Inbox, toServer, server) PROVE Settled(Inbox', toServer', server')
  <2>1. Quiet(i)
    BY <1>10, SettledRests
  <2> HIDE DEF i, j
  <2>2. Quiet(j)
    BY <1>3, <1>4, <1>5, <2>1, QuietAppended
  <2>3. Quiet(Inbox')
    BY <2>2 DEF j
  <2> QED BY <1>2, <1>10, <2>3 DEF Settled
<1>11. StateInv'
  <2>1. CASE xact = None
    <3>1. Idle'
      BY <1>2, <1>5, <1>6, <1>10, <2>1 DEF Idle
    <3> QED BY <1>2, <2>1, <3>1 DEF StateInv
  <2>2. CASE xact # None /\ Dead
    <3>1. Dead'
      BY <1>2, <1>6, <1>9, <2>2 DEF Dead
    <3> QED BY <1>2, <1>5, <2>2, <3>1 DEF StateInv
  <2>3. CASE xact # None /\ Starting
    <3>1. Starting'
      BY <1>2, <1>6, <1>9, <1>10, <2>3 DEF Starting
    <3> QED BY <1>2, <1>5, <2>3, <3>1 DEF StateInv
  <2>4. CASE xact # None /\ Lives
    <3>1. Live(xact, Inbox, toServer, server, failed) /\ ~ Doomed
      BY <1>2, <2>4 DEF Lives
    <3>2. Live(xact, i, toServer, server, failed)
      BY <3>1
    <3> HIDE DEF i, j
    <3>3. Live(xact, j, toServer, server, failed)
      BY <1>2, <1>3, <1>4, <1>5, <2>4, <3>2, LiveHears
    <3>4. Live(xact', Inbox', toServer', server', failed')
      BY <1>2, <3>3 DEF j
    <3>5. Lives'
      BY <1>6, <3>1, <3>4 DEF Lives
    <3> QED BY <1>2, <1>5, <2>4, <3>5 DEF StateInv
  <2> QED BY <1>5, <2>1, <2>2, <2>3, <2>4
<1> QED BY <1>6, <1>8, <1>11 DEF Inv

-----------------------------------------------------------------------------
(* What is on its way when the server ends: all of it and a last message,  *)
(* or a part.                                                              *)
CutOff(i, j) ==
  \/ \E m \in Messages : m.type = "FatalError" /\ j = Append(i, m)
  \/ \E g \in 0 .. Len(i) : j = SubSeq(i, 1, g)

LEMMA CutOffIs ==
  ASSUME NEW i \in Seq(Messages), NEW j, CutOff(i, j)
  PROVE  /\ j \in Seq(Messages) /\ (Quiet(i) => Quiet(j))
         /\ \A n \in 1 .. Len(j) :
              \/ (n = Len(j) /\ j[n].type = "FatalError")
              \/ (n \in 1 .. Len(i) /\ j[n] = i[n])
<1>1. CASE \E m \in Messages : m.type = "FatalError" /\ j = Append(i, m)
  <2>1. PICK m \in Messages : m.type = "FatalError" /\ j = Append(i, m)
    BY <1>1
  <2>2. /\ j \in Seq(Messages) /\ Len(j) = Len(i) + 1
        /\ \A n \in 1 .. Len(j) : (n = Len(j) /\ j[n] = m) \/ (n \in 1 .. Len(i) /\ j[n] = i[n])
    BY <2>1, AppendedIs
  <2>3. Aside(m)
    BY <2>1 DEF Aside
  <2>4. Quiet(i) => Quiet(j)
    BY <2>1, <2>3, QuietAppended
  <2>6. \A n \in 1 .. Len(j) :
          \/ (n = Len(j) /\ j[n].type = "FatalError")
          \/ (n \in 1 .. Len(i) /\ j[n] = i[n])
    BY <2>1, <2>2
  <2> QED BY <2>2, <2>4, <2>6
<1>2. CASE \E g \in 0 .. Len(i) : j = SubSeq(i, 1, g)
  <2>1. PICK g \in 0 .. Len(i) : j = SubSeq(i, 1, g)
    BY <1>2
  <2>2. j \in Seq(Messages) /\ Len(j) = g /\ \A n \in 1 .. g : n \in 1 .. Len(i) /\ j[n] = i[n]
    BY <2>1, FirstPart
  <2>3. Quiet(i) => Quiet(j)
    BY <2>1, QuietPart
  <2>4. \A n \in 1 .. Len(j) :
          \/ (n = Len(j) /\ j[n].type = "FatalError")
          \/ (n \in 1 .. Len(i) /\ j[n] = i[n])
    BY <2>2
  <2> QED BY <2>2, <2>3, <2>4
<1> QED BY <1>1, <1>2 DEF CutOff

LEMMA LiveCutOff ==
  ASSUME NEW x \in Transactions, NEW i \in Seq(Messages), NEW o, NEW s, NEW f,
         Live(x, i, o, s, f), s.mode # "gone", NEW t, t.mode = "gone", NEW j, CutOff(i, j)
  PROVE  Live(x, j, <<>>, t, f)
<1>1. CASE \E m \in Messages : m.type = "FatalError" /\ j = Append(i, m)
  <2>1. PICK m \in Messages : m.type = "FatalError" /\ j = Append(i, m)
    BY <1>1
  <2> QED BY <2>1, LiveIsTold
<1>2. CASE \E g \in 0 .. Len(i) : j = SubSeq(i, 1, g)
  <2>1. PICK g \in 0 .. Len(i) : j = SubSeq(i, 1, g)
    BY <1>2
  <2> QED BY <2>1, LiveLoses
<1> QED BY <1>1, <1>2 DEF CutOff

LEMMA PartBehind ==
  ASSUME NEW r \in Seq(Messages), NEW c \in Seq(Messages), NEW n \in 0 .. Len(c)
  PROVE  /\ Len(r) + n \in 0 .. Len(r \o c) /\ r \o SubSeq(c, 1, n) = SubSeq(r \o c, 1, Len(r) + n)
         /\ SubSeq(c, 1, n) \in Seq(Messages)
<1> DEFINE p == SubSeq(c, 1, n)
           a == r \o p
           b == SubSeq(r \o c, 1, Len(r) + n)
<1>1. p \in Seq(Messages) /\ Len(p) = n /\ \A k \in 1 .. n : k \in 1 .. Len(c) /\ p[k] = c[k]
  BY FirstPart
<1>2. /\ r \o c \in Seq(Messages) /\ Len(r) \in Nat /\ Len(c) \in Nat /\ Len(r \o c) = Len(r) + Len(c)
      /\ \A k \in 1 .. Len(r) : (r \o c)[k] = r[k]
      /\ \A k \in 1 .. Len(c) : (r \o c)[k + Len(r)] = c[k]
  BY JoinIs
<1>3. Len(r) + n \in 0 .. Len(r \o c)
  BY <1>2
<1>4. b \in Seq(Messages) /\ Len(b) = Len(r) + n /\ \A k \in 1 .. Len(r) + n : b[k] = (r \o c)[k]
  BY <1>2, <1>3, FirstPart
<1> HIDE DEF p
<1>5. /\ a \in Seq(Messages) /\ Len(a) = Len(r) + n
      /\ \A k \in 1 .. Len(r) : a[k] = r[k]
      /\ \A k \in 1 .. n : a[k + Len(r)] = p[k]
  <2>0. a = r \o p
    OBVIOUS
  <2> HIDE DEF a
  <2>1. /\ a \in Seq(Messages) /\ Len(a) = Len(r) + Len(p)
        /\ \A k \in 1 .. Len(r) : a[k] = r[k]
        /\ \A k \in 1 .. Len(p) : a[k + Len(r)] = p[k]
    <3>1. r \in Seq(Messages) /\ p \in Seq(Messages)
      BY <1>1
    <3> HIDE DEF p, b
    <3>2. /\ a \in Seq(Messages) /\ Len(r) \in Nat /\ Len(p) \in Nat /\ Len(a) = Len(r) + Len(p)
          /\ \A k \in 1 .. Len(r) : k \in 1 .. Len(a) /\ a[k] = r[k]
          /\ \A k \in 1 .. Len(p) : k + Len(r) \in 1 .. Len(a) /\ a[k + Len(r)] = p[k]
      BY <2>0, <3>1, JoinIs
    <3> QED BY <3>2
  <2> QED BY <1>1, <2>1
<1> HIDE DEF a, b
<1>6. ASSUME NEW k \in 1 .. Len(r) + n PROVE a[k] = b[k]
  <2>1. CASE k \in 1 .. Len(r)
    BY <1>2, <1>4, <1>5, <2>1
  <2>2. CASE k \notin 1 .. Len(r)
    <3> DEFINE l == k - Len(r)
    <3>1. l \in 1 .. n /\ k = l + Len(r)
      BY <1>2, <2>2
    <3> HIDE DEF l
    <3>2. a[k] = p[l] /\ p[l] = c[l] /\ l \in 1 .. Len(c)
      BY <1>1, <1>5, <3>1
    <3>3. (r \o c)[k] = c[l]
      BY <1>2, <3>1, <3>2
    <3> QED BY <1>4, <3>2, <3>3
  <2> QED BY <2>1, <2>2
<1>7. a = b
  BY <1>4, <1>5, <1>6, SeqEqual
<1> QED BY <1>1, <1>3, <1>7 DEF a, b, p

LEMMA ServerEndsIs ==
  ASSUME Inv, ServerEnds
  PROVE  /\ server.mode # "gone" /\ server'.mode = "gone" /\ toServer' = <<>> /\ faults' \in Nat
         /\ UNCHANGED <<xact, read, state, socket, garbage, pc, then, pushing, runs, made>>
         /\ UNCHANGED <<reported, swallowed, killed, failed>>
         /\ WireInv' /\ CutOff(Inbox, Inbox')
<1>1. /\ server.mode # "gone" /\ server' = [server EXCEPT !.mode = "gone"] /\ toServer' = <<>>
      /\ faults' = faults + 1
      /\ UNCHANGED <<xact, read, state, socket, garbage, pc, then, pushing, runs, made>>
      /\ UNCHANGED <<reported, swallowed, killed, failed>>
      /\ \/ toClient' = Append(toClient, [type |-> "FatalError", of |-> None, tx |-> None])
         \/ \E n \in 0 .. Len(toClient) : toClient' = SubSeq(toClient, 1, n)
  BY DEF ServerEnds, connVars, callVars, boundVars, errorVars
<1>2. /\ server \in Servers /\ faults \in Nat /\ Inbox \in Seq(Messages)
      /\ read \in Seq(Messages) /\ toClient \in Seq(Messages)
  BY InvIs DEF CallInv, WireInv
<1>3. server' \in Servers /\ server'.mode = "gone" /\ faults' \in Nat /\ toServer' \in Seq(Sendables)
  <2>1. server' \in Servers /\ server'.mode = "gone"
    BY <1>1, <1>2 DEF Servers
  <2>2. <<>> \in Seq(Sendables)
    BY EmptySeq
  <2> QED BY <1>1, <1>2, <2>1, <2>2
<1>4. CutOff(Inbox, Inbox') /\ toClient' \in Seq(Messages)
  <2>1. CASE toClient' = Append(toClient, [type |-> "FatalError", of |-> None, tx |-> None])
    <3> DEFINE m == [type |-> "FatalError", of |-> None, tx |-> None]
    <3>1. m \in Messages /\ m.type = "FatalError"
      <4>1. "FatalError" \notin Replies \cup {"Error", "Ready"}
        BY DEF Replies
      <4> QED BY <4>1 DEF Messages
    <3> HIDE DEF m
    <3>2. Inbox' = Append(Inbox, m) /\ toClient' \in Seq(Messages)
      BY <1>1, <2>1, <3>1, InboxAppended DEF m
    <3> QED BY <3>1, <3>2 DEF CutOff
  <2>2. CASE \E n \in 0 .. Len(toClient) : toClient' = SubSeq(toClient, 1, n)
    <3>1. PICK n \in 0 .. Len(toClient) : toClient' = SubSeq(toClient, 1, n)
      BY <2>2
    <3>2. /\ Len(read) + n \in 0 .. Len(read \o toClient)
          /\ read \o toClient' = SubSeq(read \o toClient, 1, Len(read) + n)
          /\ toClient' \in Seq(Messages)
      BY <1>2, <3>1, PartBehind
    <3> QED BY <1>1, <3>2 DEF CutOff, Inbox
  <2> QED BY <1>1, <2>1, <2>2
<1>5. FatalLast(Inbox', server')
  <2> DEFINE i == Inbox
             j == Inbox'
  <2>1. \A n \in 1 .. Len(i) : i[n].type # "FatalError"
    BY <1>1, NoFatalError
  <2>2. i \in Seq(Messages) /\ CutOff(i, j)
    BY <1>2, <1>4
  <2> HIDE DEF i, j
  <2>3. \A n \in 1 .. Len(j) :
          \/ (n = Len(j) /\ j[n].type = "FatalError")
          \/ (n \in 1 .. Len(i) /\ j[n] = i[n])
    BY <2>2, CutOffIs
  <2>4. FatalLast(j, server')
    BY <1>3, <2>1, <2>3 DEF FatalLast
  <2> QED BY <2>4 DEF j
<1>6. WireInv'
  BY <1>1, <1>2, <1>3, <1>4, <1>5 DEF WireInv
<1> QED BY <1>1, <1>3, <1>4, <1>6

LEMMA ServerEndsKeeps ==
  ASSUME Inv, ServerEnds
  PROVE  Inv'
<1>1. /\ server.mode # "gone" /\ server'.mode = "gone" /\ toServer' = <<>> /\ faults' \in Nat
      /\ UNCHANGED <<xact, read, state, socket, garbage, pc, then, pushing, runs, made>>
      /\ UNCHANGED <<reported, swallowed, killed, failed>>
      /\ WireInv' /\ CutOff(Inbox, Inbox')
  BY ServerEndsIs
<1>2. /\ Inbox \in Seq(Messages)
      /\ xact = None => Idle
      /\ xact # None => /\ xact \in Transactions /\ Matched(xact)
                        /\ Dead \/ Starting \/ Lives
  BY InvIs
<1>3. /\ CallInv' /\ PushInv' /\ NumberInv'
      /\ (Opening' <=> Opening) /\ (Leaving' <=> Leaving) /\ (Doomed' <=> Doomed)
  BY <1>1, ServerKeeps
<1>4. ~ Over(Inbox, toServer, server)
  BY <1>1, NotOver
<1>5. Resting(toServer', server')
  BY <1>1 DEF Resting
<1>6. ASSUME Settled(Inbox, toServer, server) PROVE Settled(Inbox', toServer', server')
  <2> DEFINE i == Inbox
             j == Inbox'
  <2>1. i \in Seq(Messages) /\ Quiet(i) /\ CutOff(i, j)
    BY <1>1, <1>2, <1>6, SettledRests
  <2> HIDE DEF i, j
  <2>2. Quiet(j)
    BY <2>1, CutOffIs
  <2> QED BY <1>1, <2>2 DEF Settled, j
<1>7. StateInv'
  <2>1. CASE xact = None
    <3>1. Idle'
      BY <1>1, <1>2, <1>3, <1>6, <2>1 DEF Idle
    <3> QED BY <1>1, <2>1, <3>1 DEF StateInv
  <2>2. CASE xact # None /\ Dead
    <3>1. Dead'
      BY <1>1, <1>3, <1>4, <1>5, <2>2 DEF Dead
    <3> QED BY <1>1, <1>2, <2>2, <3>1 DEF StateInv
  <2>3. CASE xact # None /\ Starting
    <3>1. Starting'
      BY <1>1, <1>3, <1>4, <1>5, <1>6, <2>3 DEF Starting
    <3> QED BY <1>1, <1>2, <2>3, <3>1 DEF StateInv
  <2>4. CASE xact # None /\ Lives
    <3>1. Live(xact, Inbox, toServer, server, failed) /\ ~ Doomed
      BY <1>1, <2>4 DEF Lives
    <3> DEFINE i == Inbox
               j == Inbox'
    <3>2. i \in Seq(Messages) /\ Live(xact, i, toServer, server, failed) /\ CutOff(i, j)
      BY <1>1, <1>2, <3>1
    <3> HIDE DEF i, j
    <3>3. Live(xact, j, <<>>, server', failed)
      BY <1>1, <1>2, <2>4, <3>2, LiveCutOff
    <3>4. Live(xact', Inbox', toServer', server', failed')
      BY <1>1, <3>3 DEF j
    <3>5. Lives'
      BY <1>3, <3>1, <3>4 DEF Lives
    <3> QED BY <1>1, <1>2, <2>4, <3>5 DEF StateInv
  <2> QED BY <1>2, <2>1, <2>2, <2>3, <2>4
<1> QED BY <1>1, <1>3, <1>7 DEF Inv

-----------------------------------------------------------------------------
(* Every step keeps the invariant.                                         *)

\* A step that changes nothing.
LEMMA StutterKeeps ==
  ASSUME Inv, UNCHANGED vars
  PROVE  Inv'
<1>1. /\ UNCHANGED <<xact, read, state, socket, garbage, pc, then, pushing, runs, made, faults>>
      /\ UNCHANGED <<toServer, toClient, server, failed, reported, swallowed, killed>>
  BY DEF vars, connVars, callVars, serverVars, boundVars, errorVars
<1>2. WireInv /\ CallInv /\ PushInv /\ NumberInv /\ StateInv
  BY InvIs
<1>3. (Opening' <=> Opening) /\ (Leaving' <=> Leaving)
  BY <1>1 DEF Opening, Leaving
<1>4. WireInv' /\ StateInv'
  BY <1>1, <1>2, <1>3, WireStays, StateStays
<1>5. CallInv' /\ PushInv' /\ NumberInv'
  <2>1. faults' \in Nat
    BY <1>1, <1>2 DEF CallInv
  <2> QED BY <1>1, <2>1, ServerKeeps
<1> QED BY <1>4, <1>5 DEF Inv

\* One step per action: what the methods of the connection do, what their
\* callers do, what the server does.
LEMMA ConnectionKeeps ==
  ASSUME Inv, Connection
  PROVE  Inv'
<1>1. CASE CompleteSend
  BY <1>1, CompleteSendKeeps
<1>2. CASE CompleteReceive
  BY <1>2, CompleteReceiveKeeps
<1>3. CASE PreviousCompleted
  BY <1>3, PreviousCompletedKeeps
<1>4. CASE TakeOutTrash
  BY <1>4, TakeOutTrashKeeps
<1>5. CASE TrashTakenOut
  BY <1>5, TrashTakenOutKeeps
<1>6. CASE Start
  BY <1>6, StartKeeps
<1>7. CASE Pushed
  BY <1>7, PushedKeeps
<1>8. CASE PqCompleted
  BY <1>8, PqCompletedKeeps
<1>9. CASE BeforeSynchronize
  BY <1>9, BeforeSynchronizeKeeps
<1>10. CASE Synchronized
  BY <1>10, SynchronizedKeeps
<1>11. CASE BeforeClose
  BY <1>11, BeforeCloseKeeps
<1>12. CASE CloseSocket
  BY <1>12, CloseSocketKeeps
<1> QED BY <1>1, <1>2, <1>3, <1>4, <1>5, <1>6, <1>7, <1>8, <1>9, <1>10, <1>11, <1>12 DEF Connection

LEMMA CallerKeeps ==
  ASSUME Inv, Caller
  PROVE  Inv'
<1>1. CASE \E types \in Batches, next \in {"complete", "return"} : Push(types, next)
  BY <1>1, PushKeeps
<1>2. CASE PqComplete
  BY <1>2, PqCompleteKeeps
<1>3. CASE PqStepSend
  BY <1>3, PqStepSendKeeps
<1>4. CASE PqStepReceive
  BY <1>4, PqStepReceiveKeeps
<1>5. CASE StepDropped
  BY <1>5, StepDroppedKeeps
<1>6. CASE \E messages \in {"chunk", "done"} : SetMessages(messages)
  BY <1>6, SetMessagesKeeps
<1>7. CASE Synchronize
  BY <1>7, SynchronizeKeeps
<1>8. CASE Close
  BY <1>8, CloseKeeps
<1>9. CASE Trash
  BY <1>9, TrashKeeps
<1> QED BY <1>1, <1>2, <1>3, <1>4, <1>5, <1>6, <1>7, <1>8, <1>9 DEF Caller

\* The inductive invariant is kept, in every size of the system, where a COPY
\* FROM STDIN fails no earlier than its data is read.
LEMMA NextKeeps ==
  ASSUME ~ EarlyCopyErrors, Inv, [Next]_vars
  PROVE  Inv'
<1>1. CASE Connection
  BY <1>1, ConnectionKeeps
<1>2. CASE Caller
  BY <1>2, CallerKeeps
<1>3. CASE ServerStep
  BY <1>3, ServerStepKeeps
<1>4. CASE CopyFailsEarly
  BY <1>4, CopyFailsEarlyKeeps
<1>5. CASE ServerEnds
  BY <1>5, ServerEndsKeeps
<1>6. CASE SendNotify
  BY <1>6, SendNotifyKeeps
<1>7. CASE UNCHANGED vars
  BY <1>7, StutterKeeps
<1> QED BY <1>1, <1>2, <1>3, <1>4, <1>5, <1>6, <1>7 DEF Next, Server

\* Every state satisfies the inductive invariant: what was sent and not yet read
\* leads the transaction of client3.Connection to the place from which the server
\* goes on, or there is no transaction and nothing is owed, or it is dead.
THEOREM ProtocolInvariant ==
  ASSUME ~ EarlyCopyErrors
  PROVE  Spec => []Inv
<1>1. Init => Inv
  BY InitInv
<1>2. Inv /\ [Next]_vars => Inv'
  BY NextKeeps
<1> QED BY <1>1, <1>2, PTL DEF Spec

-----------------------------------------------------------------------------
(* What it implies.                                                        *)

\* The attributes of client3.Connection and the place in pq3's methods keep their
\* types, and a receiving transaction has a command its replies are for.
THEOREM ProtocolTypesOK ==
  ASSUME ~ EarlyCopyErrors
  PROVE  Spec => []ConnTypeOK
<1>1. ASSUME Inv PROVE ConnTypeOK
  <2>1. CallInv /\ WireInv /\ PushInv
    BY <1>1, InvIs
  <2>2. /\ state \in {"I", "T", "E"} /\ socket \in {"open", "broken", "closed"}
        /\ garbage \in Nat /\ faults \in Nat
        /\ pc \in {"idle", "complete", "push", "start", "pushed"}
        /\ pushing # None => pc # "idle" /\ pushing \in Transactions
        /\ pc = "complete" => xact # None
    BY <2>1 DEF CallInv, Statuses, Labels
  <2>3. then \in {"_pq_push", "_pq_complete", "take_out_trash", "synchronize", "synchronized", "close", None}
    BY <2>1 DEF CallInv, Callers
  <2>4. (then # None) = (pc = "complete")
    BY <2>1 DEF CallInv
  <2>5. pc \in {"push", "start"} => pushing # None
    BY <2>1 DEF PushInv, Pushing
  <2>6. server.mode \in {"ready", "skip", "copyin", "copyin_synced", "gone"}
    BY <2>1 DEF WireInv, Servers
  <2>7. xact # None => xact \in Transactions
    BY <1>1, InvIs
  <2>8. ASSUME xact # None, xact.state \in Receiving PROVE xact.offset \in 1 .. Len(xact.commands)
    <3>1. xact \in Transactions /\ Going(xact) /\ Live(xact, Inbox, toServer, server, failed)
      BY <1>1, <2>8, ReceivingIs
    <3>2. xact.offset \in 1 .. Len(xact.commands) + 1 /\ Len(xact.commands) \in Nat
      BY <3>1, LiveHas
    <3>3. xact.state # "Complete"
      BY <2>8 DEF Receiving
    <3>4. ~ (xact.offset > Len(xact.commands))
      BY <3>1, <3>3 DEF Going
    <3> QED BY <3>2, <3>4
  <2> QED BY <2>2, <2>3, <2>4, <2>5, <2>6, <2>7, <2>8 DEF ConnTypeOK
<1> QED BY <1>1, ProtocolInvariant, PTL

\* xact3 never processes a reply for a command it does not answer, nor takes the
\* error of one transaction for that of another.
THEOREM RepliesAlwaysMatch ==
  ASSUME ~ EarlyCopyErrors
  PROVE  Spec => []RepliesMatch
<1>1. ASSUME Inv PROVE RepliesMatch
  <2> SUFFICES ASSUME xact # None
               PROVE  /\ \A i \in DOMAIN xact.completed :
                           xact.completed[i].reply.of = xact.completed[i].command
                      /\ xact.error_message # None /\ xact.error_message.type = "Error" =>
                           xact.error_message.of[1] = xact.number
    BY DEF RepliesMatch
  <2>1. Matched(xact) /\ xact \in Transactions
    BY <1>1, InvIs
  <2> QED BY <2>1 DEF Matched
<1> QED BY <1>1, ProtocolInvariant, PTL

\* A connection that can take a transaction has settled its last one.
LEMMA UsableIsIdle ==
  ASSUME Inv, Usable
  PROVE  /\ Settled(Inbox, toServer, server) /\ ~ Doomed
         /\ server.mode = "ready" => state = server.tx
BY InvIs DEF Usable, Idle

\* When a transaction is over without a fatal error (client3.complete, step), the
\* server waits for the next one and no reply to it is left unread.
THEOREM AlwaysInSync ==
  ASSUME ~ EarlyCopyErrors
  PROVE  Spec => []InSync
<1>1. ASSUME Inv, Usable
      PROVE  /\ server.mode \in {"ready", "gone"}
             /\ \A c \in ToSet(toServer) : c.type \in {"CopyData", "CopyDone", "CopyFail"}
             /\ \A m \in ToSet(read \o toClient) : IsAsync(m) \/ m.type = "FatalError"
  <2>1. Settled(Inbox, toServer, server)
    BY <1>1, UsableIsIdle
  <2>2. server.mode \in {"ready", "gone"}
    BY <2>1 DEF Settled
  <2>3. toServer \in Seq(Sendables) /\ Inbox \in Seq(Messages)
    BY <1>1, InvIs
  <2>4. \A k \in 1 .. Len(toServer) : toServer[k].type \in {"CopyData", "CopyDone", "CopyFail"}
    <3>1. toServer = <<>> => Len(toServer) = 0
      BY EmptySeq
    <3>2. OnlyCopy(toServer) \/ toServer = <<>>
      BY <2>1 DEF Settled
    <3> QED BY <3>1, <3>2 DEF OnlyCopy, CopyWire
  <2>5. \A k \in 1 .. Len(Inbox) : IsAsync(Inbox[k]) \/ Inbox[k].type = "FatalError"
    BY <2>1 DEF Settled, Quiet, Aside
  <2>6. \A c \in ToSet(toServer) : c.type \in {"CopyData", "CopyDone", "CopyFail"}
    BY <2>3, <2>4 DEF ToSet
  <2>7. \A m \in ToSet(Inbox) : IsAsync(m) \/ m.type = "FatalError"
    BY <2>3, <2>5 DEF ToSet
  <2> QED BY <2>2, <2>6, <2>7 DEF Inbox
<1>2. Inv => InSync
  BY <1>1 DEF InSync
<1> QED BY <1>2, ProtocolInvariant, PTL

\* Between transactions Connection.state is the server's transaction status.
THEOREM StateAlwaysAgrees ==
  ASSUME ~ EarlyCopyErrors
  PROVE  Spec => []StateAgrees
<1>1. Inv => StateAgrees
  BY UsableIsIdle DEF StateAgrees
<1> QED BY <1>1, ProtocolInvariant, PTL

\* Between transactions every error the server has reported was raised, or came
\* while synchronize, close or take_out_trash completed a transaction; and no
\* connection that was lost or had a fatal error is ever used again.
THEOREM FailuresAlwaysKnown ==
  ASSUME ~ EarlyCopyErrors
  PROVE  Spec => []FailuresKnown
<1>1. ASSUME Inv, Usable
      PROVE  failed \subseteq reported \cup {p[2] : p \in swallowed} /\ killed = {} /\ socket = "open"
  <2>1. ~ Doomed /\ NumberInv /\ xact = None
    BY <1>1, UsableIsIdle, InvIs DEF Usable
  <2>2. failed \subseteq Told
    BY <2>1, UntoldIs
  <2> QED BY <2>1, <2>2 DEF Told, Doomed
<1>2. Inv => FailuresKnown
  BY <1>1 DEF FailuresKnown, ErrorsReported, DeadStaysDead
<1> QED BY <1>2, ProtocolInvariant, PTL

-----------------------------------------------------------------------------
(* The asynchronous messages of a sequence, one after the other.           *)

AsyncStep(s, of, k) == IF IsAsync(s[k]) THEN Append(of[k - 1], s[k]) ELSE of[k - 1]
AsyncRun(s, of) ==
  /\ of \in [0 .. Len(s) -> Seq(Messages)] /\ of[0] = <<>>
  /\ \A k \in 1 .. Len(s) : of[k] = AsyncStep(s, of, k)

LEMMA AsyncRunExists ==
  ASSUME NEW s \in Seq(Messages)
  PROVE  \E of : AsyncRun(s, of)
<1> DEFINE n == Len(s)
           Up(k, of) == /\ of \in [0 .. k -> Seq(Messages)] /\ of[0] = <<>>
                        /\ \A j \in 1 .. k : of[j] = AsyncStep(s, of, j)
           T == {k \in Nat : k <= n => \E of : Up(k, of)}
<1>1. n \in Nat
  BY LenProperties
<1>2. 0 \in T
  <2> DEFINE z == [k \in 0 .. 0 |-> <<>>]
  <2>1. z \in [0 .. 0 -> Seq(Messages)] /\ z[0] = <<>> /\ \A j \in 1 .. 0 : FALSE
    BY EmptySeq
  <2> HIDE DEF z
  <2>2. Up(0, z)
    BY <2>1
  <2> QED BY <2>2
<1>3. ASSUME NEW k \in Nat, k \in T PROVE k + 1 \in T
  <2>1. SUFFICES ASSUME k + 1 <= n PROVE \E of : Up(k + 1, of)
    <3> HIDE DEF Up, n
    <3> QED OBVIOUS
  <2>2. k <= n
    BY <1>1, <2>1
  <2>3. PICK a : Up(k, a)
    BY <1>3, <2>2
  <2> DEFINE new == AsyncStep(s, a, k + 1)
             b == [j \in 0 .. k + 1 |-> IF j <= k THEN a[j] ELSE new]
  <2>4. s[k + 1] \in Messages /\ a[k] \in Seq(Messages)
    BY <1>1, <2>1, <2>3, ElementOfSeq
  <2>5. new = IF IsAsync(s[k + 1]) THEN Append(a[k], s[k + 1]) ELSE a[k]
    BY DEF AsyncStep
  <2>6. new \in Seq(Messages)
    <3> DEFINE m == s[k + 1]
               h == a[k]
    <3>1. h \in Seq(Messages) /\ m \in Messages /\ new = IF IsAsync(m) THEN Append(h, m) ELSE h
      BY <2>4, <2>5
    <3> HIDE DEF m, h, new
    <3>2. Append(h, m) \in Seq(Messages)
      BY <3>1, AppendProperties
    <3> QED BY <3>1, <3>2
  <2> HIDE DEF new
  <2>7. b \in [0 .. k + 1 -> Seq(Messages)] /\ b[0] = <<>>
    BY <2>3, <2>6
  <2>8. ASSUME NEW j \in 1 .. k + 1 PROVE b[j] = AsyncStep(s, b, j)
    <3>1. b[j - 1] = a[j - 1]
      OBVIOUS
    <3>2. CASE j <= k
      <4>1. b[j] = a[j] /\ j \in 1 .. k
        BY <3>2
      <4> QED BY <2>3, <3>1, <4>1 DEF AsyncStep
    <3>3. CASE ~ (j <= k)
      <4>1. b[j] = new /\ j = k + 1
        BY <3>3
      <4> QED BY <3>1, <4>1 DEF new, AsyncStep
    <3> QED BY <3>2, <3>3
  <2> HIDE DEF b
  <2>9. Up(k + 1, b)
    BY <2>7, <2>8
  <2> QED BY <2>9
<1>4. n \in T
  <2> HIDE DEF T
  <2> QED BY <1>1, <1>2, <1>3, NaturalInduction
<1> QED BY <1>1, <1>4 DEF AsyncRun

\* Two runs are alike as far as their sequences are.
LEMMA AsyncRunsAgree ==
  ASSUME NEW s \in Seq(Messages), NEW t \in Seq(Messages), NEW a, NEW b, AsyncRun(s, a), AsyncRun(t, b),
         NEW k \in 0 .. Len(s), k <= Len(t), \A j \in 1 .. k : s[j] = t[j]
  PROVE  a[k] = b[k]
<1> DEFINE T == {j \in Nat : j <= k => a[j] = b[j]}
<1>1. Len(s) \in Nat /\ Len(t) \in Nat /\ k \in Nat
  BY LenProperties
<1>2. 0 \in T
  BY DEF AsyncRun
<1>3. ASSUME NEW j \in Nat, j \in T PROVE j + 1 \in T
  <2>1. SUFFICES ASSUME j + 1 <= k PROVE a[j + 1] = b[j + 1]
    OBVIOUS
  <2>2. /\ a[j] = b[j] /\ s[j + 1] = t[j + 1] /\ (j + 1) - 1 = j
        /\ j + 1 \in 1 .. Len(s) /\ j + 1 \in 1 .. Len(t)
    BY <1>1, <1>3, <2>1
  <2>3. a[j + 1] = AsyncStep(s, a, j + 1) /\ b[j + 1] = AsyncStep(t, b, j + 1)
    BY <2>2 DEF AsyncRun
  <2> QED BY <2>2, <2>3 DEF AsyncStep
<1>4. k \in T
  <2> HIDE DEF T
  <2> QED BY <1>1, <1>2, <1>3, NaturalInduction
<1> QED BY <1>1, <1>4

LEMMA AsyncsAreRun ==
  ASSUME NEW s \in Seq(Messages), NEW a, AsyncRun(s, a)
  PROVE  Asyncs(s) = a[Len(s)] /\ Asyncs(s) \in Seq(Messages)
<1> DEFINE n == Len(s)
           Eq(of) == of = [k \in 0 .. n |-> IF k = 0 THEN <<>>
                                          ELSE IF IsAsync(s[k]) THEN Append(of[k - 1], s[k]) ELSE of[k - 1]]
           f == CHOOSE of : Eq(of)
<1>1. n \in Nat
  BY LenProperties
<1>2. Eq(a)
  <2>1. ASSUME NEW k \in 0 .. n
        PROVE  a[k] = IF k = 0 THEN <<>> ELSE IF IsAsync(s[k]) THEN Append(a[k - 1], s[k]) ELSE a[k - 1]
    <3>1. CASE k = 0
      BY <3>1 DEF AsyncRun
    <3>2. CASE k # 0
      <4>1. k \in 1 .. n
        BY <3>2
      <4> QED BY <3>2, <4>1 DEF AsyncRun, AsyncStep
    <3> QED BY <3>1, <3>2
  <2>2. a \in [0 .. n -> Seq(Messages)]
    BY DEF AsyncRun
  <2> HIDE DEF n
  <2> QED BY <2>1, <2>2
<1>3. Eq(f)
  <2> HIDE DEF Eq
  <2> QED BY <1>2
<1>4. Asyncs(s) = f[n]
  BY DEF Asyncs
<1> HIDE DEF f
<1> DEFINE T == {k \in Nat : k <= n => f[k] = a[k]}
<1>5. 0 \in T
  BY <1>1, <1>2, <1>3
<1>6. ASSUME NEW k \in Nat, k \in T PROVE k + 1 \in T
  <2>1. SUFFICES ASSUME k + 1 <= n PROVE f[k + 1] = a[k + 1]
    OBVIOUS
  <2>2. f[k] = a[k] /\ (k + 1) - 1 = k /\ k + 1 \in 0 .. n /\ k + 1 # 0
    BY <1>1, <1>6, <2>1
  <2>3. f[k + 1] = IF IsAsync(s[k + 1]) THEN Append(f[k], s[k + 1]) ELSE f[k]
    BY <1>3, <2>2
  <2>4. a[k + 1] = IF IsAsync(s[k + 1]) THEN Append(a[k], s[k + 1]) ELSE a[k]
    BY <1>2, <2>2
  <2> QED BY <2>2, <2>3, <2>4
<1>7. n \in T
  <2> HIDE DEF T
  <2> QED BY <1>1, <1>5, <1>6, NaturalInduction
<1> QED BY <1>1, <1>4, <1>7 DEF AsyncRun

LEMMA AsyncsType ==
  ASSUME NEW s \in Seq(Messages)
  PROVE  Asyncs(s) \in Seq(Messages)
BY AsyncRunExists, AsyncsAreRun

LEMMA AsyncsOfNothing == Asyncs(<<>>) = <<>>
<1>1. <<>> \in Seq(Messages) /\ Len(<<>>) = 0
  BY EmptySeq
<1>2. PICK a : AsyncRun(<<>>, a)
  BY <1>1, AsyncRunExists
<1>3. Asyncs(<<>>) = a[0]
  BY <1>1, <1>2, AsyncsAreRun
<1> QED BY <1>2, <1>3 DEF AsyncRun

\* Of a sequence without any there are none.
LEMMA AsyncsOfOthers ==
  ASSUME NEW s \in Seq(Messages), \A k \in 1 .. Len(s) : ~ IsAsync(s[k])
  PROVE  Asyncs(s) = <<>>
<1> DEFINE z == [k \in 0 .. Len(s) |-> <<>>]
<1>1. Len(s) \in Nat
  BY LenProperties
<1>2. AsyncRun(s, z)
  <2>1. z \in [0 .. Len(s) -> Seq(Messages)] /\ z[0] = <<>>
    BY <1>1, EmptySeq
  <2>2. ASSUME NEW k \in 1 .. Len(s) PROVE z[k] = AsyncStep(s, z, k)
    <3>1. z[k] = <<>> /\ z[k - 1] = <<>>
      BY <1>1
    <3> HIDE DEF z
    <3> QED BY <3>1 DEF AsyncStep
  <2> HIDE DEF z
  <2> QED BY <2>1, <2>2 DEF AsyncRun
<1>3. z[Len(s)] = <<>>
  BY <1>1
<1> HIDE DEF z
<1> QED BY <1>2, <1>3, AsyncsAreRun

LEMMA AsyncsOfOne ==
  ASSUME NEW m \in Messages
  PROVE  Asyncs(<<m>>) = IF IsAsync(m) THEN <<m>> ELSE <<>>
<1> DEFINE s == <<m>>
<1>1. s \in Seq(Messages) /\ Len(s) = 1 /\ s[1] = m
  OBVIOUS
<1> HIDE DEF s
<1>2. PICK a : AsyncRun(s, a)
  BY <1>1, AsyncRunExists
<1>3. a[0] = <<>> /\ a[1] = AsyncStep(s, a, 1)
  BY <1>1, <1>2 DEF AsyncRun
<1>4. a[1] = IF IsAsync(m) THEN Append(<<>>, m) ELSE <<>>
  <2>1. a[1 - 1] = <<>> /\ s[1] = m
    BY <1>1, <1>3
  <2> QED BY <1>3, <2>1 DEF AsyncStep
<1>5. Append(<<>>, m) = <<m>>
  OBVIOUS
<1>6. Asyncs(s) = a[1]
  BY <1>1, <1>2, AsyncsAreRun
<1> QED BY <1>4, <1>5, <1>6 DEF s

\* And of two sequences, those of the one and then those of the other.
LEMMA AsyncsJoined ==
  ASSUME NEW s \in Seq(Messages), NEW t \in Seq(Messages)
  PROVE  Asyncs(s \o t) = Asyncs(s) \o Asyncs(t)
<1>1. /\ Len(s) \in Nat /\ Len(t) \in Nat /\ s \o t \in Seq(Messages) /\ Len(s \o t) = Len(s) + Len(t)
      /\ \A k \in 1 .. Len(s) + Len(t) : (s \o t)[k] = IF k <= Len(s) THEN s[k] ELSE t[k - Len(s)]
  BY ConcatProperties, LenProperties
<1>2. PICK a : AsyncRun(s, a)
  BY AsyncRunExists
<1>3. PICK b : AsyncRun(t, b)
  BY AsyncRunExists
<1> DEFINE u == s \o t
           n == Len(s)
           h == a[n]
           c == [k \in 0 .. n + Len(t) |-> IF k <= n THEN a[k] ELSE h \o b[k - n]]
<1>4. h \in Seq(Messages) /\ (\A k \in 0 .. Len(t) : b[k] \in Seq(Messages)) /\ (\A k \in 0 .. n : a[k] \in Seq(Messages))
  <2>1. a \in [0 .. n -> Seq(Messages)] /\ b \in [0 .. Len(t) -> Seq(Messages)] /\ n \in 0 .. n
    BY <1>1, <1>2, <1>3 DEF AsyncRun
  <2> HIDE DEF n
  <2> QED BY <2>1
<1>5. h \o b[0] = h
  BY <1>3, <1>4, ConcatEmptySeq DEF AsyncRun
<1> HIDE DEF h
<1>6. \A k \in n .. n + Len(t) : c[k] = h \o b[k - n]
  <2>1. ASSUME NEW k \in n .. n + Len(t) PROVE c[k] = h \o b[k - n]
    <3>1. k \in 0 .. n + Len(t)
      BY <1>1
    <3>2. CASE k = n
      <4>1. k - n = 0 /\ c[k] = a[n]
        BY <1>1, <3>1, <3>2
      <4> QED BY <1>5, <4>1 DEF h
    <3>3. CASE k # n
      <4>1. ~ (k <= n)
        BY <1>1, <3>3
      <4> QED BY <3>1, <4>1
    <3> QED BY <3>2, <3>3
  <2> QED BY <2>1
<1>7. c \in [0 .. Len(u) -> Seq(Messages)]
  <2>1. ASSUME NEW k \in 0 .. n + Len(t) PROVE c[k] \in Seq(Messages)
    <3>1. CASE k <= n
      <4>1. c[k] = a[k] /\ k \in 0 .. n
        BY <1>1, <3>1
      <4> QED BY <1>4, <4>1
    <3>2. CASE ~ (k <= n)
      <4>1. c[k] = h \o b[k - n] /\ k - n \in 0 .. Len(t)
        BY <1>1, <3>2
      <4> QED BY <1>4, <4>1, ConcatProperties
    <3> QED BY <3>1, <3>2
  <2>2. Len(u) = n + Len(t)
    BY <1>1
  <2> QED BY <2>1, <2>2
<1>8. ASSUME NEW k \in 1 .. Len(u) PROVE c[k] = AsyncStep(u, c, k)
  <2>0. k \in 1 .. n + Len(t)
    BY <1>1
  <2>1. CASE k <= n
    <3>1. c[k] = a[k] /\ c[k - 1] = a[k - 1] /\ u[k] = s[k] /\ k \in 1 .. n
      BY <1>1, <2>0, <2>1
    <3>2. a[k] = AsyncStep(s, a, k)
      BY <1>2, <3>1 DEF AsyncRun
    <3> HIDE DEF c, u
    <3> QED BY <3>1, <3>2 DEF AsyncStep
  <2>2. CASE ~ (k <= n)
    <3> DEFINE j == k - n
    <3>1. j \in 1 .. Len(t) /\ k \in n .. n + Len(t) /\ k - 1 \in n .. n + Len(t) /\ (k - 1) - n = j - 1 /\ j - 1 \in 0 .. Len(t)
      BY <1>1, <2>0, <2>2
    <3>2. c[k] = h \o b[j] /\ c[k - 1] = h \o b[j - 1] /\ u[k] = t[j]
      <4>1. c[k - 1] = h \o b[(k - 1) - n] /\ c[k] = h \o b[k - n]
        BY <1>6, <3>1
      <4>2. u[k] = t[j]
        BY <1>1, <2>0, <2>2
      <4> QED BY <3>1, <4>1, <4>2
    <3>3. b[j] = AsyncStep(t, b, j) /\ t[j] \in Messages /\ b[j - 1] \in Seq(Messages)
      BY <1>3, <1>4, <3>1, ElementOfSeq DEF AsyncRun
    <3> HIDE DEF j, c, u
    <3>4. CASE IsAsync(t[j])
      <4>1. b[j] = Append(b[j - 1], t[j])
        BY <3>3, <3>4 DEF AsyncStep
      <4>2. h \o Append(b[j - 1], t[j]) = Append(h \o b[j - 1], t[j])
        <5> DEFINE d == b[j - 1]
                   m == t[j]
        <5>1. d \in Seq(Messages) /\ m \in Messages /\ h \in Seq(Messages)
          BY <1>4, <3>3
        <5> HIDE DEF d, m
        <5>2. h \o Append(d, m) = Append(h \o d, m)
          BY <5>1
        <5> QED BY <5>2 DEF d, m
      <4> QED BY <3>2, <3>4, <4>1, <4>2 DEF AsyncStep
    <3>5. CASE ~ IsAsync(t[j])
      BY <3>2, <3>3, <3>5 DEF AsyncStep
    <3> QED BY <3>4, <3>5
  <2> QED BY <2>1, <2>2
<1>9. c[0] = <<>>
  BY <1>1, <1>2 DEF AsyncRun
<1>10. AsyncRun(u, c) /\ u \in Seq(Messages)
  <2> HIDE DEF c, u
  <2>1. u \in Seq(Messages)
    BY <1>1 DEF u
  <2> QED BY <1>7, <1>8, <1>9, <2>1 DEF AsyncRun
<1>11. c[Len(u)] = h \o b[Len(t)]
  <2>1. Len(u) = n + Len(t) /\ Len(u) \in n .. n + Len(t) /\ Len(u) - n = Len(t)
    BY <1>1
  <2> HIDE DEF c, u
  <2> QED BY <1>6, <2>1
<1> HIDE DEF c
<1>12. Asyncs(u) = c[Len(u)]
  <2> HIDE DEF u
  <2> QED BY <1>10, AsyncsAreRun
<1>13. Asyncs(s) = h /\ Asyncs(t) = b[Len(t)]
  BY <1>2, <1>3, AsyncsAreRun DEF h
<1> QED BY <1>11, <1>12, <1>13

\* Each comes from its place in the sequence ...
LEMMA AsyncsCome ==
  ASSUME NEW s \in Seq(Messages), NEW a, AsyncRun(s, a), NEW k \in 0 .. Len(s)
  PROVE  \A i \in 1 .. Len(a[k]) : \E j \in 1 .. k : IsAsync(s[j]) /\ a[k][i] = s[j]
<1> DEFINE P(n) == \A i \in 1 .. Len(a[n]) : \E j \in 1 .. n : IsAsync(s[j]) /\ a[n][i] = s[j]
           T == {n \in Nat : n <= Len(s) => P(n)}
<1>1. Len(s) \in Nat /\ \A n \in 0 .. Len(s) : a[n] \in Seq(Messages) /\ Len(a[n]) \in Nat
  BY LenProperties DEF AsyncRun
<1>2. 0 \in T
  <2>1. a[0] = <<>> /\ Len(a[0]) = 0
    BY EmptySeq DEF AsyncRun
  <2> QED BY <2>1
<1>3. ASSUME NEW n \in Nat, n \in T PROVE n + 1 \in T
  <2>1. SUFFICES ASSUME n + 1 <= Len(s) PROVE P(n + 1)
    <3> HIDE DEF P
    <3> QED OBVIOUS
  <2>2. P(n) /\ n \in 0 .. Len(s) /\ n + 1 \in 1 .. Len(s) /\ (n + 1) - 1 = n
    <3> HIDE DEF P
    <3> QED BY <1>1, <1>3, <2>1
  <2>3. a[n + 1] = IF IsAsync(s[n + 1]) THEN Append(a[n], s[n + 1]) ELSE a[n]
    BY <2>2 DEF AsyncRun, AsyncStep
  <2>4. a[n] \in Seq(Messages) /\ s[n + 1] \in Messages /\ Len(a[n]) \in Nat
    BY <1>1, <2>2, ElementOfSeq
  <2>5. ASSUME NEW i \in 1 .. Len(a[n + 1]) PROVE \E j \in 1 .. n + 1 : IsAsync(s[j]) /\ a[n + 1][i] = s[j]
    <3>1. CASE ~ IsAsync(s[n + 1])
      <4>1. PICK j \in 1 .. n : IsAsync(s[j]) /\ a[n][i] = s[j]
        BY <2>2, <2>3, <2>5, <3>1
      <4> QED BY <2>3, <3>1, <4>1
    <3>2. CASE IsAsync(s[n + 1])
      <4>1. /\ Len(a[n + 1]) = Len(a[n]) + 1
            /\ \A l \in 1 .. Len(a[n]) : a[n + 1][l] = a[n][l]
            /\ a[n + 1][Len(a[n]) + 1] = s[n + 1]
        BY <2>3, <2>4, <3>2, AppendProperties
      <4>2. CASE i \in 1 .. Len(a[n])
        <5>1. PICK j \in 1 .. n : IsAsync(s[j]) /\ a[n][i] = s[j]
          BY <2>2, <4>2
        <5> QED BY <4>1, <4>2, <5>1
      <4>3. CASE i \notin 1 .. Len(a[n])
        <5>1. i = Len(a[n]) + 1
          BY <2>4, <2>5, <4>1, <4>3
        <5> QED BY <3>2, <4>1, <5>1
      <4> QED BY <4>2, <4>3
    <3> QED BY <3>1, <3>2
  <2> QED BY <2>5
<1>4. k \in T
  <2>1. k \in Nat
    BY <1>1
  <2> HIDE DEF T
  <2>2. Nat \subseteq T
    BY <1>2, <1>3, NaturalInduction
  <2> QED BY <2>1, <2>2
<1>5. P(k)
  <2> HIDE DEF P
  <2> QED BY <1>1, <1>4
<1> QED BY <1>5

LEMMA AsyncsAreAsync ==
  ASSUME NEW s \in Seq(Messages)
  PROVE  \A i \in 1 .. Len(Asyncs(s)) : IsAsync(Asyncs(s)[i]) /\ \E j \in 1 .. Len(s) : Asyncs(s)[i] = s[j]
<1>1. PICK a : AsyncRun(s, a)
  BY AsyncRunExists
<1>2. Asyncs(s) = a[Len(s)] /\ Len(s) \in 0 .. Len(s)
  BY <1>1, AsyncsAreRun, LenProperties
<1>3. ASSUME NEW i \in 1 .. Len(Asyncs(s))
      PROVE  IsAsync(Asyncs(s)[i]) /\ \E j \in 1 .. Len(s) : Asyncs(s)[i] = s[j]
  <2>1. PICK j \in 1 .. Len(s) : IsAsync(s[j]) /\ a[Len(s)][i] = s[j]
    BY <1>1, <1>2, AsyncsCome
  <2> QED BY <1>2, <2>1
<1> QED BY <1>3

\* ... and has its place among them.
LEMMA AsyncsKeepPlace ==
  ASSUME NEW s \in Seq(Messages), NEW a, AsyncRun(s, a), NEW k \in 0 .. Len(s)
  PROVE  \A i \in 1 .. k : IsAsync(s[i]) =>
           Len(a[i - 1]) \in Nat /\ Len(a[i]) = Len(a[i - 1]) + 1 /\ Len(a[i]) \in 1 .. Len(a[k]) /\ a[k][Len(a[i])] = s[i]
<1> DEFINE P(n) == \A i \in 1 .. n : IsAsync(s[i]) =>
                     /\ Len(a[i - 1]) \in Nat /\ Len(a[i]) = Len(a[i - 1]) + 1
                     /\ Len(a[i]) \in 1 .. Len(a[n]) /\ a[n][Len(a[i])] = s[i]
           T == {n \in Nat : n <= Len(s) => P(n)}
<1>1. Len(s) \in Nat /\ \A n \in 0 .. Len(s) : a[n] \in Seq(Messages) /\ Len(a[n]) \in Nat
  BY LenProperties DEF AsyncRun
<1>2. 0 \in T
  OBVIOUS
<1>3. ASSUME NEW n \in Nat, n \in T PROVE n + 1 \in T
  <2>1. SUFFICES ASSUME n + 1 <= Len(s) PROVE P(n + 1)
    <3> HIDE DEF P
    <3> QED OBVIOUS
  <2>2. P(n) /\ n \in 0 .. Len(s) /\ n + 1 \in 1 .. Len(s) /\ (n + 1) - 1 = n
    <3> HIDE DEF P
    <3> QED BY <1>1, <1>3, <2>1
  <2>3. a[n + 1] = IF IsAsync(s[n + 1]) THEN Append(a[n], s[n + 1]) ELSE a[n]
    BY <2>2 DEF AsyncRun, AsyncStep
  <2>4. a[n] \in Seq(Messages) /\ s[n + 1] \in Messages /\ Len(a[n]) \in Nat
    BY <1>1, <2>2, ElementOfSeq
  <2>5. ASSUME NEW i \in 1 .. n + 1, IsAsync(s[i])
        PROVE  /\ Len(a[i - 1]) \in Nat /\ Len(a[i]) = Len(a[i - 1]) + 1
               /\ Len(a[i]) \in 1 .. Len(a[n + 1]) /\ a[n + 1][Len(a[i])] = s[i]
    <3>1. CASE ~ IsAsync(s[n + 1])
      <4>1. i \in 1 .. n
        BY <2>5, <3>1
      <4> QED BY <2>2, <2>3, <2>5, <3>1, <4>1
    <3>2. CASE IsAsync(s[n + 1])
      <4>1. /\ Len(a[n + 1]) = Len(a[n]) + 1
            /\ \A l \in 1 .. Len(a[n]) : a[n + 1][l] = a[n][l]
            /\ a[n + 1][Len(a[n]) + 1] = s[n + 1]
        BY <2>3, <2>4, <3>2, AppendProperties
      <4>2. CASE i = n + 1
        BY <2>2, <2>4, <4>1, <4>2
      <4>3. CASE i # n + 1
        <5>1. i \in 1 .. n
          BY <4>3
        <5>2. /\ Len(a[i - 1]) \in Nat /\ Len(a[i]) = Len(a[i - 1]) + 1
              /\ Len(a[i]) \in 1 .. Len(a[n]) /\ a[n][Len(a[i])] = s[i]
          BY <2>2, <2>5, <5>1
        <5>3. Len(a[i]) \in 1 .. Len(a[n + 1])
          <6> DEFINE l == Len(a[i])
                     p == Len(a[n])
                     q == Len(a[n + 1])
          <6>1. p \in Nat /\ q = p + 1 /\ l \in 1 .. p
            BY <2>4, <4>1, <5>2
          <6> HIDE DEF l, p, q
          <6>2. l \in 1 .. q
            BY <6>1
          <6> QED BY <6>2 DEF l, q
        <5>4. a[n + 1][Len(a[i])] = s[i]
          BY <4>1, <5>2
        <5> QED BY <5>2, <5>3, <5>4
      <4> QED BY <4>2, <4>3
    <3> QED BY <3>1, <3>2
  <2> QED BY <2>5
<1>4. k \in T
  <2>1. k \in Nat
    BY <1>1
  <2> HIDE DEF T
  <2>2. Nat \subseteq T
    BY <1>2, <1>3, NaturalInduction
  <2> QED BY <2>1, <2>2
<1>5. P(k)
  <2> HIDE DEF P
  <2> QED BY <1>1, <1>4
<1> QED BY <1>5

\* No two asynchronous messages are equal.
Once(s) == \A i, j \in 1 .. Len(s) : IsAsync(s[i]) /\ s[i] = s[j] => i = j

LEMMA OnceOfPart ==
  ASSUME NEW s \in Seq(Messages), NEW t \in Seq(Messages), Once(s), Len(t) <= Len(s), \A k \in 1 .. Len(t) : t[k] = s[k]
  PROVE  Once(t)
<1>1. Len(s) \in Nat /\ Len(t) \in Nat
  BY LenProperties
<1>2. \A k \in 1 .. Len(t) : k \in 1 .. Len(s)
  BY <1>1
<1> QED BY <1>2 DEF Once

\* Nothing but asynchronous messages are all of their asynchronous messages.
LEMMA AsyncsOfAsyncs ==
  ASSUME NEW s \in Seq(Messages), \A k \in 1 .. Len(s) : IsAsync(s[k])
  PROVE  Asyncs(s) = s
<1>1. PICK a : AsyncRun(s, a)
  BY AsyncRunExists
<1>2. /\ Asyncs(s) = a[Len(s)] /\ Asyncs(s) \in Seq(Messages) /\ Len(s) \in Nat /\ Len(s) \in 0 .. Len(s)
      /\ Len(a[0]) = 0
  BY <1>1, AsyncsAreRun, LenProperties, EmptySeq DEF AsyncRun
<1>3. \A i \in 1 .. Len(s) : Len(a[i]) = Len(a[i - 1]) + 1 /\ a[Len(s)][Len(a[i])] = s[i]
  BY <1>1, <1>2, AsyncsKeepPlace
<1> DEFINE T == {k \in Nat : k <= Len(s) => Len(a[k]) = k}
<1>4. 0 \in T
  BY <1>2
<1>5. ASSUME NEW k \in Nat, k \in T PROVE k + 1 \in T
  <2>1. SUFFICES ASSUME k + 1 <= Len(s) PROVE Len(a[k + 1]) = k + 1
    OBVIOUS
  <2>2. k + 1 \in 1 .. Len(s) /\ (k + 1) - 1 = k /\ Len(a[k]) = k
    BY <1>2, <1>5, <2>1
  <2> QED BY <1>3, <2>2
<1>6. \A k \in 0 .. Len(s) : Len(a[k]) = k
  <2>1. Nat \subseteq T
    <3> HIDE DEF T
    <3> QED BY <1>4, <1>5, NaturalInduction
  <2> QED BY <1>2, <2>1
<1>7. Len(Asyncs(s)) = Len(s) /\ \A i \in 1 .. Len(s) : Asyncs(s)[i] = s[i]
  <2>1. Len(a[Len(s)]) = Len(s)
    BY <1>2, <1>6
  <2>2. ASSUME NEW i \in 1 .. Len(s) PROVE Asyncs(s)[i] = s[i]
    <3>1. Len(a[i]) = i
      BY <1>2, <1>6
    <3>2. a[Len(s)][Len(a[i])] = s[i]
      BY <1>3
    <3> QED BY ONLY <1>2, <3>1, <3>2
  <2> QED BY ONLY <1>2, <2>1, <2>2
<1> QED BY <1>2, <1>7, SeqEqual

-----------------------------------------------------------------------------
(* What is put gives asynchook the asynchronous messages it takes.         *)

LEMMA PutHearsOne ==
  ASSUME NEW x, WellFormed(x), NEW p \in PutStates(x), p.stop = "no", NEW m \in Messages
  PROVE  LET q == PutMessage(x, p, m)
         IN  /\ q.count = p.count + 1
             /\ q.heard = IF IsAsync(m) /\ m \notin ToSet(p.heard) THEN Append(p.heard, m) ELSE p.heard
<1> DEFINE c == x.commands
           q == PutMessage(x, p, m)
<1>1. /\ CommandsOf(c, x.number) /\ Place(p) \in Places(c) /\ p.offset <= Len(c)
      /\ Place(p).offset = p.offset /\ Place(p).step = p.step
  BY DEF WellFormed, PutStates, Place, At
<1>0. p \in PutRecords(x)
  BY DEF PutStates
<1>2. /\ p.offset \in 1 .. Len(c) /\ Len(c) \in Nat /\ p.step \in Steps(c[p.offset].type)
      /\ c[p.offset].type \in Answered
  BY <1>1, PlaceType
<1>3. CASE m.type \in DOMAIN Paths(x, p)
  <2>1. ~ IsAsync(m)
    BY <1>2, <1>3, HookGoes DEF Paths, IsAsync
  <2>2. q = Accepted(x, p, m)
    BY <1>3, PutAccepts
  <2> QED BY <1>0, <2>1, <2>2 DEF Accepted, PutRecords
<1>4. CASE m.type = "Error"
  <2>1. ~ IsAsync(m)
    BY <1>4 DEF IsAsync, AsynchronousMap
  <2>2. q = SkippedWith(x, p, m)
    BY <1>4, PutError
  <2> QED BY <1>0, <2>1, <2>2 DEF SkippedWith, PutRecords
<1>5. CASE m.type = "FatalError"
  <2>1. ~ IsAsync(m)
    BY <1>5 DEF IsAsync, AsynchronousMap
  <2>2. q = EndedWith(p, m)
    BY <1>5, PutFatalError
  <2> QED BY <1>0, <2>1, <2>2 DEF EndedWith, PutRecords
<1>6. CASE m.type \notin DOMAIN Paths(x, p) /\ m.type \notin {"Error", "FatalError"}
  <2>1. q = IF IsAsync(m) THEN Asynchronous(Counted(p), m) ELSE ProtocolViolation(Counted(p))
    BY <1>6 DEF PutMessage, Counted, IsAsync
  <2>2. Counted(p).heard = p.heard /\ Counted(p).count = p.count + 1 /\ Counted(p) \in PutRecords(x)
    <3>1. p.count \in Nat /\ p.count + 1 \in Nat
      BY <1>0 DEF PutRecords
    <3>2. Counted(p).heard = p.heard /\ Counted(p).count = p.count + 1
      BY <1>0 DEF Counted, PutRecords
    <3>3. Counted(p) \in PutRecords(x)
      BY <1>0, <3>1 DEF Counted, PutRecords
    <3> QED BY <3>2, <3>3
  <2>3. CASE IsAsync(m)
    BY <2>1, <2>2, <2>3 DEF Asynchronous, PutRecords
  <2>4. CASE ~ IsAsync(m)
    BY <2>1, <2>2, <2>4 DEF ProtocolViolation, PutRecords
  <2> QED BY <2>3, <2>4
<1> QED BY <1>3, <1>4, <1>5, <1>6

LEMMA RunHears ==
  ASSUME NEW x, WellFormed(x), NEW group \in Seq(Messages), NEW run, PutRun(x, group, run), Once(group),
         NEW of, AsyncRun(group, of), NEW k \in 0 .. Len(group)
  PROVE  LET p == run[k]
         IN  /\ p.count \in 0 .. k /\ (p.stop = "no" => p.count = k)
             /\ p.heard = of[p.count]
<1> DEFINE P(n) == /\ run[n].count \in 0 .. n /\ (run[n].stop = "no" => run[n].count = n)
                   /\ run[n].heard = of[run[n].count]
           T == {n \in Nat : n <= Len(group) => P(n)}
<1>1. Len(group) \in Nat /\ \A n \in 0 .. Len(group) : run[n] \in PutStates(x)
  BY LenProperties DEF PutRun
<1>2. 0 \in T
  <2>1. run[0].count = 0 /\ run[0].heard = <<>> /\ of[0] = <<>>
    BY DEF PutRun, PutStart, AsyncRun
  <2> QED BY <2>1
<1>3. ASSUME NEW n \in Nat, n \in T PROVE n + 1 \in T
  <2>1. SUFFICES ASSUME n + 1 <= Len(group) PROVE P(n + 1)
    <3> HIDE DEF P
    <3> QED OBVIOUS
  <2>2. P(n) /\ n \in 0 .. Len(group) /\ n + 1 \in 1 .. Len(group) /\ (n + 1) - 1 = n
    BY <1>1, <1>3, <2>1
  <2> DEFINE p == run[n]
             m == group[n + 1]
  <2>3. run[n + 1] = PutMessage(x, p, m) /\ p \in PutStates(x) /\ m \in Messages
    BY <1>1, <2>2, ElementOfSeq DEF PutRun
  <2>4. of[n + 1] = IF IsAsync(m) THEN Append(of[n], m) ELSE of[n]
    BY <2>2 DEF AsyncRun, AsyncStep
  <2>5. CASE p.stop # "no"
    <3>1. run[n + 1] = p
      BY <2>3, <2>5 DEF PutMessage
    <3> HIDE DEF p
    <3> QED BY <2>2, <2>5, <3>1 DEF p
  <2>6. CASE p.stop = "no"
    <3>1. p.count = n /\ p.heard = of[n]
      BY <2>2, <2>6
    <3>2. ASSUME IsAsync(m) PROVE m \notin ToSet(of[n])
      <4> SUFFICES ASSUME m \in ToSet(of[n]) PROVE FALSE
        OBVIOUS
      <4>1. of[n] \in Seq(Messages) /\ DOMAIN of[n] = 1 .. Len(of[n])
        BY <2>2 DEF AsyncRun
      <4>2. PICK i \in 1 .. Len(of[n]) : of[n][i] = m
        BY <4>1 DEF ToSet
      <4>3. PICK j \in 1 .. n : of[n][i] = group[j]
        BY <2>2, AsyncsCome
      <4>4. j \in 1 .. Len(group) /\ j # n + 1 /\ group[n + 1] = group[j]
        BY <1>1, <2>2, <4>2, <4>3
      <4> HIDE DEF p
      <4> QED BY <2>2, <3>2, <4>4 DEF Once
    <3>3. run[n + 1].count = n + 1 /\ run[n + 1].heard = of[n + 1]
      <4>1. /\ PutMessage(x, p, m).count = p.count + 1
            /\ PutMessage(x, p, m).heard = IF IsAsync(m) /\ m \notin ToSet(p.heard) THEN Append(p.heard, m) ELSE p.heard
        BY <2>3, <2>6, PutHearsOne
      <4> HIDE DEF p, m
      <4> QED BY <2>3, <2>4, <3>1, <3>2, <4>1
    <3> QED BY <3>3
  <2> QED BY <2>5, <2>6
<1>4. k \in T
  <2> HIDE DEF T
  <2> QED BY <1>1, <1>2, <1>3, NaturalInduction
<1> QED BY <1>1, <1>4

LEMMA StandardPutHears ==
  ASSUME NEW x \in Transactions, WellFormed(x), Place(x) \in Places(x.commands), x.offset <= Len(x.commands),
         NEW group \in Seq(Messages), Once(group)
  PROVE  LET r == standard_put(x, group)
         IN  r.count \in 0 .. Len(group) /\ r.heard = Asyncs(SubSeq(group, 1, r.count))
<1> DEFINE n == Len(group)
           r == standard_put(x, group)
<1>1. PICK run : PutRun(x, group, run) /\ r = PutEnd(x, run[n])
  BY PutRuns
<1>2. PICK of : AsyncRun(group, of)
  BY AsyncRunExists
<1>3. n \in Nat /\ n \in 0 .. n
  BY LenProperties
<1>4. run[n].count \in 0 .. n /\ run[n].heard = of[run[n].count]
  BY <1>1, <1>2, <1>3, RunHears
<1> HIDE DEF n, r
<1>5. r.count = run[n].count /\ r.heard = run[n].heard
  BY <1>1 DEF PutEnd, Result
<1>6. r.count \in 0 .. Len(group) /\ r.heard = of[r.count]
  BY <1>4, <1>5 DEF n
<1> DEFINE t == SubSeq(group, 1, r.count)
<1>7. t \in Seq(Messages) /\ Len(t) = r.count /\ \A k \in 1 .. Len(t) : t[k] = group[k]
  BY <1>6, FirstPart
<1> HIDE DEF t
<1>8. PICK b : AsyncRun(t, b)
  BY <1>7, AsyncRunExists
<1>9. Asyncs(t) = b[Len(t)]
  BY <1>7, <1>8, AsyncsAreRun
<1>10. Len(t) \in 0 .. Len(t) /\ Len(t) <= Len(group)
  BY <1>3, <1>6, <1>7 DEF n
<1>11. b[Len(t)] = of[Len(t)]
  BY <1>2, <1>7, <1>8, <1>10, AsyncRunsAgree
<1> QED BY <1>6, <1>7, <1>9, <1>11 DEF t, r

\* The fast paths take no asynchronous message.
LEMMA OthersHeard ==
  ASSUME NEW group \in Seq(Messages), NEW n \in 0 .. Len(group),
         \A k \in 1 .. n : group[k].type \in {"Tuple", "CopyData"}
  PROVE  Asyncs(SubSeq(group, 1, n)) = <<>>
<1> DEFINE t == SubSeq(group, 1, n)
<1>1. t \in Seq(Messages) /\ Len(t) = n /\ \A k \in 1 .. Len(t) : t[k] = group[k]
  BY FirstPart
<1> HIDE DEF t
<1>2. \A k \in 1 .. Len(t) : ~ IsAsync(t[k])
  BY <1>1 DEF IsAsync, AsynchronousMap
<1> QED BY <1>1, <1>2, AsyncsOfOthers DEF t

LEMMA PutHears ==
  ASSUME NEW x \in Transactions, WellFormed(x), Place(x) \in Places(x.commands), x.offset <= Len(x.commands),
         NEW op \in Receiving, NEW group \in Seq(Messages), Once(group)
  PROVE  LET r == put(op, x, group)
         IN  r.count \in 0 .. Len(group) /\ r.heard = Asyncs(SubSeq(group, 1, r.count))
<1> DEFINE r == put(op, x, group)
           slow == standard_put(Slowed(x), group)
<1> SUFFICES r.count \in 0 .. Len(group) /\ r.heard = Asyncs(SubSeq(group, 1, r.count))
  OBVIOUS
<1> HIDE DEF r
<1>1. Len(group) \in Nat /\ DOMAIN group = 1 .. Len(group) /\ 0 \in 0 .. Len(group) /\ Len(group) \in 0 .. Len(group)
  BY LenProperties
<1>2. slow.count \in 0 .. Len(group) /\ slow.heard = Asyncs(SubSeq(group, 1, slow.count))
  <2> DEFINE y == Slowed(x)
  <2>1. y \in Transactions /\ y.commands = x.commands /\ y.number = x.number /\ y.offset = x.offset /\ Place(y) = Place(x)
    BY SlowedIs
  <2> HIDE DEF y
  <2>2. WellFormed(y)
    BY <2>1 DEF WellFormed
  <2> QED BY <2>1, <2>2, StandardPutHears DEF y
<1>3. Asyncs(SubSeq(group, 1, 0)) = <<>>
  BY <1>1, OthersHeard
<1>4. CASE op = "standard_put"
  <2>1. r = standard_put(x, group)
    BY <1>4 DEF put, r
  <2> QED BY <2>1, StandardPutHears
<1>5. CASE op = "put_copydata"
  <2>1. r = put_copydata(x, group)
    BY <1>5 DEF put, r
  <2>2. CASE group = <<>>
    <3>1. r.count = 0 /\ r.heard = <<>>
      BY <2>1, <2>2 DEF put_copydata, Result
    <3> QED BY <1>1, <1>3, <3>1
  <2>3. CASE group # <<>> /\ \A i \in DOMAIN group : group[i].type = "CopyData"
    <3>1. r.count = Len(group) /\ r.heard = <<>>
      BY <2>1, <2>3 DEF put_copydata, Result
    <3>2. Asyncs(SubSeq(group, 1, Len(group))) = <<>>
      BY <1>1, <2>3, OthersHeard
    <3> QED BY <1>1, <3>1, <3>2
  <2>4. CASE group # <<>> /\ ~ \A i \in DOMAIN group : group[i].type = "CopyData"
    <3>1. r = slow
      BY <2>1, <2>4 DEF put_copydata, Slowed
    <3> QED BY <1>2, <3>1
  <2> QED BY <2>2, <2>3, <2>4
<1>6. CASE op = "put_tupledata"
  <2> DEFINE n == Rows(group)
  <2>1. r = put_tupledata(x, group)
    BY <1>6 DEF put, r
  <2>2. n \in 0 .. Len(group) /\ \A i \in 1 .. n : group[i].type = "Tuple"
    BY RowsAre
  <2>3. CASE group = <<>> /\ ~ Optimized
    <3>1. r.count = 0 /\ r.heard = <<>>
      BY <2>1, <2>3 DEF put_tupledata, Result
    <3> QED BY <1>1, <1>3, <3>1
  <2>4. CASE ~ (group = <<>> /\ ~ Optimized) /\ (n = 0 \/ (~ Optimized /\ n < Len(group)))
    <3>1. r = slow
      BY <2>1, <2>4 DEF put_tupledata, Slowed
    <3> QED BY <1>2, <3>1
  <2>5. CASE ~ (group = <<>> /\ ~ Optimized) /\ ~ (n = 0 \/ (~ Optimized /\ n < Len(group)))
    <3>1. r.count = n /\ r.heard = <<>>
      BY <2>1, <2>5 DEF put_tupledata, Result
    <3>2. Asyncs(SubSeq(group, 1, n)) = <<>>
      BY <2>2, OthersHeard
    <3> HIDE DEF n
    <3> QED BY <2>2, <3>1, <3>2
  <2> QED BY <2>3, <2>4, <2>5
<1> QED BY <1>4, <1>5, <1>6 DEF Receiving

-----------------------------------------------------------------------------
(* The asynchronous messages among what the server answers.                *)

Asks(c) == c.type \in {"Query", "Execute"}

PlainTypes(types) == \A k \in 1 .. Len(types) : types[k] \notin AsynchronousMap
OnceTypes(types) == \A i, j \in 1 .. Len(types) : types[i] \in AsynchronousMap /\ types[i] = types[j] => i = j
\* What c returns while the server reads d.
Fits(c, d, types) ==
  /\ types \in Seq(ReplyTypes)
  /\ PlainTypes(types) \/ (c = d /\ Asks(d))
  /\ ~ Repeated => OnceTypes(types)

\* They are of the command that was read, and of one that asks for something.
Own(out, d) ==
  /\ \A k \in 1 .. Len(out) : IsAsync(out[k]) => Asks(d) /\ out[k].of = d.id
  /\ Once(out)

LEMMA FitsResult ==
  ASSUME NEW d, NEW types \in Results(d)
  PROVE  Fits(d, d, types)
<1>1. types \in Seq(ReplyTypes) /\ DOMAIN types = 1 .. Len(types)
  <2>1. types \in Seq(ReplyTypes)
    BY ReplyTypesAre
  <2> QED BY <2>1, LenProperties
<1>2. CASE Asks(d)
  <2>1. types \in QueryResults \cup ExecuteResults
    BY <1>2 DEF Asks, Results
  <2>2. ~ Repeated => \A i, j \in DOMAIN types : types[i] \in AsynchronousMap /\ types[i] = types[j] => i = j
    BY <2>1, AsyncAssumption
  <2> QED BY <1>1, <1>2, <2>2 DEF Fits, OnceTypes
<1>3. CASE ~ Asks(d)
  <2>1. types \in {<<"ParseComplete">>, <<"BindComplete">>, <<"AttributeTypes", "TupleDescriptor">>,
                   <<"AttributeTypes", "NoData">>, <<"CloseComplete">>, <<"FunctionResult">>, << >>}
    <3>1. CASE d.type \in {"Parse", "Bind", "Describe", "Close", "Function"}
      BY <3>1 DEF Results
    <3>2. CASE d.type \notin {"Parse", "Bind", "Describe", "Close", "Function"}
      BY <1>3, <3>2 DEF Results, Asks
    <3> QED BY <3>1, <3>2
  <2>2. PlainTypes(types)
    BY <2>1 DEF PlainTypes, AsynchronousMap
  <2>3. OnceTypes(types)
    BY <2>2 DEF PlainTypes, OnceTypes
  <2> QED BY <1>1, <2>2, <2>3 DEF Fits
<1> QED BY <1>2, <1>3

LEMMA FitsAppended ==
  ASSUME NEW c, NEW d, NEW types, Fits(c, d, types), NEW type \in ReplyTypes, type \notin AsynchronousMap
  PROVE  Fits(c, d, Append(types, type))
<1> DEFINE t == Append(types, type)
<1>1. types \in Seq(ReplyTypes)
  BY DEF Fits
<1>2. /\ t \in Seq(ReplyTypes) /\ Len(t) = Len(types) + 1 /\ Len(types) \in Nat
      /\ \A n \in 1 .. Len(types) : t[n] = types[n]
      /\ t[Len(types) + 1] = type
      /\ \A n \in 1 .. Len(t) : n \in 1 .. Len(types) \/ n = Len(types) + 1
  <2> HIDE DEF t
  <2> QED BY <1>1, AppendedIs DEF t
<1> HIDE DEF t
<1>3. PlainTypes(types) => PlainTypes(t)
  BY <1>2 DEF PlainTypes
<1>4. OnceTypes(types) => OnceTypes(t)
  BY <1>2 DEF OnceTypes
<1> QED BY <1>2, <1>3, <1>4 DEF Fits, t

LEMMA FitsPart ==
  ASSUME NEW c, NEW d, NEW types, Fits(c, d, types), NEW part \in Prefixes(types)
  PROVE  Fits(c, d, part)
<1>1. types \in Seq(ReplyTypes)
  BY DEF Fits
<1>2. PICK n \in 0 .. Len(types) : part = SubSeq(types, 1, n)
  BY DEF Prefixes
<1>3. part \in Seq(ReplyTypes) /\ Len(part) = n /\ \A k \in 1 .. n : k \in 1 .. Len(types) /\ part[k] = types[k]
  BY <1>1, <1>2, FirstPart
<1>4. PlainTypes(types) => PlainTypes(part)
  BY <1>3 DEF PlainTypes
<1>5. OnceTypes(types) => OnceTypes(part)
  BY <1>3 DEF OnceTypes
<1> QED BY <1>3, <1>4, <1>5 DEF Fits

LEMMA FitsEnded ==
  ASSUME NEW c, NEW d, NEW types, Fits(c, d, types)
  PROVE  Fits(c, d, Ended(c, types))
<1>1. "Ready" \in ReplyTypes /\ "Ready" \notin AsynchronousMap
  BY DEF ReplyTypes, Replies, AsynchronousMap
<1> QED BY <1>1, FitsAppended DEF Ended

LEMMA FitsOuts ==
  ASSUME NEW c \in Sendables, NEW d, NEW types, Fits(c, d, types), NEW tx \in Statuses,
         NEW out, out = Outs(c, types, tx)
  PROVE  out \in Seq(Messages) /\ (~ Repeated => Own(out, d))
<1>1. types \in Seq(ReplyTypes) /\ c.id \in Ids
  BY DEF Fits, Sendables
<1>2. /\ out \in Seq(Messages) /\ Len(out) = Len(types)
      /\ \A k \in 1 .. Len(types) : out[k].type = types[k] /\ out[k].of = c.id
  BY <1>1, OutsAre
<1>3. ASSUME ~ Repeated PROVE Once(out)
  BY <1>2, <1>3 DEF Fits, Once, OnceTypes, IsAsync
<1>4. ASSUME NEW k \in 1 .. Len(out), IsAsync(out[k]) PROVE Asks(d) /\ out[k].of = d.id
  <2>1. types[k] \in AsynchronousMap
    BY <1>2, <1>4 DEF IsAsync
  <2>2. c = d /\ Asks(d)
    BY <1>2, <2>1 DEF Fits, PlainTypes
  <2> QED BY <1>2, <2>2
<1> QED BY <1>2, <1>3, <1>4 DEF Own

LEMMA AnswersFit ==
  ASSUME server \in Servers, server.mode \in CopyIn => server.by \in Sendables, NEW d \in Sendables, NEW a \in Answers(d)
  PROVE  a.out \in Seq(Messages) /\ (~ Repeated => Own(a.out, d))
<1>1. server.tx \in Statuses
  BY DEF Servers
<1> DEFINE Good == a.out \in Seq(Messages) /\ (~ Repeated => Own(a.out, d))
<1>2. ASSUME NEW c \in Sendables, NEW types, Fits(c, d, types), NEW tx \in Statuses, a.out = Outs(c, types, tx)
      PROVE  Good
  BY <1>2, FitsOuts
<1> SUFFICES Good
  OBVIOUS
<1> HIDE DEF Good
<1>3. ASSUME NEW c \in Sendables, NEW types, Fits(c, d, types), a \in Succeeds(c, types) PROVE Good
  <2>1. CASE BeginsCopy(types)
    <3>1. Spoken(a, Outs(c, types, server.tx), "copyin", server.tx, c)
      BY <1>1, <1>3, <2>1, SucceedsIs
    <3> QED BY <1>1, <1>2, <1>3, <3>1 DEF Spoken
  <2>2. CASE ~ BeginsCopy(types)
    <3>1. PICK tx \in Statuses : Spoken(a, Outs(c, Ended(c, types), tx), "ready", tx, None)
      BY <1>1, <1>3, <2>2, SucceedsIs
    <3>2. Fits(c, d, Ended(c, types))
      BY <1>3, FitsEnded
    <3> QED BY <1>2, <3>1, <3>2 DEF Spoken
  <2> QED BY <2>1, <2>2
<1>4. ASSUME NEW c \in Sendables, NEW types, Fits(c, d, types), a = Fails(c, types) PROVE Good
  <2> DEFINE mode == IF c.type \in ImplySync THEN "ready" ELSE "skip"
             t == Ended(c, Append(types, "Error"))
  <2>1. PICK tx \in Statuses : Spoken(a, Outs(c, t, tx), mode, tx, None)
    BY <1>1, <1>4, FailsIs
  <2>2. Fits(c, d, t)
    <3>1. "Error" \in ReplyTypes /\ "Error" \notin AsynchronousMap
      BY DEF ReplyTypes, AsynchronousMap
    <3> QED BY <1>4, <3>1, FitsAppended, FitsEnded
  <2> HIDE DEF t, mode
  <2> QED BY <1>2, <2>1, <2>2 DEF Spoken
<1>5. ASSUME a \in ReadyAnswers(d) PROVE Good
  <2>1. PICK types \in Results(d) :
           \/ a \in Succeeds(d, types)
           \/ /\ d.type # "Synchronize"
              /\ \E part \in Prefixes(types) \ {types} : a = Fails(d, part)
    BY <1>5, AnswersOf
  <2>2. Fits(d, d, types)
    BY FitsResult
  <2>3. \A part \in Prefixes(types) : Fits(d, d, part)
    BY <2>2, FitsPart
  <2> QED BY <1>3, <1>4, <2>1, <2>2, <2>3
<1>6. ASSUME NEW mode, a = Silently(mode) PROVE Good
  <2>1. a.out = <<>>
    BY <1>6 DEF Silently
  <2>2. <<>> \in Seq(Messages) /\ Len(<<>>) = 0
    BY EmptySeq
  <2>3. Own(<<>>, d)
    BY <2>2 DEF Own, Once
  <2> QED BY <2>1, <2>2, <2>3 DEF Good
<1>7. \A c : Fits(c, d, <<>>) /\ Fits(c, d, <<"Complete">>)
  <2>1. <<>> \in Seq(ReplyTypes) /\ <<"Complete">> \in Seq(ReplyTypes)
    BY DEF ReplyTypes, Replies
  <2>2. PlainTypes(<<>>) /\ PlainTypes(<<"Complete">>) /\ OnceTypes(<<>>) /\ OnceTypes(<<"Complete">>)
    BY DEF PlainTypes, OnceTypes, AsynchronousMap
  <2> QED BY <2>1, <2>2 DEF Fits
<1>8. ASSUME server.mode \in CopyIn, a = Fails(server.by, <<>>) \/ a \in Succeeds(server.by, <<"Complete">>)
      PROVE  Good
  BY <1>3, <1>4, <1>7, <1>8
<1>9. CASE d.type = "Disconnect"
  BY <1>6, <1>9 DEF Answers
<1>10. CASE d.type # "Disconnect" /\ server.mode = "skip"
  BY <1>5, <1>6, <1>10, AnswersWhileSkipping
<1>11. CASE d.type # "Disconnect" /\ server.mode \in CopyIn
  <2>1. server.mode # "skip"
    BY <1>11 DEF CopyIn
  <2>2. CASE d.type \in {"Synchronize", "Flush"}
    BY <1>6, <1>11, <2>1, <2>2 DEF Answers
  <2>3. CASE d.type \in {"CopyData", "CopyDone"}
    BY <1>6, <1>8, <1>11, <2>3, AnswersWhileLoading
  <2>4. CASE d.type \notin {"Synchronize", "Flush", "CopyData", "CopyDone"}
    BY <1>8, <1>11, <2>1, <2>4 DEF Answers
  <2> QED BY <2>2, <2>3, <2>4
<1>12. CASE d.type # "Disconnect" /\ server.mode \notin CopyIn \cup {"skip"}
  BY <1>5, <1>6, <1>12 DEF Answers
<1> QED BY <1>9, <1>10, <1>11, <1>12

\* A COPY that is waited for was begun by a command of the transaction.
LEMMA CopyHasCommand ==
  ASSUME Inv, server.mode \in CopyIn
  PROVE  server.by \in Sendables
<1>1. server.mode \notin {"ready", "skip", "gone"}
  BY DEF CopyIn
<1>2. /\ xact = None => Idle
      /\ xact # None => xact \in Transactions /\ (Dead \/ Starting \/ Lives)
  BY InvIs
<1>3. ~ Idle /\ ~ Dead /\ ~ Starting
  BY <1>1, SettledRests DEF Idle, Dead, Starting, Resting
<1>4. Live(xact, Inbox, toServer, server, failed)
  BY <1>2, <1>3 DEF Lives
<1>5. PICK e \in Places(xact.commands) : Working(xact, Inbox, toServer, server, e)
  BY <1>1, <1>4 DEF Live, StandsAt
<1>6. server.by = xact.commands[e.offset] /\ CopyPlace(xact.commands, e)
  BY <1>1, <1>5 DEF Working, Answering, Skipping, Loading
<1>7. CommandsOf(xact.commands, xact.number) /\ xact.commands \in Seq(Sendables) /\ e.offset <= Len(xact.commands)
      /\ e.offset \in 1 .. Len(xact.commands) + 1
  BY <1>2, <1>3, <1>4, <1>6, LiveHas, CommandsAreSendable DEF CopyPlace, Places
<1>8. e.offset \in 1 .. Len(xact.commands)
  BY <1>7, LenProperties
<1> QED BY <1>6, <1>7, <1>8, ElementOfSeq

-----------------------------------------------------------------------------
(* The inductive invariant of the asynchronous messages.                   *)

\* Transactions whose commands are yet to be sent.
Unsending(n) ==
  \/ n > made
  \/ Pushing /\ n = pushing.number
  \/ Opening /\ xact.state = "standard_sent" /\ n = xact.number
Untouched(n) ==
  /\ \A j \in 1 .. Len(notified) : notified[j].of \notin {n} \X Nat
  /\ \A i \in 1 .. Len(toServer) : Asks(toServer[i]) => toServer[i].id[1] # n

\* What asynchook was given and what is still to be read is what was sent.
HeardInv ==
  server.mode # "gone" /\ socket # "closed" =>
    /\ heard \in Seq(Messages) /\ \A k \in 1 .. Len(heard) : IsAsync(heard[k])
    /\ Once(Inbox) /\ heard \o Asyncs(Inbox) = notified

\* No command is answered twice.
AskedInv ==
  /\ notified \in Seq(Messages)
  /\ \A n \in Nat : Unsending(n) => Untouched(n)
  /\ \A i \in 1 .. Len(toServer), j \in 1 .. Len(notified) :
       Asks(toServer[i]) => notified[j].of # toServer[i].id
  /\ \A i, j \in 1 .. Len(toServer) :
       Asks(toServer[i]) /\ Asks(toServer[j]) /\ toServer[i].id = toServer[j].id => i = j

AsyncInv == HeardInv /\ AskedInv

LEMMA InitAsyncInv == Init => AsyncInv
<1> SUFFICES ASSUME Init PROVE AsyncInv
  OBVIOUS
<1>1. read = <<>> /\ toClient = <<>> /\ toServer = <<>> /\ notified = <<>> /\ heard = <<>>
  BY DEF Init
<1>2. Len(<<>>) = 0 /\ <<>> \in Seq(Messages)
  BY EmptySeq
<1> DEFINE z == <<>>
<1>3. Len(z) = 0 /\ z \in Seq(Messages) /\ Asyncs(z) = z /\ z \o z = z
  BY <1>2, AsyncsOfNothing, ConcatEmptySeq
<1>4. Inbox = z /\ toServer = z /\ notified = z /\ heard = z
  BY <1>1, <1>3 DEF Inbox
<1> HIDE DEF z
<1>5. HeardInv
  BY <1>3, <1>4 DEF HeardInv, Once
<1>6. AskedInv
  BY <1>3, <1>4 DEF AskedInv, Untouched
<1> QED BY <1>5, <1>6 DEF AsyncInv

-----------------------------------------------------------------------------
(* What an action leaves alone.                                            *)

LEMMA HeardStays ==
  ASSUME HeardInv, UNCHANGED <<read, toClient, heard, notified>>,
         server'.mode # "gone" /\ socket' # "closed" => server.mode # "gone" /\ socket # "closed"
  PROVE  HeardInv'
<1>1. Inbox' = Inbox /\ heard' = heard /\ notified' = notified
  BY DEF Inbox
<1> QED BY <1>1 DEF HeardInv

LEMMA AskedStays ==
  ASSUME AskedInv, UNCHANGED <<toServer, notified>>, \A n \in Nat : Unsending(n)' => Unsending(n)
  PROVE  AskedInv'
<1>1. ASSUME NEW n \in Nat, Unsending(n)' PROVE Untouched(n)'
  <2>1. Untouched(n)
    BY <1>1 DEF AskedInv
  <2> QED BY <2>1 DEF Untouched
<1> QED BY <1>1 DEF AskedInv

\* Only a new transaction becomes one that is yet to be sent.
Calm ==
  /\ made' \in {made, made + 1}
  /\ Pushing' => pushing'.number = made + 1 \/ (Pushing /\ pushing' = pushing)
  /\ Opening' /\ xact'.state = "standard_sent" =>
       xact'.number = made + 1 \/ (Opening /\ xact' = xact)

LEMMA CalmIs ==
  ASSUME Inv, Calm
  PROVE  \A n \in Nat : Unsending(n)' => Unsending(n)
<1> SUFFICES ASSUME NEW n \in Nat, Unsending(n)' PROVE Unsending(n)
  OBVIOUS
<1>1. made \in Nat
  BY InvIs
<1>2. n = made + 1 => n > made
  BY <1>1
<1>3. CASE n > made'
  <2>1. n > made
    BY <1>1, <1>3 DEF Calm
  <2> QED BY <2>1 DEF Unsending
<1>4. CASE Pushing' /\ n = pushing'.number
  BY <1>2, <1>4 DEF Calm, Unsending
<1>5. CASE Opening' /\ xact'.state = "standard_sent" /\ n = xact'.number
  BY <1>2, <1>5 DEF Calm, Unsending
<1> QED BY <1>3, <1>4, <1>5 DEF Unsending

LEMMA CalmStays ==
  ASSUME Inv, AsyncInv, Calm, UNCHANGED <<read, toClient, toServer, heard, notified, server, socket>>
  PROVE  AsyncInv'
<1>1. HeardInv'
  BY HeardStays DEF AsyncInv
<1>2. AskedInv'
  BY CalmIs, AskedStays DEF AsyncInv
<1> QED BY <1>1, <1>2 DEF AsyncInv

-----------------------------------------------------------------------------
(* The actions that only move control.                                     *)

LEMMA BatchNumber ==
  ASSUME NEW types
  PROVE  Batch(types).number = made + 1
BY DEF Batch, NewInstruction

LEMMA ClosingNumber == NewClosing(made + 1).number = made + 1
BY DEF NewClosing, NewInstruction

LEMMA PushIsCalm ==
  ASSUME NEW types, NEW next, Push(types, next)
  PROVE  Calm
<1>1. made' = made + 1 /\ pushing' = Batch(types) /\ ~ Opening'
  BY DEF Push, PqPush, Begin, Goto, Opening
<1> QED BY <1>1, BatchNumber DEF Calm

LEMMA PreviousCompletedIsCalm ==
  ASSUME PreviousCompleted
  PROVE  Calm
<1>1. made' = made /\ Pushing /\ ~ Opening'
  BY DEF PreviousCompleted, Completed, Return, Goto, boundVars, Pushing, Opening
<1>2. Pushing' => pushing' = pushing
  BY DEF PreviousCompleted, Return, Goto, Pushing
<1> QED BY <1>1, <1>2 DEF Calm

LEMMA TakeOutTrashIsCalm ==
  ASSUME TakeOutTrash
  PROVE  Calm
<1>1. made' = made + 1 /\ Pushing /\ pushing' = pushing
  BY DEF TakeOutTrash, NewXact, Pushing
<1>2. xact'.number = made + 1
  BY BatchNumber DEF TakeOutTrash, NewXact
<1> QED BY <1>1, <1>2 DEF Calm

LEMMA TrashTakenOutIsCalm ==
  ASSUME TrashTakenOut
  PROVE  Calm
<1>1. made' = made /\ Pushing /\ pushing' = pushing /\ ~ Opening'
  BY DEF TrashTakenOut, Completed, Goto, boundVars, Pushing, Opening
<1> QED BY <1>1 DEF Calm

\* Nothing is pushed, or opened, after it.
LEMMA QuietlyIsCalm ==
  ASSUME made' = made, ~ Pushing', ~ Opening'
  PROVE  Calm
BY DEF Calm

LEMMA ReturnsQuietly ==
  ASSUME pc' \in {"idle", "pushed"} \/ (pc' = "complete" /\ then' \in {"_pq_complete", "synchronize", "close"})
  PROVE  ~ Pushing' /\ ~ Opening'
BY DEF Pushing, Opening

LEMMA SynchronizeIsCalm ==
  ASSUME Synchronize \/ BeforeSynchronize
  PROVE  Calm
<1>1. pc' = "complete" /\ then' \in {"synchronize", "synchronized"}
  BY DEF Synchronize, BeforeSynchronize, Begin
<1>2. ~ Pushing'
  BY <1>1 DEF Pushing
<1>3. CASE xact' = Batch(<<"Synchronize">>) /\ made' = made + 1
  BY <1>2, <1>3, BatchNumber DEF Calm
<1>4. CASE then' = "synchronize" /\ made' = made
  BY <1>1, <1>2, <1>4 DEF Calm, Opening
<1> QED BY <1>3, <1>4 DEF Synchronize, BeforeSynchronize, NewXact, Begin

LEMMA CloseIsCalm ==
  ASSUME Close \/ BeforeClose
  PROVE  Calm
<1>1. \/ pc' = "push" /\ then' = None /\ pushing' = NewClosing(made + 1) /\ made' = made + 1
      \/ (pc' = "pushed" \/ (pc' = "complete" /\ then' = "close")) /\ made' = made
  BY DEF Close, BeforeClose, Begin, Goto
<1>2. ~ Opening'
  BY <1>1 DEF Opening
<1>3. CASE pushing' = NewClosing(made + 1) /\ made' = made + 1
  BY <1>2, <1>3, ClosingNumber DEF Calm
<1>4. CASE (pc' = "pushed" \/ (pc' = "complete" /\ then' = "close")) /\ made' = made
  <2>1. ~ Pushing'
    BY <1>4 DEF Pushing
  <2> QED BY <1>2, <1>4, <2>1 DEF Calm
<1> QED BY <1>1, <1>3, <1>4

LEMMA ControlIsCalm ==
  ASSUME \/ \E types \in Batches, next \in {"complete", "return"} : Push(types, next)
         \/ PreviousCompleted \/ TakeOutTrash \/ TrashTakenOut \/ Pushed \/ PqComplete \/ PqCompleted
         \/ StepDropped \/ Synchronize \/ BeforeSynchronize \/ Synchronized \/ Close \/ BeforeClose \/ Trash
         \/ \E messages \in {"chunk", "done"} : SetMessages(messages)
  PROVE  Calm /\ UNCHANGED <<read, toClient, toServer, heard, notified, server, socket>>
<1>1. CASE \E types \in Batches, next \in {"complete", "return"} : Push(types, next)
  BY <1>1, PushIsCalm DEF Push, connVars, wire, serverVars, asyncVars
<1>2. CASE PreviousCompleted
  BY <1>2, PreviousCompletedIsCalm DEF PreviousCompleted, wire, serverVars, asyncVars
<1>3. CASE TakeOutTrash
  BY <1>3, TakeOutTrashIsCalm DEF TakeOutTrash, wire, serverVars, asyncVars
<1>4. CASE TrashTakenOut
  BY <1>4, TrashTakenOutIsCalm DEF TrashTakenOut, wire, serverVars, asyncVars
<1>5. CASE Synchronize
  BY <1>5, SynchronizeIsCalm DEF Synchronize, wire, serverVars, asyncVars
<1>6. CASE BeforeSynchronize
  BY <1>6, SynchronizeIsCalm DEF BeforeSynchronize, wire, serverVars, asyncVars
<1>7. CASE Close
  BY <1>7, CloseIsCalm DEF Close, connVars, wire, serverVars, asyncVars
<1>8. CASE BeforeClose
  BY <1>8, CloseIsCalm DEF BeforeClose, wire, serverVars, asyncVars
<1>9. CASE Pushed
  <2>1. /\ pc' = "idle" \/ (pc' = "complete" /\ then' = "_pq_complete")
        /\ UNCHANGED <<read, toClient, toServer, heard, notified, server, socket, made>>
    BY <1>9 DEF Pushed, Begin, Goto, connVars, wire, serverVars, boundVars, asyncVars
  <2> QED BY <2>1, ReturnsQuietly, QuietlyIsCalm
<1>10. CASE PqComplete
  <2>1. /\ pc' = "complete" /\ then' = "_pq_complete"
        /\ UNCHANGED <<read, toClient, toServer, heard, notified, server, socket, made>>
    BY <1>10 DEF PqComplete, Begin, connVars, wire, serverVars, boundVars, asyncVars
  <2> QED BY <2>1, ReturnsQuietly, QuietlyIsCalm
<1>11. CASE PqCompleted
  <2>1. pc' = "idle" /\ UNCHANGED <<read, toClient, toServer, heard, notified, server, socket, made>>
    BY <1>11 DEF PqCompleted, Return, Goto, wire, serverVars, boundVars, asyncVars
  <2> QED BY <2>1, ReturnsQuietly, QuietlyIsCalm
<1>12. CASE StepDropped
  <2>1. pc' = "idle" /\ UNCHANGED <<read, toClient, toServer, heard, notified, server, socket, made>>
    BY <1>12 DEF StepDropped, Return, Goto, connVars, wire, serverVars, boundVars, asyncVars
  <2> QED BY <2>1, ReturnsQuietly, QuietlyIsCalm
<1>13. CASE Synchronized
  <2>1. pc' = "idle" /\ UNCHANGED <<read, toClient, toServer, heard, notified, server, socket, made>>
    BY <1>13 DEF Synchronized, Return, Goto, wire, serverVars, boundVars, asyncVars
  <2> QED BY <2>1, ReturnsQuietly, QuietlyIsCalm
<1>14. CASE Trash
  <2>1. UNCHANGED <<xact, pc, then, pushing, made, read, toClient, toServer, heard, notified, server, socket>>
    BY <1>14 DEF Trash, callVars, wire, serverVars, boundVars, asyncVars
  <2>2. (Pushing' <=> Pushing) /\ (Opening' <=> Opening)
    BY <2>1 DEF Pushing, Opening
  <2> QED BY <2>1, <2>2 DEF Calm
<1>15. CASE \E messages \in {"chunk", "done"} : SetMessages(messages)
  <2>1. pc' = "idle" /\ UNCHANGED <<read, toClient, toServer, heard, notified, server, socket, made>>
    BY <1>15 DEF SetMessages, callVars, wire, serverVars, asyncVars
  <2> QED BY <2>1, ReturnsQuietly, QuietlyIsCalm
<1> QED BY <1>1, <1>2, <1>3, <1>4, <1>5, <1>6, <1>7, <1>8, <1>9, <1>10, <1>11, <1>12, <1>13, <1>14, <1>15

-----------------------------------------------------------------------------
(* Sending.                                                                *)

\* What is sent asks for nothing, or is the commands of a new transaction.
LEMMA AskedSent ==
  ASSUME AskedInv, toServer \in Seq(Sendables), NEW w \in Seq(Sendables), toServer' = toServer \o w,
         notified' = notified, \A n \in Nat : Unsending(n)' => Unsending(n),
         \/ \A k \in 1 .. Len(w) : ~ Asks(w[k])
         \/ \E u \in Nat : CommandsOf(w, u) /\ Unsending(u) /\ ~ Unsending(u)'
  PROVE  AskedInv'
<1> DEFINE o == toServer
           p == toServer'
<1>1. /\ p \in Seq(Sendables) /\ Len(o) \in Nat /\ Len(w) \in Nat /\ Len(p) = Len(o) + Len(w)
      /\ \A k \in 1 .. Len(o) : k \in 1 .. Len(p) /\ p[k] = o[k]
      /\ \A k \in 1 .. Len(p) :
           k \in 1 .. Len(o) \/ (k > Len(o) /\ k - Len(o) \in 1 .. Len(w) /\ p[k] = w[k - Len(o)])
  <2> HIDE DEF o, p
  <2>1. o \in Seq(Sendables) /\ p = o \o w
    BY DEF o, p
  <2> QED BY <2>1, JoinIs
<1>2. /\ notified \in Seq(Messages)
      /\ \A n \in Nat : Unsending(n) => Untouched(n)
      /\ \A i \in 1 .. Len(o), j \in 1 .. Len(notified) : Asks(o[i]) => notified[j].of # o[i].id
      /\ \A i, j \in 1 .. Len(o) : Asks(o[i]) /\ Asks(o[j]) /\ o[i].id = o[j].id => i = j
  BY DEF AskedInv
\* What is to show of the new wire.
<1>3. ASSUME \A i \in 1 .. Len(p) : Asks(p[i]) =>
               /\ \A n \in Nat : Unsending(n)' => p[i].id[1] # n
               /\ \A j \in 1 .. Len(notified) : notified[j].of # p[i].id,
             \A i, j \in 1 .. Len(p) : Asks(p[i]) /\ Asks(p[j]) /\ p[i].id = p[j].id => i = j
      PROVE  AskedInv'
  <2>1. ASSUME NEW n \in Nat, Unsending(n)' PROVE Untouched(n)'
    <3>1. Untouched(n)
      BY <1>2, <2>1
    <3> QED BY <1>3, <2>1, <3>1 DEF Untouched
  <2> QED BY <1>2, <1>3, <2>1 DEF AskedInv
<1>4. ASSUME NEW i \in 1 .. Len(o), Asks(o[i])
      PROVE  /\ \A n \in Nat : Unsending(n)' => o[i].id[1] # n
             /\ \A j \in 1 .. Len(notified) : notified[j].of # o[i].id
  BY <1>2, <1>4 DEF Untouched
<1>5. CASE \A k \in 1 .. Len(w) : ~ Asks(w[k])
  <2>1. \A i \in 1 .. Len(p) : Asks(p[i]) => i \in 1 .. Len(o) /\ p[i] = o[i]
    BY <1>1, <1>5
  <2> HIDE DEF o, p
  <2>2. \A i \in 1 .. Len(p) : Asks(p[i]) =>
          /\ \A n \in Nat : Unsending(n)' => p[i].id[1] # n
          /\ \A j \in 1 .. Len(notified) : notified[j].of # p[i].id
    BY <1>4, <2>1
  <2>3. \A i, j \in 1 .. Len(p) : Asks(p[i]) /\ Asks(p[j]) /\ p[i].id = p[j].id => i = j
    BY <1>2, <2>1
  <2> QED BY <1>3, <2>2, <2>3
<1>6. CASE \E u \in Nat : CommandsOf(w, u) /\ Unsending(u) /\ ~ Unsending(u)'
  <2>1. PICK u \in Nat : CommandsOf(w, u) /\ Unsending(u) /\ ~ Unsending(u)'
    BY <1>6
  <2>2. \A k \in 1 .. Len(w) : w[k].id = <<u, k>>
    BY <2>1 DEF CommandsOf
  <2>3. /\ \A j \in 1 .. Len(notified) : notified[j].of \notin {u} \X Nat
        /\ \A i \in 1 .. Len(o) : Asks(o[i]) => o[i].id[1] # u
    BY <1>2, <2>1 DEF Untouched
  <2> HIDE DEF o, p
  <2>4. \A i \in 1 .. Len(p) :
          \/ i \in 1 .. Len(o) /\ p[i] = o[i]
          \/ i > Len(o) /\ i - Len(o) \in 1 .. Len(w) /\ p[i].id = <<u, i - Len(o)>>
    BY <1>1, <2>2
  <2>5. \A i \in 1 .. Len(p) : Asks(p[i]) =>
          /\ \A n \in Nat : Unsending(n)' => p[i].id[1] # n
          /\ \A j \in 1 .. Len(notified) : notified[j].of # p[i].id
    <3> SUFFICES ASSUME NEW i \in 1 .. Len(p), Asks(p[i])
                 PROVE  /\ \A n \in Nat : Unsending(n)' => p[i].id[1] # n
                        /\ \A j \in 1 .. Len(notified) : notified[j].of # p[i].id
      OBVIOUS
    <3>1. CASE i \in 1 .. Len(o) /\ p[i] = o[i]
      BY <1>4, <3>1
    <3>2. CASE i > Len(o) /\ i - Len(o) \in 1 .. Len(w) /\ p[i].id = <<u, i - Len(o)>>
      <4>1. p[i].id \in {u} \X Nat /\ p[i].id[1] = u
        BY <1>1, <3>2
      <4> QED BY <2>1, <2>3, <4>1
    <3> QED BY <2>4, <3>1, <3>2
  <2>6. ASSUME NEW i \in 1 .. Len(p), NEW j \in 1 .. Len(p), Asks(p[i]), Asks(p[j]), p[i].id = p[j].id
        PROVE  i = j
    <3>1. CASE i \in 1 .. Len(o) /\ p[i] = o[i] /\ j \in 1 .. Len(o) /\ p[j] = o[j]
      BY <1>2, <2>6, <3>1
    <3>2. CASE /\ i \in 1 .. Len(o) /\ p[i] = o[i]
               /\ j > Len(o) /\ j - Len(o) \in 1 .. Len(w) /\ p[j].id = <<u, j - Len(o)>>
      <4>1. o[i].id[1] # u
        BY <2>3, <2>6, <3>2
      <4>2. p[j].id[1] = u
        BY <3>2
      <4>3. o[i].id = p[j].id
        BY <2>6, <3>2
      <4> QED BY <4>1, <4>2, <4>3
    <3>3. CASE /\ j \in 1 .. Len(o) /\ p[j] = o[j]
               /\ i > Len(o) /\ i - Len(o) \in 1 .. Len(w) /\ p[i].id = <<u, i - Len(o)>>
      <4>1. o[j].id[1] # u
        BY <2>3, <2>6, <3>3
      <4>2. p[i].id[1] = u
        BY <3>3
      <4>3. o[j].id = p[i].id
        BY <2>6, <3>3
      <4> QED BY <4>1, <4>2, <4>3
    <3>4. CASE p[i].id = <<u, i - Len(o)>> /\ p[j].id = <<u, j - Len(o)>>
      <4> DEFINE a == i - Len(o)
                 b == j - Len(o)
      <4>1. <<u, a>> = <<u, b>>
        BY <2>6, <3>4
      <4>2. a = b => i = j
        BY <1>1
      <4> HIDE DEF a, b
      <4> QED BY <4>1, <4>2
    <3> QED BY <2>4, <3>1, <3>2, <3>3, <3>4
  <2> QED BY <1>3, <2>5, <2>6
<1> QED BY <1>5, <1>6

LEMMA TwoAre ==
  ASSUME NEW m, NEW d
  PROVE  LET j == <<m>> \o <<d>> IN \A k \in 1 .. Len(j) : j[k] = m \/ j[k] = d
<1> DEFINE S == {m, d}
           j == <<m>> \o <<d>>
<1>1. <<m>> \in Seq(S) /\ <<d>> \in Seq(S)
  OBVIOUS
<1>2. <<m>> \o <<d>> \in Seq(S)
  <2> HIDE DEF S
  <2> QED BY <1>1, ConcatProperties
<1>3. \A k \in 1 .. Len(j) : j[k] \in S
  <2> HIDE DEF S
  <2> QED BY <1>2, ElementOfSeq
<1> QED BY <1>3

\* The commands that are sent again at the end of a COPY FROM STDIN, and its
\* data, ask for nothing.
LEMMA CopyAsksNothing ==
  ASSUME NEW x \in Transactions, NEW i, NEW o, NEW s, NEW f, Live(x, i, o, s, f), x.state = "sent_from_stdin"
  PROVE  \A k \in 1 .. Len(Wire(x)) : ~ Asks(Wire(x)[k])
<1> DEFINE c == x.commands
           n == x.offset
           again == x.reissued
<1>1. /\ CommandsOf(c, x.number) /\ Len(c) \in Nat /\ Len(c) >= 1
      /\ c \in Seq([type : Answered, id : Ids]) /\ n \in 1 .. Len(c) + 1
  BY LiveHas
<1>2. CopyPlace(c, x) /\ CopiesLast(c) /\ again = From(c, n + 1) /\ x.messages # "commands"
  BY DEF Live, Going
<1>3. n \in 1 .. Len(c) /\ c[n].type \in {"Query", "Execute"}
  BY <1>1, <1>2 DEF CopyPlace
<1> HIDE DEF c, n, again
<1>4. again = <<>> \/ \E m : again = <<m>> /\ m.type = "Synchronize"
  <2>1. CASE n = Len(c)
    <3>1. n + 1 \in 1 .. Len(c) + 1 /\ n + 1 = Len(c) + 1
      BY <1>1, <2>1
    <3> QED BY <1>1, <1>2, <3>1, FromIs
  <2>2. CASE n # Len(c)
    <3>1. n \in 1 .. Len(c) - 1
      BY <1>1, <1>3, <2>2
    <3>2. c[n].type \in Extended
      BY <1>1, <3>1 DEF CommandsOf
    <3>3. c[n].type = "Execute"
      BY <1>3, <3>2 DEF Extended
    <3>4. ~ (n \in 1 .. Len(c) - 2)
      BY <1>2, <3>3 DEF CopiesLast
    <3>5. n + 1 = Len(c) /\ n + 1 \in 1 .. Len(c) + 1 /\ Len(c) # 1
      <4> DEFINE l == Len(c)
      <4>1. l \in Nat /\ n \in 1 .. l - 1 /\ ~ (n \in 1 .. l - 2)
        BY <1>1, <3>1, <3>4
      <4> HIDE DEF l
      <4>2. n + 1 = l /\ n + 1 \in 1 .. l + 1 /\ l # 1
        BY <4>1
      <4> QED BY <4>2 DEF l
    <3>6. again = << c[n + 1] >>
      <4> DEFINE l == n + 1
      <4>1. l \in 1 .. Len(c) + 1 /\ l = Len(c) /\ again = From(c, l)
        BY <1>2, <3>5
      <4> HIDE DEF l
      <4>2. From(c, l) = << c[l] >>
        BY <1>1, <4>1, FromIs
      <4> QED BY <4>1, <4>2 DEF l
    <3>7. c[n + 1].type = "Synchronize"
      BY <1>1, <3>5 DEF CommandsOf
    <3> QED BY <3>6, <3>7
  <2> QED BY <2>1, <2>2
<1>5. x.messages \in {"none", "chunk", "done", "fail"}
  BY <1>2, TransactionsAre DEF MessageSets
<1> DEFINE data == [type |-> "CopyData", id |-> c[n].id]
           done == [type |-> "CopyDone", id |-> c[n].id]
           fail == [type |-> "CopyFail", id |-> c[n].id]
<1>6. ~ Asks(data) /\ ~ Asks(done) /\ ~ Asks(fail)
  BY DEF Asks
<1>7. /\ x.messages = "none" => Wire(x) = <<>>
      /\ x.messages = "chunk" => Wire(x) = << data >>
      /\ x.messages = "done" => Wire(x) = << done >> \o again
      /\ x.messages = "fail" => Wire(x) = << fail >> \o again
  BY DEF Wire, c, n, again
<1> HIDE DEF data, done, fail
<1>8. \A m : ~ Asks(m) => \A k \in 1 .. Len(<<m>> \o again) : ~ Asks((<<m>> \o again)[k])
  <2> SUFFICES ASSUME NEW m, ~ Asks(m)
               PROVE  \A k \in 1 .. Len(<<m>> \o again) : ~ Asks((<<m>> \o again)[k])
    OBVIOUS
  <2>1. CASE again = <<>>
    <3>1. <<m>> \o again = <<m>>
      BY <2>1
    <3> QED BY <3>1
  <2>2. CASE \E d : again = <<d>> /\ d.type = "Synchronize"
    <3>1. PICK d : again = <<d>> /\ d.type = "Synchronize"
      BY <2>2
    <3>2. ~ Asks(d)
      BY <3>1 DEF Asks
    <3> QED BY <3>1, <3>2, TwoAre
  <2> QED BY <1>4, <2>1, <2>2
<1>9. CASE x.messages = "none"
  <2>1. Len(Wire(x)) = 0
    BY <1>7, <1>9, EmptySeq
  <2> QED BY <2>1, NothingIsQuiet
<1>10. CASE x.messages = "chunk"
  <2>1. \A k \in 1 .. Len(<< data >>) : << data >>[k] = data
    OBVIOUS
  <2> QED BY <1>6, <1>7, <1>10, <2>1
<1>11. CASE x.messages \in {"done", "fail"}
  BY <1>6, <1>7, <1>8, <1>11
<1> QED BY <1>5, <1>9, <1>10, <1>11

LEMMA SendStays ==
  ASSUME Inv, AsyncInv, NEW x, Written(x) \/ WriteFails(x), Wire(x) \in Seq(Sendables),
         UNCHANGED <<read, toClient, server, heard, notified>>, \A n \in Nat : Unsending(n)' => Unsending(n),
         \/ \A k \in 1 .. Len(Wire(x)) : ~ Asks(Wire(x)[k])
         \/ \E u \in Nat : CommandsOf(Wire(x), u) /\ Unsending(u) /\ ~ Unsending(u)'
  PROVE  AsyncInv'
<1>1. HeardInv'
  <2>1. socket' # "closed" => socket # "closed"
    BY DEF Written, WriteFails
  <2> QED BY <2>1, HeardStays DEF AsyncInv
<1>2. AskedInv'
  <2>1. CASE toServer' = toServer
    BY <2>1, AskedStays DEF AsyncInv
  <2>2. CASE toServer' = toServer \o Wire(x)
    <3> DEFINE w == Wire(x)
    <3>1. /\ toServer' = toServer \o w /\ w \in Seq(Sendables)
          /\ \/ \A k \in 1 .. Len(w) : ~ Asks(w[k])
             \/ \E u \in Nat : CommandsOf(w, u) /\ Unsending(u) /\ ~ Unsending(u)'
      BY <2>2
    <3> HIDE DEF w
    <3> QED BY <3>1, InvIs, AskedSent DEF AsyncInv
  <2>3. toServer' = toServer \/ toServer' = toServer \o Wire(x)
    BY DEF Written, WriteFails
  <2> QED BY <2>1, <2>2, <2>3
<1> QED BY <1>1, <1>2 DEF AsyncInv

\* What a COPY FROM STDIN sends.
LEMMA CopyStays ==
  ASSUME Inv, AsyncInv, xact # None, Lives, xact.state = "sent_from_stdin", Written(xact) \/ WriteFails(xact),
         UNCHANGED <<read, toClient, server, heard, notified>>, Calm
  PROVE  AsyncInv'
<1>1. xact \in Transactions /\ Matched(xact) /\ Live(xact, Inbox, toServer, server, failed)
  BY InvIs DEF Lives
<1>2. Wire(xact) \in Seq(Sendables)
  BY <1>1, LiveIsSent
<1>3. \A k \in 1 .. Len(Wire(xact)) : ~ Asks(Wire(xact)[k])
  BY <1>1, CopyAsksNothing
<1> QED BY <1>2, <1>3, CalmIs, SendStays

LEMMA CompleteSendStays ==
  ASSUME Inv, AsyncInv, CompleteSend
  PROVE  AsyncInv'
<1>1. /\ pc = "complete" /\ xact.state \in Sending
      /\ \/ Written(xact) /\ xact' = sent(xact.state, xact)
         \/ WriteFails(xact) /\ xact' = Broken(xact, "connection")
      /\ UNCHANGED <<read, toClient, server, heard, notified, made, pc, then, pushing>>
  BY DEF CompleteSend, callVars, serverVars, boundVars, asyncVars
<1>2. /\ xact # None /\ xact \in Transactions
      /\ \/ Starting /\ xact.state = "standard_sent"
         \/ Lives /\ xact.state = "sent_from_stdin"
  <2>1. xact # None
    BY <1>1, InvIs DEF CallInv
  <2> QED BY <1>1, <2>1, InvIs, SendingIs
<1>3. xact'.state # "standard_sent"
  <2>1. CASE xact' = Broken(xact, "connection")
    <3>1. "connection" \in ClientErrors
      BY DEF ClientErrors
    <3> QED BY <1>2, <2>1, <3>1, BrokenIs
  <2>2. CASE xact' = sent(xact.state, xact)
    <3> DEFINE y == xact'
    <3>1. \/ xact.state = "standard_sent" /\ y = standard_sent(xact)
          \/ xact.state = "sent_from_stdin" /\ y = sent_from_stdin(xact)
      BY <1>2, <2>2, SentIs
    <3>2. y = standard_sent(xact) \/ (y = [xact EXCEPT !.messages = "fail"] /\ xact.state = "sent_from_stdin")
      BY <3>1 DEF sent_from_stdin
    <3> HIDE DEF y
    <3>3. CASE y = standard_sent(xact)
      <4>1. y.state = "standard_put"
        BY <1>2, <3>3, TransactionsAre DEF standard_sent
      <4> QED BY <4>1 DEF y
    <3>4. CASE y = [xact EXCEPT !.messages = "fail"] /\ xact.state = "sent_from_stdin"
      <4>1. y.state = "sent_from_stdin"
        BY <1>2, <3>4, TransactionsAre
      <4> QED BY <4>1 DEF y
    <3> QED BY <3>2, <3>3, <3>4
  <2> QED BY <1>1, <2>1, <2>2
<1>4. Calm /\ (Pushing' => Pushing)
  BY <1>1, <1>3 DEF Calm, Pushing
<1>5. CASE Lives /\ xact.state = "sent_from_stdin"
  BY <1>1, <1>2, <1>4, <1>5, CopyStays
<1>6. CASE Starting /\ xact.state = "standard_sent"
  <2>1. Fresh(xact, failed) /\ Opening
    BY <1>6 DEF Starting
  <2>0. PICK u \in Nat : u = xact.number
    BY <1>2, TransactionsAre
  <2>2. Wire(xact) = xact.commands /\ Wire(xact) \in Seq(Sendables) /\ CommandsOf(Wire(xact), u)
    BY <1>2, <2>0, <2>1, FreshIs DEF Fresh, WellFormed
  <2>3. u <= made /\ made \in Nat /\ ~ (u > made)
    <3>1. u <= made /\ made \in Nat
      BY <1>2, <2>0, InvIs
    <3> QED BY <3>1
  <2>4. Unsending(u)
    BY <1>6, <2>0, <2>1 DEF Unsending
  <2>5. Pushing => pushing.number # u
    BY <1>2, <2>0, InvIs DEF PushInv
  <2>6. ~ Unsending(u)'
    BY <1>1, <1>3, <1>4, <2>3, <2>5 DEF Unsending
  <2> QED BY <1>1, <1>4, <2>2, <2>3, <2>4, <2>6, CalmIs, SendStays
<1> QED BY <1>2, <1>5, <1>6

LEMMA StartStays ==
  ASSUME Inv, AsyncInv, Start
  PROVE  AsyncInv'
<1>1. /\ pc \in {"start", "push"} /\ pc' = "pushed" /\ made' = made
      /\ Written(pushing) \/ WriteFails(pushing)
      /\ UNCHANGED <<read, toClient, server, heard, notified>>
  BY DEF Start, SendStep, Goto, serverVars, boundVars, asyncVars
<1>2. Calm /\ ~ Pushing' /\ ~ Opening'
  BY <1>1, ReturnsQuietly, QuietlyIsCalm
<1>3. Pushing
  BY <1>1 DEF Pushing
<1>4. /\ pushing # None /\ pushing.number <= made
      /\ Fresh(pushing, failed) \/ Closing(pushing, failed)
  BY <1>3, InvIs DEF PushInv
<1>5. pushing \in Transactions
  BY <1>4, InvIs DEF CallInv
<1>6. CASE Fresh(pushing, failed)
  <2>0. PICK u \in Nat : u = pushing.number
    BY <1>5, TransactionsAre
  <2>1. Wire(pushing) = pushing.commands /\ Wire(pushing) \in Seq(Sendables) /\ CommandsOf(Wire(pushing), u)
    BY <1>5, <1>6, <2>0, FreshIs DEF Fresh, WellFormed
  <2>2. u <= made /\ made \in Nat /\ ~ (u > made)
    <3>1. u <= made /\ made \in Nat
      BY <1>4, <2>0, InvIs
    <3> QED BY <3>1
  <2>3. Unsending(u)
    BY <1>3, <2>0 DEF Unsending
  <2>4. ~ Unsending(u)'
    BY <1>1, <1>2, <2>2 DEF Unsending
  <2> QED BY <1>1, <1>2, <2>1, <2>2, <2>3, <2>4, CalmIs, SendStays
<1>7. CASE Closing(pushing, failed)
  <2>1. PICK m \in Sendables : m.type = "Disconnect" /\ Wire(pushing) = <<m>>
    BY <1>5, <1>7, ClosingWire
  <2>2. Wire(pushing) \in Seq(Sendables) /\ \A k \in 1 .. Len(Wire(pushing)) : Wire(pushing)[k] = m
    BY <2>1
  <2>3. ~ Asks(m)
    BY <2>1 DEF Asks
  <2> QED BY <1>1, <1>2, <2>2, <2>3, CalmIs, SendStays
<1> QED BY <1>4, <1>6, <1>7

LEMMA PqStepSendStays ==
  ASSUME Inv, AsyncInv, PqStepSend
  PROVE  AsyncInv'
<1>1. /\ pc = "idle" /\ xact # None /\ xact.state \in Sending /\ pc' = "idle" /\ made' = made
      /\ Written(xact) \/ WriteFails(xact)
      /\ UNCHANGED <<read, toClient, server, heard, notified>>
  BY DEF PqStepSend, SendStep, callVars, serverVars, boundVars, asyncVars
<1>2. Calm
  BY <1>1, ReturnsQuietly, QuietlyIsCalm
<1>3. Lives /\ xact.state = "sent_from_stdin"
  <2>1. ~ Starting
    BY <1>1 DEF Starting, Opening
  <2> QED BY <1>1, <2>1, SendingIs
<1> QED BY <1>1, <1>2, <1>3, CopyStays

-----------------------------------------------------------------------------
(* Receiving.                                                              *)

LEMMA JoinedParts ==
  ASSUME NEW i \in Seq(Messages), NEW k \in 0 .. Len(i)
  PROVE  /\ SubSeq(i, 1, k) \in Seq(Messages) /\ SubSeq(i, k + 1, Len(i)) \in Seq(Messages)
         /\ SubSeq(i, 1, k) \o SubSeq(i, k + 1, Len(i)) = i
<1> DEFINE a == SubSeq(i, 1, k)
           b == SubSeq(i, k + 1, Len(i))
           j == a \o b
<1>1. a \in Seq(Messages) /\ Len(a) = k /\ \A n \in 1 .. k : n \in 1 .. Len(i) /\ a[n] = i[n]
  BY FirstPart
<1>2. /\ b \in Seq(Messages) /\ Len(b) = Len(i) - k /\ Len(i) \in Nat /\ Len(b) \in Nat
      /\ \A n \in 1 .. Len(b) : n + k \in 1 .. Len(i) /\ b[n] = i[n + k]
  BY ShorterIs
<1> HIDE DEF a, b
<1>3. /\ j \in Seq(Messages) /\ Len(j) = Len(a) + Len(b)
      /\ \A n \in 1 .. Len(a) : j[n] = a[n]
      /\ \A n \in 1 .. Len(j) : n \in 1 .. Len(a) \/ (n > Len(a) /\ n - Len(a) \in 1 .. Len(b) /\ j[n] = b[n - Len(a)])
  BY <1>1, <1>2, JoinIs
<1> HIDE DEF j
<1>4. Len(j) = Len(i)
  BY <1>1, <1>2, <1>3
<1>5. ASSUME NEW n \in 1 .. Len(i) PROVE j[n] = i[n]
  <2>1. CASE n \in 1 .. Len(a)
    BY <1>1, <1>3, <2>1
  <2>2. CASE n > Len(a) /\ n - Len(a) \in 1 .. Len(b) /\ j[n] = b[n - Len(a)]
    <3>1. b[n - Len(a)] = i[(n - Len(a)) + k] /\ (n - Len(a)) + k = n
      BY <1>1, <1>2, <2>2
    <3> QED BY <2>2, <3>1
  <2> QED BY <1>3, <1>4, <2>1, <2>2
<1>6. j = i
  BY <1>3, <1>4, <1>5, SeqEqual
<1> QED BY <1>1, <1>2, <1>6 DEF a, b, j

LEMMA MessagesJoin ==
  ASSUME NEW h \in Seq(Messages), NEW e \in Seq(Messages), NEW n \in Seq(Messages)
  PROVE  (h \o e) \o n = h \o (e \o n)
BY ConcatAssociative

\* What is read of a group goes to asynchook, and the rest stays to be read.
LEMMA TookStays ==
  ASSUME Inv, HeardInv, xact # None, xact.state \in Receiving, NEW group \in Groups,
         NEW r, r = put(xact.state, xact, group), Took(r, group), UNCHANGED <<notified, server, socket>>
  PROVE  HeardInv'
<1> SUFFICES ASSUME server.mode # "gone", socket # "closed" PROVE HeardInv'
  BY DEF HeardInv
<1> DEFINE i == Inbox
           g == Len(group)
           k == r.count
           j == SubSeq(i, k + 1, Len(i))
           t == SubSeq(i, 1, k)
<1>1. xact \in Transactions /\ Going(xact) /\ Live(xact, i, toServer, server, failed)
  BY ReceivingIs
<1>2. /\ WellFormed(xact) /\ Place(xact) \in Places(xact.commands) /\ xact.offset <= Len(xact.commands)
      /\ xact.state \in Receiving
  <2>1. xact.state # "Complete"
    BY DEF Receiving
  <2>2. WellFormed(xact) /\ Place(xact) \in Places(xact.commands) /\ ~ (xact.offset > Len(xact.commands))
    BY <1>1, <2>1 DEF Going
  <2>3. xact.offset \in Nat /\ Len(xact.commands) \in Nat
    BY <1>1, LiveHas
  <2> QED BY <2>2, <2>3
<1>3. /\ i \in Seq(Messages) /\ Len(i) \in Nat /\ read \in Seq(Messages) /\ toClient \in Seq(Messages)
  BY InvIs DEF WireInv
<1>4. /\ g \in 1 .. Len(i) /\ group = SubSeq(i, 1, g) /\ group \in Seq(Messages)
      /\ \A l \in 0 .. Len(group) :
           SubSeq(group, l + 1, Len(group)) \o Unread(group) = SubSeq(i, l + 1, Len(i))
  BY <1>3, GroupsAre DEF Inbox
<1>5. /\ heard \in Seq(Messages) /\ \A n \in 1 .. Len(heard) : IsAsync(heard[n])
      /\ Once(i) /\ heard \o Asyncs(i) = notified
  BY DEF HeardInv
<1>6. read' = SubSeq(group, k + 1, Len(group)) /\ toClient' = Unread(group) /\ heard' = heard \o r.heard
  BY DEF Took
<1> HIDE DEF i
<1>7. Len(group) = g /\ \A n \in 1 .. g : n \in 1 .. Len(i) /\ group[n] = i[n]
  BY <1>3, <1>4, FirstPart
<1>8. Once(group)
  <2>1. g <= Len(i)
    BY <1>3, <1>4
  <2> QED BY <1>3, <1>4, <1>5, <1>7, <2>1, OnceOfPart
<1>9. k \in 0 .. g /\ r.heard = Asyncs(SubSeq(group, 1, k))
  BY <1>2, <1>1, <1>4, <1>8, PutHears
<1> HIDE DEF g, k
<1>10. Inbox' = j
  <2>1. k \in 0 .. Len(group)
    BY <1>7, <1>9
  <2> QED BY <1>4, <1>6, <2>1 DEF Inbox
<1>11. k \in 0 .. Len(i) /\ SubSeq(group, 1, k) = t
  <2>1. k \in 0 .. Len(i) /\ k \in 0 .. Len(group)
    BY <1>3, <1>4, <1>7, <1>9
  <2> DEFINE p == SubSeq(group, 1, k)
  <2>2. p \in Seq(Messages) /\ Len(p) = k /\ \A n \in 1 .. k : n \in 1 .. Len(group) /\ p[n] = group[n]
    BY <1>4, <2>1, FirstPart
  <2>3. t \in Seq(Messages) /\ Len(t) = k /\ \A n \in 1 .. k : n \in 1 .. Len(i) /\ t[n] = i[n]
    BY <1>3, <2>1, FirstPart
  <2> HIDE DEF p, t
  <2>4. \A n \in 1 .. k : p[n] = t[n]
    BY <1>7, <2>2, <2>3
  <2>5. p = t
    BY <2>2, <2>3, <2>4, SeqEqual
  <2> QED BY <2>1, <2>5 DEF p
<1>12. t \in Seq(Messages) /\ j \in Seq(Messages) /\ t \o j = i
  BY <1>3, <1>11, JoinedParts
<1>13. /\ Len(j) \in Nat /\ \A n \in 1 .. Len(j) : n + k \in 1 .. Len(i) /\ j[n] = i[n + k]
  BY <1>3, <1>11, ShorterIs
<1> HIDE DEF t, j
<1>14. Asyncs(i) = Asyncs(t) \o Asyncs(j) /\ Asyncs(t) \in Seq(Messages) /\ Asyncs(j) \in Seq(Messages)
  BY <1>12, AsyncsJoined, AsyncsType
<1>15. Once(j)
  <2> SUFFICES ASSUME NEW m \in 1 .. Len(j), NEW n \in 1 .. Len(j), IsAsync(j[m]), j[m] = j[n] PROVE m = n
    BY DEF Once
  <2>1. m + k = n + k
    BY <1>5, <1>13 DEF Once
  <2>2. k \in Nat
    BY <1>3, <1>11
  <2> QED BY <1>13, <2>1, <2>2
<1> DEFINE h == Asyncs(t)
           e == Asyncs(j)
<1>16. h \in Seq(Messages) /\ e \in Seq(Messages) /\ heard' = heard \o h /\ heard \o (h \o e) = notified
  BY <1>5, <1>6, <1>9, <1>11, <1>14
<1>17. \A n \in 1 .. Len(h) : IsAsync(h[n])
  BY <1>12, AsyncsAreAsync
<1> HIDE DEF h
<1>18. /\ heard' \in Seq(Messages) /\ \A n \in 1 .. Len(heard') : IsAsync(heard'[n])
  <2> DEFINE d == heard'
  <2>1. d = heard \o h
    BY <1>16
  <2> HIDE DEF d
  <2>2. /\ d \in Seq(Messages)
        /\ \A n \in 1 .. Len(heard) : d[n] = heard[n]
        /\ \A n \in 1 .. Len(d) : n \in 1 .. Len(heard)
                                  \/ (n > Len(heard) /\ n - Len(heard) \in 1 .. Len(h) /\ d[n] = h[n - Len(heard)])
    BY <1>5, <1>16, <2>1, JoinIs
  <2>3. \A n \in 1 .. Len(d) : IsAsync(d[n])
    BY <1>5, <1>17, <2>2
  <2> QED BY <2>2, <2>3 DEF d
<1>19. heard' \o e = notified
  <2> HIDE DEF e
  <2>1. (heard \o h) \o e = heard \o (h \o e)
    <3> DEFINE d == heard
    <3>1. d \in Seq(Messages)
      BY <1>5
    <3> HIDE DEF d
    <3>2. h \in Seq(Messages) /\ e \in Seq(Messages)
      BY <1>16
    <3>3. \A a, b, c \in Seq(Messages) : (a \o b) \o c = a \o (b \o c)
      BY ONLY MessagesJoin
    <3>4. \A c \in Seq(Messages) : (d \o h) \o c = d \o (h \o c)
      BY ONLY <3>1, <3>2, <3>3
    <3>5. (d \o h) \o e = d \o (h \o e)
      BY ONLY <3>2, <3>4
    <3> QED BY <3>5 DEF d
  <2>2. heard' \o e = (heard \o h) \o e
    BY <1>16
  <2> QED BY <1>16, <2>1, <2>2
<1>20. Once(Inbox') /\ Asyncs(Inbox') = e
  BY <1>10, <1>15
<1> QED BY <1>18, <1>19, <1>20 DEF HeardInv

LEMMA CompleteReceiveStays ==
  ASSUME Inv, AsyncInv, CompleteReceive
  PROVE  AsyncInv'
<1>1. /\ pc = "complete" /\ xact.state \in Receiving
      /\ UNCHANGED <<socket, pc, then, pushing, toServer, server, made, notified>>
  BY DEF CompleteReceive, callVars, serverVars, boundVars
<1>2. xact # None /\ xact \in Transactions
  BY <1>1, InvIs DEF CallInv
<1>3. CASE \E group \in Groups :
             LET r == put(xact.state, xact, group)
             IN  xact' = r.xact /\ Took(r, group)
  <2>1. PICK group \in Groups :
           LET r == put(xact.state, xact, group)
           IN  xact' = r.xact /\ Took(r, group)
    BY <1>3
  <2> DEFINE r == put(xact.state, xact, group)
             y == xact'
  <2>2. y = r.xact /\ Took(r, group)
    BY <2>1
  <2> HIDE DEF r
  <2>3. r = put(xact.state, xact, group)
    BY DEF r
  <2>4. HeardInv'
    BY <1>1, <1>2, <2>2, <2>3, TookStays DEF AsyncInv
  <2>5. y.state = "Complete" \/ Live(y, Inbox', toServer, server, failed)
    BY <1>1, <1>2, <2>2, <2>3, ReceivesIs
  <2>6. xact'.state # "standard_sent"
    <3>1. CASE Live(y, Inbox', toServer, server, failed)
      BY <3>1 DEF Live, Going, Receiving
    <3> QED BY <2>5, <3>1
  <2>7. Calm
    BY <1>1, <2>6 DEF Calm, Pushing
  <2> QED BY <1>1, <2>4, <2>7, CalmIs, AskedStays DEF AsyncInv
<1>4. CASE AtEOF /\ xact' = Broken(xact, "unexpected EOF") /\ UNCHANGED <<read, toClient, heard>>
  <2>1. xact'.state = "Complete"
    BY <1>2, <1>4, BrokenIs DEF ClientErrors
  <2>2. Calm
    BY <1>1, <2>1 DEF Calm, Pushing
  <2> QED BY <1>1, <1>4, <2>2, CalmStays
<1> QED BY <1>3, <1>4 DEF CompleteReceive

LEMMA PqStepReceiveStays ==
  ASSUME Inv, AsyncInv, PqStepReceive
  PROVE  AsyncInv'
<1>1. /\ pc = "idle" /\ xact # None /\ xact.state \in Receiving
      /\ UNCHANGED <<socket, pc, toServer, server, made, notified>>
  BY DEF PqStepReceive, callVars, serverVars, boundVars
<1>2. AskedInv'
  <2>1. Calm
    BY <1>1, ReturnsQuietly, QuietlyIsCalm
  <2> QED BY <1>1, <2>1, CalmIs, AskedStays DEF AsyncInv
<1>3. HeardInv'
  <2>1. CASE AtEOF
    <3>1. server'.mode = "gone" \/ socket' = "closed"
      BY <1>1, <2>1 DEF AtEOF
    <3> QED BY <3>1 DEF HeardInv
  <2>2. CASE ~ AtEOF
    <3>1. PICK group \in Groups :
             LET x == IF group = <<>> THEN Broken(xact, "unexpected EOF") ELSE xact
                 r == put(xact.state, x, group)
             IN  Took(r, group)
      BY <2>2 DEF PqStepReceive
    <3>2. group # <<>>
      BY InvIs, GroupsAre DEF WireInv
    <3> DEFINE r == put(xact.state, xact, group)
    <3>3. Took(r, group)
      BY <3>1, <3>2
    <3> HIDE DEF r
    <3>4. r = put(xact.state, xact, group)
      BY DEF r
    <3> QED BY <1>1, <3>3, <3>4, TookStays DEF AsyncInv
  <2> QED BY <2>1, <2>2
<1> QED BY <1>2, <1>3 DEF AsyncInv

-----------------------------------------------------------------------------
(* The server.                                                             *)

\* An asynchronous message has its place among them.
LEMMA AsyncsHave ==
  ASSUME NEW s \in Seq(Messages), NEW i \in 1 .. Len(s), IsAsync(s[i])
  PROVE  \E k \in 1 .. Len(Asyncs(s)) : Asyncs(s)[k] = s[i]
<1>1. PICK a : AsyncRun(s, a)
  BY AsyncRunExists
<1>2. Asyncs(s) = a[Len(s)] /\ Len(s) \in 0 .. Len(s)
  BY <1>1, AsyncsAreRun, LenProperties
<1>3. Len(a[i]) \in 1 .. Len(a[Len(s)]) /\ a[Len(s)][Len(a[i])] = s[i]
  BY <1>1, <1>2, AsyncsKeepPlace
<1> QED BY <1>2, <1>3

\* What the server sends is the last to be read.
LEMMA HeardSent ==
  ASSUME HeardInv, notified \in Seq(Messages), read \in Seq(Messages), toClient \in Seq(Messages),
         NEW out \in Seq(Messages), Once(out),
         \A k \in 1 .. Len(out), j \in 1 .. Len(notified) : IsAsync(out[k]) => notified[j] # out[k],
         Inbox' = Inbox \o out, notified' = notified \o Asyncs(out), heard' = heard, socket' = socket,
         server'.mode # "gone" => server.mode # "gone"
  PROVE  HeardInv'
<1> SUFFICES ASSUME server'.mode # "gone", socket' # "closed" PROVE HeardInv'
  BY DEF HeardInv
<1>1. /\ heard \in Seq(Messages) /\ \A k \in 1 .. Len(heard) : IsAsync(heard[k])
      /\ Once(Inbox) /\ heard \o Asyncs(Inbox) = notified
  BY DEF HeardInv
<1> DEFINE i == Inbox
           j == Inbox'
           e == Asyncs(i)
           n == Asyncs(out)
           h == heard
<1>2. i \in Seq(Messages) /\ j = i \o out
  BY ConcatProperties DEF Inbox
<1>3. h \in Seq(Messages) /\ h \o e = notified /\ e \in Seq(Messages) /\ n \in Seq(Messages)
  BY <1>1, <1>2, AsyncsType
<1>4. Once(i)
  BY <1>1
<1>5. \A k \in 1 .. Len(i) : IsAsync(i[k]) => \E l \in 1 .. Len(e) : e[l] = i[k]
  <2> HIDE DEF i
  <2> QED BY <1>2, AsyncsHave
<1> HIDE DEF i, j, e, n, h
<1>6. Asyncs(j) = e \o n
  BY <1>2, AsyncsJoined DEF e, n
<1>7. h \o (e \o n) = notified'
  <2>1. (h \o e) \o n = h \o (e \o n)
    <3>1. \A a, b, c \in Seq(Messages) : (a \o b) \o c = a \o (b \o c)
      BY MessagesJoin
    <3>2. h \in Seq(Messages) /\ e \in Seq(Messages) /\ n \in Seq(Messages)
      BY <1>3
    <3>3. \A c \in Seq(Messages) : (h \o e) \o c = h \o (e \o c)
      BY <3>1, <3>2
    <3>4. (h \o e) \o n = h \o (e \o n)
      BY <3>2, <3>3
    <3> QED BY <3>4
  <2>2. notified' = (h \o e) \o n
    BY <1>3 DEF n
  <2> QED BY <2>1, <2>2
\* What was to be read was sent before.
<1>8. \A l \in 1 .. Len(e) : \E k \in 1 .. Len(notified) : notified[k] = e[l]
  <2> DEFINE w == h \o e
  <2>1. /\ w \in Seq(Messages) /\ Len(w) = Len(h) + Len(e) /\ Len(h) \in Nat /\ Len(e) \in Nat
        /\ \A k \in 1 .. Len(h) + Len(e) : w[k] = IF k <= Len(h) THEN h[k] ELSE e[k - Len(h)]
    BY <1>3, ConcatProperties, LenProperties
  <2>2. w = notified
    BY <1>3
  <2> HIDE DEF w
  <2>3. ASSUME NEW l \in 1 .. Len(e) PROVE \E k \in 1 .. Len(w) : w[k] = e[l]
    <3>1. /\ Len(h) + l \in 1 .. Len(h) + Len(e) /\ ~ (Len(h) + l <= Len(h)) /\ (Len(h) + l) - Len(h) = l
      BY <2>1
    <3>2. w[Len(h) + l] = e[(Len(h) + l) - Len(h)]
      BY <2>1, <3>1
    <3>3. w[Len(h) + l] = e[l] /\ Len(h) + l \in 1 .. Len(w)
      BY <2>1, <3>1, <3>2
    <3> QED BY <3>3
  <2> QED BY <2>2, <2>3
<1>9. /\ j \in Seq(Messages)
      /\ \A k \in 1 .. Len(j) :
           \/ k \in 1 .. Len(i) /\ j[k] = i[k]
           \/ k - Len(i) \in 1 .. Len(out) /\ j[k] = out[k - Len(i)]
      /\ Len(i) \in Nat /\ Len(j) \in Nat
  <2>1. /\ j \in Seq(Messages) /\ Len(j) = Len(i) + Len(out) /\ Len(i) \in Nat /\ Len(out) \in Nat
        /\ \A k \in 1 .. Len(i) + Len(out) : j[k] = IF k <= Len(i) THEN i[k] ELSE out[k - Len(i)]
    BY <1>2, ConcatProperties, LenProperties
  <2>2. ASSUME NEW k \in 1 .. Len(j)
        PROVE  \/ k \in 1 .. Len(i) /\ j[k] = i[k]
               \/ k - Len(i) \in 1 .. Len(out) /\ j[k] = out[k - Len(i)]
    <3>1. CASE k <= Len(i)
      BY <2>1, <3>1
    <3>2. CASE ~ (k <= Len(i))
      BY <2>1, <3>2
    <3> QED BY <3>1, <3>2
  <2> QED BY <2>1, <2>2
<1>10. Once(j)
  <2> SUFFICES ASSUME NEW k \in 1 .. Len(j), NEW l \in 1 .. Len(j), IsAsync(j[k]), j[k] = j[l] PROVE k = l
    BY DEF Once
  <2>1. \A q \in 1 .. Len(i), p \in 1 .. Len(out) : IsAsync(i[q]) => i[q] # out[p]
    <3> SUFFICES ASSUME NEW q \in 1 .. Len(i), NEW p \in 1 .. Len(out), IsAsync(i[q]), i[q] = out[p] PROVE FALSE
      OBVIOUS
    <3>1. PICK o \in 1 .. Len(notified) : notified[o] = i[q]
      BY <1>5, <1>8
    <3> QED BY <3>1
  <2>2. CASE k \in 1 .. Len(i) /\ j[k] = i[k] /\ l \in 1 .. Len(i) /\ j[l] = i[l]
    BY <1>4, <2>2 DEF Once
  <2>3. CASE k - Len(i) \in 1 .. Len(out) /\ j[k] = out[k - Len(i)] /\ l - Len(i) \in 1 .. Len(out) /\ j[l] = out[l - Len(i)]
    <3>1. k - Len(i) = l - Len(i)
      BY <2>3 DEF Once
    <3> QED BY <1>9, <3>1
  <2>4. CASE k \in 1 .. Len(i) /\ j[k] = i[k] /\ l - Len(i) \in 1 .. Len(out) /\ j[l] = out[l - Len(i)]
    BY <2>1, <2>4
  <2>5. CASE l \in 1 .. Len(i) /\ j[l] = i[l] /\ k - Len(i) \in 1 .. Len(out) /\ j[k] = out[k - Len(i)]
    BY <2>1, <2>5
  <2> QED BY <1>9, <2>2, <2>3, <2>4, <2>5
<1>11. Inbox' = j /\ heard' = h
  BY DEF j, h
<1> QED BY <1>1, <1>6, <1>7, <1>10, <1>11 DEF HeardInv, h

LEMMA UnsendingSame ==
  ASSUME UNCHANGED <<made, pc, then, pushing, xact>>
  PROVE  \A n \in Nat : Unsending(n)' => Unsending(n)
<1>1. (Pushing' <=> Pushing) /\ (Opening' <=> Opening)
  BY DEF Pushing, Opening
<1> QED BY <1>1 DEF Unsending

\* The asynchronous messages the server answers with are of the command it reads.
LEMMA AskedAnswered ==
  ASSUME AskedInv, toServer \in Seq(Sendables), toServer # <<>>, toServer' = Tail(toServer),
         NEW d, d = Head(toServer), NEW out \in Seq(Messages), Own(out, d), notified' = notified \o Asyncs(out),
         UNCHANGED <<made, pc, then, pushing, xact>>
  PROVE  AskedInv'
<1> DEFINE o == toServer
           p == toServer'
           s == notified
           t == notified'
           e == Asyncs(out)
<1>1. /\ \A k \in 1 .. Len(p) : k + 1 \in 1 .. Len(o) /\ p[k] = o[k + 1]
      /\ Len(p) \in Nat /\ 1 \in 1 .. Len(o) /\ d = o[1]
  <2>1. p = Tail(o) /\ o \in Seq(Sendables) /\ o # <<>>
    OBVIOUS
  <2> HIDE DEF o, p
  <2>2. Tail(o) \in Seq(Sendables)
    BY <2>1, TailIs
  <2> QED BY <2>1, <2>2, TailIs, LenProperties DEF o
<1>2. /\ s \in Seq(Messages)
      /\ \A n \in Nat : Unsending(n) => Untouched(n)
      /\ \A i \in 1 .. Len(o), j \in 1 .. Len(s) : Asks(o[i]) => s[j].of # o[i].id
      /\ \A i, j \in 1 .. Len(o) : Asks(o[i]) /\ Asks(o[j]) /\ o[i].id = o[j].id => i = j
  BY DEF AskedInv
<1>3. /\ t \in Seq(Messages)
      /\ \A j \in 1 .. Len(t) : \/ j \in 1 .. Len(s) /\ t[j] = s[j]
                                \/ Asks(d) /\ t[j].of = d.id
  <2>1. e \in Seq(Messages) /\ t = s \o e
    BY AsyncsType
  <2>2. \A k \in 1 .. Len(e) : Asks(d) /\ e[k].of = d.id
    BY AsyncsAreAsync DEF Own
  <2> HIDE DEF e, s, t
  <2>3. /\ t \in Seq(Messages)
        /\ \A k \in 1 .. Len(s) : t[k] = s[k]
        /\ \A k \in 1 .. Len(t) : k \in 1 .. Len(s)
                                  \/ (k > Len(s) /\ k - Len(s) \in 1 .. Len(e) /\ t[k] = e[k - Len(s)])
    BY <1>2, <2>1, JoinIs
  <2> QED BY <2>2, <2>3
<1>4. \A n \in Nat : Unsending(n)' => Unsending(n)
  BY UnsendingSame
<1>5. ASSUME NEW n \in Nat, Unsending(n)' PROVE Untouched(n)'
  <2>1. /\ \A j \in 1 .. Len(s) : s[j].of \notin {n} \X Nat
        /\ \A i \in 1 .. Len(o) : Asks(o[i]) => o[i].id[1] # n
    BY <1>2, <1>4, <1>5 DEF Untouched
  <2> HIDE DEF o, p, s, t
  <2>2. Asks(d) => d.id \notin {n} \X Nat
    BY <1>1, <2>1
  <2>3. \A j \in 1 .. Len(t) : t[j].of \notin {n} \X Nat
    BY <1>3, <2>1, <2>2
  <2>4. \A i \in 1 .. Len(p) : Asks(p[i]) => p[i].id[1] # n
    BY <1>1, <2>1
  <2> QED BY <2>3, <2>4 DEF Untouched, p, t
<1> HIDE DEF o, p, s, t
<1>6. ASSUME NEW i \in 1 .. Len(p), NEW j \in 1 .. Len(t), Asks(p[i]) PROVE t[j].of # p[i].id
  <2>1. i + 1 \in 1 .. Len(o) /\ p[i] = o[i + 1] /\ i + 1 # 1
    BY <1>1
  <2>2. CASE j \in 1 .. Len(s) /\ t[j] = s[j]
    BY <1>2, <1>6, <2>1, <2>2
  <2>3. CASE Asks(d) /\ t[j].of = d.id
    <3>1. o[1].id # o[i + 1].id
      BY <1>1, <1>2, <1>6, <2>1, <2>3
    <3> QED BY <1>1, <2>1, <2>3, <3>1
  <2> QED BY <1>3, <2>2, <2>3
<1>7. ASSUME NEW i \in 1 .. Len(p), NEW j \in 1 .. Len(p), Asks(p[i]), Asks(p[j]), p[i].id = p[j].id PROVE i = j
  <2>1. /\ i + 1 \in 1 .. Len(o) /\ p[i] = o[i + 1]
        /\ j + 1 \in 1 .. Len(o) /\ p[j] = o[j + 1]
    BY <1>1
  <2>2. i + 1 = j + 1
    BY <1>2, <1>7, <2>1
  <2> QED BY <2>2
<1> QED BY <1>3, <1>5, <1>6, <1>7 DEF AskedInv, p, t

LEMMA ServerStepStays ==
  ASSUME ~ Repeated, Inv, AsyncInv, ServerStep
  PROVE  AsyncInv'
<1> DEFINE d == Head(toServer)
<1>1. PICK a \in Answers(d) : Respond(a)
  BY DEF ServerStep
<1>2. /\ server.mode # "gone" /\ toServer # <<>> /\ toServer' = Tail(toServer)
      /\ toClient' = toClient \o a.out /\ notified' = notified \o Asyncs(a.out)
      /\ UNCHANGED <<xact, read, socket, pc, then, pushing, made, heard>>
  BY <1>1 DEF ServerStep, Respond, connVars, callVars, boundVars
<1>3. /\ server \in Servers /\ toServer \in Seq(Sendables)
      /\ read \in Seq(Messages) /\ toClient \in Seq(Messages)
  BY InvIs DEF WireInv
<1>4. d \in Sendables /\ d = toServer[1] /\ 1 \in 1 .. Len(toServer)
  BY <1>2, <1>3, TailIs
<1> DEFINE out == a.out
<1>5. out \in Seq(Messages) /\ Own(out, d)
  BY <1>3, <1>4, AnswersFit, CopyHasCommand
<1> HIDE DEF out
<1>6. /\ Inbox' = Inbox \o out /\ toServer' = Tail(toServer)
      /\ notified' = notified \o Asyncs(out) /\ notified \in Seq(Messages)
  BY <1>2, <1>5, InboxGrows DEF out, AsyncInv, AskedInv
<1>7. \A k \in 1 .. Len(out), j \in 1 .. Len(notified) : IsAsync(out[k]) => notified[j] # out[k]
  <2> SUFFICES ASSUME NEW k \in 1 .. Len(out), NEW j \in 1 .. Len(notified), IsAsync(out[k])
               PROVE  notified[j] # out[k]
    OBVIOUS
  <2>1. Asks(d) /\ out[k].of = d.id
    BY <1>5 DEF Own
  <2>2. notified[j].of # d.id
    BY <1>4, <2>1 DEF AsyncInv, AskedInv
  <2> QED BY <2>1, <2>2
<1> HIDE DEF d
<1>8. HeardInv'
  BY <1>2, <1>3, <1>5, <1>6, <1>7, HeardSent DEF AsyncInv, Own
<1>9. AskedInv'
  <2>1. d = Head(toServer)
    BY DEF d
  <2> QED BY <1>2, <1>3, <1>5, <1>6, <2>1, AskedAnswered DEF AsyncInv
<1> QED BY <1>8, <1>9 DEF AsyncInv

LEMMA AppendedOne ==
  ASSUME NEW s \in Seq(Messages), NEW m \in Messages
  PROVE  Append(s, m) = s \o <<m>>
BY AppendIsConcat

LEMMA SendNotifyStays ==
  ASSUME ~ Repeated, Inv, AsyncInv, SendNotify
  PROVE  AsyncInv'
<1> DEFINE Note(payload) == [type |-> "Notify", of |-> payload, tx |-> None]
<1>1. PICK payload \in Payloads : /\ toClient' = Append(toClient, Note(payload))
                                  /\ notified' = Append(notified, Note(payload))
                                  /\ Repeated \/ Note(payload) \notin ToSet(notified)
  BY DEF SendNotify
<1> DEFINE m == Note(payload)
           out == << m >>
<1>2. UNCHANGED <<xact, read, socket, server, pc, then, pushing, made, heard, toServer>>
  BY DEF SendNotify, connVars, callVars, boundVars, serverVars
<1>3. m \in Messages /\ IsAsync(m) /\ m.of = payload
  BY DEF Messages, IsAsync, AsynchronousMap, Replies
<1> HIDE DEF Note, m
<1>4. /\ read \in Seq(Messages) /\ toClient \in Seq(Messages) /\ toServer \in Seq(Sendables)
      /\ notified \in Seq(Messages)
  BY InvIs DEF WireInv, AsyncInv, AskedInv
<1>5. out \in Seq(Messages) /\ Asyncs(out) = out /\ Len(out) = 1 /\ out[1] = m
  BY <1>3, AsyncsOfOne
<1>6. toClient' = toClient \o out /\ notified' = notified \o out
  BY <1>1, <1>3, <1>4, AppendedOne DEF m, out
<1>7. \A j \in 1 .. Len(notified) : notified[j] # m
  <2>1. m \notin ToSet(notified)
    BY <1>1 DEF m
  <2>2. DOMAIN notified = 1 .. Len(notified)
    BY <1>4
  <2> QED BY <2>1, <2>2 DEF ToSet
<1> HIDE DEF out
<1>8. Inbox' = Inbox \o out
  BY <1>2, <1>5, <1>6, InboxGrows
<1>9. HeardInv'
  <2>1. Once(out)
    BY <1>5 DEF Once
  <2>2. \A k \in 1 .. Len(out), j \in 1 .. Len(notified) : IsAsync(out[k]) => notified[j] # out[k]
    BY <1>5, <1>7
  <2>3. notified' = notified \o Asyncs(out) /\ (server'.mode # "gone" => server.mode # "gone")
        /\ heard' = heard /\ socket' = socket
    BY <1>2, <1>5, <1>6
  <2> QED BY <1>4, <1>5, <1>8, <2>1, <2>2, <2>3, HeardSent DEF AsyncInv
<1>10. AskedInv'
  <2> DEFINE s == notified
             t == notified'
             o == toServer
  <2>1. m.of \notin Nat \X Nat
    BY <1>3, AsyncAssumption
  <2>2. t \in Seq(Messages) /\ \A j \in 1 .. Len(t) : (j \in 1 .. Len(s) /\ t[j] = s[j]) \/ t[j] = m
    <3>1. t = Append(s, m) /\ s \in Seq(Messages)
      BY <1>1, <1>4 DEF m
    <3> HIDE DEF s, t
    <3> QED BY <1>3, <3>1, AppendedIs
  <2>3. /\ \A n \in Nat : Unsending(n) => Untouched(n)
        /\ \A i \in 1 .. Len(o), j \in 1 .. Len(s) : Asks(o[i]) => s[j].of # o[i].id
        /\ \A i, j \in 1 .. Len(o) : Asks(o[i]) /\ Asks(o[j]) /\ o[i].id = o[j].id => i = j
    BY DEF AsyncInv, AskedInv
  <2>4. \A n \in Nat : Unsending(n)' => Unsending(n)
    BY <1>2, UnsendingSame
  <2>5. \A i \in 1 .. Len(o) : o[i].id \in Nat \X Nat
    <3>1. \A i \in 1 .. Len(o) : o[i] \in Sendables
      BY <1>4, ElementOfSeq
    <3> QED BY <3>1 DEF Sendables, Ids
  <2>6. toServer' = o
    BY <1>2
  <2>7. ASSUME NEW n \in Nat, Unsending(n)' PROVE Untouched(n)'
    <3>1. /\ \A j \in 1 .. Len(s) : s[j].of \notin {n} \X Nat
          /\ \A i \in 1 .. Len(o) : Asks(o[i]) => o[i].id[1] # n
      BY <2>3, <2>4, <2>7 DEF Untouched
    <3> HIDE DEF s, t
    <3>2. m.of \notin {n} \X Nat
      BY <2>1
    <3>3. \A j \in 1 .. Len(t) : t[j].of \notin {n} \X Nat
      BY <2>2, <3>1, <3>2
    <3> QED BY <2>6, <3>1, <3>3 DEF Untouched, t
  <2> HIDE DEF s, t
  <2>8. \A i \in 1 .. Len(o), j \in 1 .. Len(t) : Asks(o[i]) => t[j].of # o[i].id
    BY <2>1, <2>2, <2>3, <2>5
  <2> QED BY <2>2, <2>3, <2>6, <2>7, <2>8 DEF AskedInv, t
<1> QED BY <1>9, <1>10 DEF AsyncInv

LEMMA ServerEndsStays ==
  ASSUME Inv, AsyncInv, ServerEnds
  PROVE  AsyncInv'
<1>1. /\ toServer' = <<>> /\ UNCHANGED <<xact, pc, then, pushing, made, notified>>
      /\ server' = [server EXCEPT !.mode = "gone"]
  BY DEF ServerEnds, connVars, callVars, boundVars, asyncVars
<1>2. server'.mode = "gone"
  BY <1>1, InvIs DEF Servers
<1>3. HeardInv'
  BY <1>2 DEF HeardInv
<1>4. AskedInv'
  <2>1. Len(toServer') = 0 /\ notified' = notified
    BY <1>1, EmptySeq
  <2>2. ASSUME NEW n \in Nat, Unsending(n)' PROVE Untouched(n)'
    <3>1. Untouched(n)
      BY <1>1, <2>2, UnsendingSame DEF AsyncInv, AskedInv
    <3> QED BY <2>1, <3>1 DEF Untouched
  <2>3. notified' \in Seq(Messages)
    BY <1>1 DEF AsyncInv, AskedInv
  <2> QED BY <2>1, <2>2, <2>3 DEF AskedInv
<1> QED BY <1>3, <1>4 DEF AsyncInv

LEMMA CloseSocketStays ==
  ASSUME Inv, AsyncInv, CloseSocket
  PROVE  AsyncInv'
<1>1. /\ socket' = "closed" /\ pc' = "idle"
      /\ UNCHANGED <<toServer, made, notified>>
  BY DEF CloseSocket, Return, Goto, boundVars, asyncVars
<1>2. HeardInv'
  BY <1>1 DEF HeardInv
<1>3. Calm
  BY <1>1, ReturnsQuietly, QuietlyIsCalm
<1>4. AskedInv'
  BY <1>1, <1>3, CalmIs, AskedStays DEF AsyncInv
<1> QED BY <1>2, <1>4 DEF AsyncInv

LEMMA StutterStays ==
  ASSUME Inv, AsyncInv, UNCHANGED vars
  PROVE  AsyncInv'
<1>1. UNCHANGED <<xact, pc, then, pushing, made, read, toClient, toServer, heard, notified, server, socket>>
  BY DEF vars, connVars, callVars, serverVars, boundVars, asyncVars
<1>2. HeardInv'
  BY <1>1, HeardStays DEF AsyncInv
<1>3. AskedInv'
  BY <1>1, UnsendingSame, AskedStays DEF AsyncInv
<1> QED BY <1>2, <1>3 DEF AsyncInv

LEMMA NextStays ==
  ASSUME ~ EarlyCopyErrors, ~ Repeated, Inv, AsyncInv, [Next]_vars
  PROVE  AsyncInv'
<1>1. CASE CompleteSend \/ CompleteReceive \/ Start \/ PqStepSend \/ PqStepReceive \/ CloseSocket
  BY <1>1, CompleteSendStays, CompleteReceiveStays, StartStays, PqStepSendStays, PqStepReceiveStays, CloseSocketStays
<1>2. CASE \/ \E types \in Batches, next \in {"complete", "return"} : Push(types, next)
           \/ PreviousCompleted \/ TakeOutTrash \/ TrashTakenOut \/ Pushed \/ PqComplete \/ PqCompleted
           \/ StepDropped \/ Synchronize \/ BeforeSynchronize \/ Synchronized \/ Close \/ BeforeClose \/ Trash
           \/ \E messages \in {"chunk", "done"} : SetMessages(messages)
  BY <1>2, ControlIsCalm, CalmStays
<1>3. CASE ServerStep
  BY <1>3, ServerStepStays
<1>4. CASE CopyFailsEarly
  BY <1>4, CopyFailsEarlyKeeps
<1>5. CASE ServerEnds
  BY <1>5, ServerEndsStays
<1>6. CASE SendNotify
  BY <1>6, SendNotifyStays
<1>7. CASE UNCHANGED vars
  BY <1>7, StutterStays
<1> QED BY <1>1, <1>2, <1>3, <1>4, <1>5, <1>6, <1>7 DEF Next, Connection, Caller, Server

\* What asynchook was given and what is yet to be read of the asynchronous messages
\* is what the server sent, each once and in its order, whenever the caller of
\* client3.Connection has control and no transaction: standard_put and the fast
\* paths neither lose one, nor hear one twice, nor pass one over.  No two are equal
\* (Repeated): a group in which two are would give one of them to asynchook only.
THEOREM NotificationsAlwaysComplete ==
  ASSUME ~ EarlyCopyErrors, ~ Repeated
  PROVE  Spec => []NotificationsComplete
<1>1. Init => AsyncInv
  BY InitAsyncInv
<1>2. Inv /\ AsyncInv /\ [Next]_vars => AsyncInv'
  BY NextStays
<1>3. ASSUME Inv, AsyncInv PROVE NotificationsComplete
  <2> SUFFICES ASSUME Usable, server.mode = "ready" PROVE Asyncs(heard \o read \o toClient) = notified
    BY DEF NotificationsComplete
  <2>1. socket = "open"
    BY <1>3, UsableIsIdle DEF Doomed
  <2>2. /\ heard \in Seq(Messages) /\ \A k \in 1 .. Len(heard) : IsAsync(heard[k])
        /\ heard \o Asyncs(Inbox) = notified
    BY <1>3, <2>1 DEF AsyncInv, HeardInv
  <2>3. read \in Seq(Messages) /\ toClient \in Seq(Messages) /\ Inbox \in Seq(Messages)
    BY <1>3, InvIs DEF WireInv
  <2>4. heard \o read \o toClient = heard \o Inbox
    BY <2>2, <2>3, ConcatAssociative DEF Inbox
  <2>5. Asyncs(heard \o Inbox) = Asyncs(heard) \o Asyncs(Inbox)
    BY <2>2, <2>3, AsyncsJoined
  <2>6. Asyncs(heard) = heard
    BY <2>2, AsyncsOfAsyncs
  <2> QED BY <2>2, <2>4, <2>5, <2>6
<1> QED BY <1>1, <1>2, <1>3, ProtocolInvariant, PTL DEF Spec
=============================================================================
