---------------------------- MODULE Instruction ----------------------------
(***************************************************************************)
(* psc/postgresql/protocol/xact3.py: the protocol transaction.  A batch of *)
(* commands is sent as a whole; the replies come back as groups of         *)
(* messages, cut wherever the reads of the socket cut them, and each group *)
(* is put into the transaction, which walks over its commands.             *)
(*                                                                         *)
(* A command is [type, id]; a reply is [type, of, tx], of being the id of  *)
(* the command it answers, which the wire does not carry and no operator   *)
(* decides on, and tx the transaction status a Ready carries.  Positions   *)
(* count from 1, the code's from 0.  The contents of messages are left     *)
(* out.                                                                    *)
(***************************************************************************)
EXTENDS Integers, Sequences, SequencesExt

CONSTANTS
  Optimized,        \* TRUE where port/_optimized was compiled
  None              \* Python's None

Fatal == TRUE       \* the three values of Transaction.fatal are TRUE, FALSE
NotFatal == FALSE   \* and None

\* What ends the current command in hook: None where the code pairs a message
\* with the next step.
End == -1

\* For each command and step, the messages that may come and the step that
\* follows.
hook ==
  [Query |-> << [TupleDescriptor |-> 3, Null |-> 0, Complete |-> 0,
                 CopyToBegin |-> 2, CopyFromBegin |-> 1, Ready |-> End],
                [Complete |-> 0],
                [CopyData |-> 2, CopyDone |-> 1],
                [Tuple |-> 3, Complete |-> 0, Ready |-> End] >>,
   Function |-> << [FunctionResult |-> 1], [Ready |-> End] >>,
   Parse |-> << [ParseComplete |-> End] >>,
   Bind |-> << [BindComplete |-> End] >>,
   Describe |-> << [AttributeTypes |-> 1, TupleDescriptor |-> End],
                   [NoData |-> End, TupleDescriptor |-> End] >>,
   Close |-> << [CloseComplete |-> End] >>,
   Execute |-> << [Tuple |-> 1, CopyToBegin |-> 2, CopyFromBegin |-> 3,
                   Null |-> End, Complete |-> End],
                  [Tuple |-> 1, Suspension |-> End, Complete |-> End],
                  [CopyData |-> 2, CopyDone |-> 3],
                  [Complete |-> End] >>,
   Synchronize |-> << [Ready |-> End] >>,
   Flush |-> << >>]

AsynchronousMap == {"Notice", "Notify", "ShowOption"}

\* The values of Transaction.state; the first three of them send.
Sending == {"standard_sent", "sent_from_stdin", "closing_sent"}
Receiving == {"standard_put", "put_copydata", "put_tupledata"}
States == Sending \cup Receiving \cup {"Complete"}

\* The objects the attribute messages can be bound to.
MessageSets == {"commands", "none", "fail", "done", "chunk"}

\* An error message made by the client itself, with its text in the place of a command's id.
ClientError(text) == [type |-> "ClientError", of |-> <<text>>, tx |-> None]

\* __init__: the commands are to be sent; last is (offset, step), completed
\* holds each processed reply with the command it was processed for.
NewInstruction(n, commands) ==
  [number |-> n, commands |-> commands, offset |-> 1, step |-> 0,
   completed |-> <<>>, state |-> "standard_sent", messages |-> "commands",
   reissued |-> <<>>, fatal |-> None, error_message |-> None,
   last_ready |-> None]

\* Closing: one Disconnect message, and the connection counts as dead.
NewClosing(n) ==
  [NewInstruction(n, << [type |-> "Disconnect", id |-> <<n, 1>>] >>)
     EXCEPT !.state = "closing_sent",
            !.error_message = ClientError("operation on closed connection")]

\* A transaction ended by the connection, not by the server's answers.
Broken(x, text) ==
  [x EXCEPT !.state = "Complete", !.fatal = Fatal,
            !.error_message = ClientError(text)]

-----------------------------------------------------------------------------
(* standard_put.  p is the position while a group is processed: stop is    *)
(* "no" until the loop is left, by break ("break") or by return            *)
(* ("return"), the latter with state set to Complete.                      *)

Paths(x, p) == hook[x.commands[p.offset].type][p.step + 1]

\* The next command that has replies of its own, or past the last one.
NextCommand(commands, offset) ==
  LET after == {i \in offset + 1 .. Len(commands) : hook[commands[i].type] # <<>>}
  IN  IF after = {} THEN Len(commands) + 1
      ELSE CHOOSE i \in after : \A j \in after : i <= j

\* Process a valid message, Complete taken for the end of a Query too.
AcceptComplete(x, p, m) ==
  LET offset == NextCommand(x.commands, p.offset)
      q == [p EXCEPT !.processed = Append(@,
                        [command |-> x.commands[p.offset].id, reply |-> m])]
  IN  IF m.type # "Complete" /\ Paths(x, p)[m.type] # End
      THEN [q EXCEPT !.step = Paths(x, p)[m.type]]
      ELSE [q EXCEPT !.step = 0, !.offset = offset,
                     !.stop = IF offset > Len(x.commands) THEN "break" ELSE "no"]

\* Process a valid message.
Accept(x, p, m) ==
  LET next == Paths(x, p)[m.type]
      offset == NextCommand(x.commands, p.offset)
      q == [p EXCEPT !.processed = Append(@,
                        [command |-> x.commands[p.offset].id, reply |-> m]),
                     !.last_ready = IF m.type = "Ready" THEN m.tx ELSE @]
  IN  IF next # End
      THEN [q EXCEPT !.step = next]
      ELSE [q EXCEPT !.step = 0, !.offset = offset,
                     !.stop = IF offset > Len(x.commands) THEN "break" ELSE "no"]

\* Commands that imply a Synchronize.
ImplySync == {"Query", "Function"}

\* The same without the exception for the commands that imply it.
SkipToSyncAlways(x, offset) ==
  LET syncs == {i \in offset .. Len(x.commands) : x.commands[i].type = "Synchronize"}
  IN  IF syncs = {} THEN None ELSE CHOOSE i \in syncs : \A j \in syncs : i <= j

\* An error moves on to the Synchronize that ends the skipping of the server.
SkipToSync(x, offset) ==
  LET syncs == {i \in offset .. Len(x.commands) : x.commands[i].type = "Synchronize"}
  IN  IF x.commands[offset].type \in ImplySync THEN offset
      ELSE IF syncs = {} THEN None
      ELSE CHOOSE i \in syncs : \A j \in syncs : i <= j

Failed(x, p, m) ==
  LET q == [p EXCEPT !.fatal = IF m.type = "FatalError" THEN Fatal ELSE NotFatal,
                     !.error_message = m]
      offset == SkipToSync(x, p.offset)
  IN  IF m.type = "FatalError" \/ offset = None
      THEN [q EXCEPT !.stop = "return"]
      ELSE [q EXCEPT !.offset = offset, !.step = 0]

\* _asyncs remembers what the hook has been given of this group; the messages
\* are compared by value.
Asynchronous(p, m) ==
  IF m \in ToSet(p.heard) THEN p ELSE [p EXCEPT !.heard = Append(@, m)]

ProtocolViolation(p) ==
  [p EXCEPT !.stop = "return", !.fatal = Fatal,
            !.error_message = ClientError("protocol violation")]

PutMessage(x, p, m) ==
  LET q == [p EXCEPT !.count = @ + 1]
  IN  IF p.stop # "no" THEN p
      ELSE IF m.type \in DOMAIN Paths(x, p) THEN Accept(x, q, m)
      ELSE IF m.type \in {"Error", "FatalError"} THEN Failed(x, q, m)
      ELSE IF m.type \in AsynchronousMap THEN Asynchronous(q, m)
      ELSE ProtocolViolation(q)

\* The state after a group: the fast paths for rows and COPY data, and the
\* sending of COPY data.
Switched(x, p) ==
  LET last == Last(p.processed).reply.type
  IN  IF p.offset > Len(x.commands) THEN "Complete"
      ELSE IF x.commands[p.offset].type \notin {"Execute", "Query"} THEN x.state
      ELSE IF p.processed = <<>> THEN x.state
      ELSE CASE last \in {"CopyData", "CopyToBegin"} -> "put_copydata"
             [] last = "Tuple" -> "put_tupledata"
             [] last = "CopyFromBegin" -> "sent_from_stdin"
             [] OTHER -> x.state

\* What a put returns: the transaction, how many messages it took, what it
\* gave to asynchook, and whether it raised instead.
Result(x, count, heard) ==
  [xact |-> x, count |-> count, heard |-> heard, raised |-> FALSE]

standard_put(x, group) ==
  LET start == [offset |-> x.offset, step |-> x.step, processed |-> <<>>,
                heard |-> <<>>, count |-> 0, stop |-> "no", fatal |-> x.fatal,
                error_message |-> x.error_message, last_ready |-> x.last_ready]
      p == FoldLeft(LAMBDA q, m : PutMessage(x, q, m), start, group)
      y == [x EXCEPT !.fatal = p.fatal, !.error_message = p.error_message,
                     !.last_ready = p.last_ready]
  IN  Result(
        IF p.stop = "return" THEN [y EXCEPT !.state = "Complete"]
        ELSE [y EXCEPT !.offset = p.offset, !.step = p.step,
                       !.completed = @ \o p.processed,
                       !.state = Switched(x, p),
                       \* CopyFailSequence and CopyDoneSequence end with these
                       !.reissued = IF Switched(x, p) = "sent_from_stdin"
                                    THEN SubSeq(x.commands, p.offset + 1, Len(x.commands))
                                    ELSE @],
        p.count, p.heard)

\* The fast paths record the data and leave the position alone.
Recorded(x, data) ==
  [x EXCEPT !.completed = @ \o [i \in DOMAIN data |->
     [command |-> x.commands[x.offset].id, reply |-> data[i]]]]

\* The same with a look at messages[-1] only.
put_copydataLast(x, group) ==
  IF group = <<>> THEN [Result(x, 0, <<>>) EXCEPT !.raised = TRUE]
  ELSE IF Last(group).type = "CopyData"
       THEN Result(Recorded(x, group), Len(group), <<>>)
       ELSE standard_put([x EXCEPT !.state = "standard_put"], group)

\* put_copydata looks at messages[-1] before anything else.
put_copydata(x, group) ==
  IF group = <<>> THEN [Result(x, 0, <<>>) EXCEPT !.raised = TRUE]
  ELSE IF \A i \in DOMAIN group : group[i].type = "CopyData"
       THEN Result(Recorded(x, group), Len(group), <<>>)
       ELSE standard_put([x EXCEPT !.state = "standard_put"], group)

\* The rows at the head of a group.  The C function takes them, the Python
\* function takes a group of rows only.
Rows(group) ==
  LET rows == {n \in 0 .. Len(group) : \A i \in 1 .. n : group[i].type = "Tuple"}
  IN  CHOOSE n \in rows : \A k \in rows : k <= n

put_tupledata(x, group) ==
  IF group = <<>> /\ ~Optimized THEN [Result(x, 0, <<>>) EXCEPT !.raised = TRUE]
  ELSE LET n == Rows(group)
       IN  IF n = 0 \/ (~Optimized /\ n < Len(group))
           THEN standard_put([x EXCEPT !.state = "standard_put"], group)
           ELSE Result(Recorded(x, SubSeq(group, 1, n)), n, <<>>)

\* op is the state the caller of the operation has read.
put(op, x, group) ==
  CASE op = "put_copydata"  -> put_copydata(x, group)
    [] op = "put_tupledata" -> put_tupledata(x, group)
    [] op = "standard_put"  -> standard_put(x, group)

-----------------------------------------------------------------------------
(* Sending *)

standard_sent(x) == [x EXCEPT !.messages = "none", !.state = "standard_put"]

\* The same with nothing to send in the place of CopyFailSequence.
sent_from_stdinEmpty(x) ==
  IF x.messages \in {"done", "fail"} THEN standard_sent(x)
  ELSE [x EXCEPT !.messages = "none"]

\* Whoever does not bind messages before each call terminates the COPY.
sent_from_stdin(x) ==
  IF x.messages \in {"done", "fail"} THEN standard_sent(x)
  ELSE [x EXCEPT !.messages = "fail"]

closing_sent(x) ==
  [x EXCEPT !.messages = "none", !.state = "Complete", !.fatal = Fatal]

sent(op, x) ==
  CASE op = "sent_from_stdin" -> sent_from_stdin(x)
    [] op = "closing_sent"    -> closing_sent(x)
    [] op = "standard_sent"   -> standard_sent(x)

\* The commands the attribute messages stands for.
Wire(x) ==
  LET copy(type) == << [type |-> type, id |-> x.commands[x.offset].id] >>
  IN  CASE x.messages = "commands" -> x.commands
        [] x.messages = "none"     -> <<>>
        [] x.messages = "chunk"    -> copy("CopyData")
        [] x.messages = "done"     -> copy("CopyDone") \o x.reissued
        [] x.messages = "fail"     -> copy("CopyFail") \o x.reissued
=============================================================================
