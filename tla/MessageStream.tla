----------------------------- MODULE MessageStream -----------------------------
(***************************************************************************)
(* What a pq_message_stream promises: its reader is given the messages     *)
(* that have arrived completely, all of them, in order and once.           *)
(***************************************************************************)
EXTENDS Naturals, Sequences

VARIABLES
  messages,   \* the messages the other side sends
  complete,   \* how many of them have been written to the stream to their last byte
  given       \* the messages the reader was given

StreamInit == complete = 0 /\ given = <<>>

\* Bytes arrive; they may complete any number of messages, or none.
Arrive == complete' \in complete..Len(messages) /\ UNCHANGED <<messages, given>>

\* read(): all that is there.
ReadAll == given' = SubSeq(messages, 1, complete) /\ UNCHANGED <<messages, complete>>

\* next_message(): one, if there is one.
ReadOne ==
  /\ Len(given) < complete
  /\ given' = Append(given, messages[Len(given) + 1])
  /\ UNCHANGED <<messages, complete>>

StreamSpec == StreamInit /\ [][Arrive \/ ReadAll \/ ReadOne]_<<messages, complete, given>>
===============================================================================
