----------------------------- MODULE MCConnections -----------------------------
(***************************************************************************)
(* Two instances of ProtocolConnection in one: the batches of every kind   *)
(* with notifications, under the bounds of the .cfg; and COPY, streamed    *)
(* rows, garbage and faults, under those below.                            *)
(***************************************************************************)
EXTENDS MCProtocolConnection

VARIABLE part    \* "statements" or "faults"

Faults == INSTANCE ProtocolConnection WITH
  Optimized <- TRUE, Batches <- Streams, QueryResults <- CopyQuery, ExecuteResults <- CopyExecute,
  MaxChunks <- 1, MaxGarbage <- 1, MaxNotifies <- 0, MaxFaults <- 1

ConnectionsInit == part \in {"statements", "faults"} /\ Init

ConnectionsNext ==
  \/ part = "statements" /\ Next /\ UNCHANGED part
  \/ part = "faults" /\ Faults!Next /\ UNCHANGED part

ConnectionsSpec == ConnectionsInit /\ [][ConnectionsNext]_<<part, vars>>
===============================================================================
