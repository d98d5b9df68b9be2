------------------------------ MODULE CopyTransfer ------------------------------
(***************************************************************************)
(* copyman: CopyManager with a StatementProducer and StatementReceivers.   *)
(* The producer takes the bytes of the source's socket as they come, and   *)
(* WireState tells where in the message they end, so that a COPY that is   *)
(* given up can be brought to the end of a message on all sides.  A        *)
(* message is its type, L digits of its size and its body (Messages).      *)
(***************************************************************************)
EXTENDS Messages

CONSTANTS
  Receivers,   \* the receivers
  Sources,     \* what a server may send: sequences of messages
  Chunk,       \* buffer_size: how much is received at once
  MaxFaults    \* bound: failures of a receiver's transmit()

VARIABLES
  source,      \* the messages of the COPY TO STDOUT
  wire,        \* bytes of them that are in the socket, or will be
  buffered,    \* pq.message_buffer and pq.read_data of the source's connection
  exhausted,   \* _chunks._xact: "busy", "complete", or None when the last chunk was taken
  state,       \* ProtocolProducer._state: a WireState or None
  nextchunk,   \* "confiscate" or "recv_view"
  receivers,   \* CopyManager.receivers
  view,        \* what each has accepted and not sent
  got,         \* what it has sent
  stop,        \* _seen_stop_iteration
  faults,
  phase,       \* where the caller is: "next", "transmit", "faulted", "over" (run ends), "done"
  result,      \* None, "copied" or "CopyFail"
  ended        \* receiver -> "CopyDone" or "CopyFail"
copyVars == <<source, wire, buffered, exhausted, state, nextchunk, receivers, view, got, stop, faults, phase,
              result, ended>>

D == Code("CopyData")   A == Code("Notify")   E == Code("Error")   Z == Code("Ready")
AllBytes(messages) == Joined(messages, Bytes)
Data(frames) == Joined(frames, LAMBDA f : IF f.type = D THEN <<D>> \o Ulong(Len(f.body) + L) \o f.body ELSE <<>>)

CopyInit ==
  /\ source \in Sources /\ wire = AllBytes(source) /\ buffered = <<>>
  /\ exhausted = "busy" /\ state = None /\ nextchunk = "confiscate"
  /\ receivers = Receivers /\ view = [r \in Receivers |-> <<>>] /\ got = view
  /\ stop = FALSE /\ faults = 0 /\ phase = "next" /\ result = None /\ ended = [r \in Receivers |-> None]

-----------------------------------------------------------------------------
(* WireState *)

NewWireState == [remaining |-> 0, fragment |-> <<>>, final |-> <<>>]

\* update(): the loop over the messages of a view; remaining is -1 within a header.
RECURSIVE Over(_, _)
Over(remaining, v) ==
  LET rest == SubSeq(v, remaining + 1, Len(v)) IN
  IF remaining >= Len(v) THEN [NewWireState EXCEPT !.remaining = remaining - Len(v)]
  ELSE IF rest[1] # D THEN [NewWireState EXCEPT !.final = rest]
  ELSE IF Len(rest) < 1 + L THEN [NewWireState EXCEPT !.remaining = -1, !.fragment = Tail(rest)]
  ELSE Over(Size(rest) + 1, rest)

\* The fragment of a header forgotten.
UpdateAnew(ws, v) == Over(IF ws.remaining = -1 THEN 0 ELSE ws.remaining, v)
Update(ws, v) ==
  IF ws.remaining # -1 THEN Over(ws.remaining, v)
  ELSE LET o == Len(ws.fragment)
           fragment == ws.fragment \o SubSeq(v, 1, IF Len(v) < L - o THEN Len(v) ELSE L - o) IN
       IF Len(fragment) < L THEN [ws EXCEPT !.fragment = fragment]
                            ELSE Over(Unpack(fragment) - o, v)

-----------------------------------------------------------------------------
(* CopyManager._service_producer() and the producer *)

Accepted(data) == [r \in Receivers |-> IF r \in receivers THEN data ELSE view[r]]

\* process_copy_data(): what is not COPY data goes back to the connection.
Process(ws, v) ==
  LET u == Update(ws, v) IN
  /\ state' = IF u.final = <<>> THEN u ELSE None
  /\ view' = Accepted(SubSeq(v, 1, Len(v) - Len(u.final)))
  /\ phase' = "transmit"

EndsAs(how) == /\ phase' = how /\ stop' = (how = "over")
             /\ UNCHANGED <<source, wire, exhausted, state, nextchunk, receivers, view, got, faults, result, ended>>

\* confiscate(): the next chunk of the protocol transaction, and all the connection holds behind it.
Confiscate ==
  /\ phase = "next" /\ nextchunk = "confiscate" /\ receivers # {}
  /\ IF exhausted # "busy" THEN EndsAs("over") /\ UNCHANGED buffered
     ELSE \E k \in 0..Len(wire) :
       LET p == Framed(buffered \o SubSeq(wire, 1, k))
           types == {p.messages[i].type : i \in DOMAIN p.messages}
           v == Data(p.messages) \o p.rest
           last == Z \in types IN
       /\ types \cap {D, E, Z} # {}
       /\ wire' = SubSeq(wire, k + 1, Len(wire))
       /\ IF E \in types        \* the error is raised: a ProducerFault
            THEN /\ phase' = "faulted" /\ exhausted' = "complete" /\ buffered' = p.rest
                 /\ UNCHANGED <<state, nextchunk, view, stop>>
          ELSE IF D \notin types
            THEN /\ phase' = "over" /\ stop' = TRUE /\ exhausted' = None /\ buffered' = <<>>
                 /\ UNCHANGED <<state, nextchunk, view>>
          ELSE /\ Process(NewWireState, v)
               /\ exhausted' = IF last THEN "complete" ELSE "busy"
               /\ buffered' = Update(NewWireState, v).final
               /\ nextchunk' = IF last \/ buffered' # <<>> THEN "confiscate" ELSE "recv_view"
               /\ UNCHANGED stop
       /\ UNCHANGED <<source, receivers, got, faults, result, ended>>

\* recv_view()
RecvView ==
  /\ phase = "next" /\ nextchunk = "recv_view" /\ receivers # {} /\ wire # <<>>
  /\ \E k \in 1..(IF Len(wire) < Chunk THEN Len(wire) ELSE Chunk) :
       LET v == SubSeq(wire, 1, k) IN
       /\ Process(state, v)
       /\ buffered' = buffered \o Update(state, v).final
       /\ nextchunk' = IF Update(state, v).final = <<>> THEN "recv_view" ELSE "confiscate"
       /\ wire' = SubSeq(wire, k + 1, Len(wire))
  /\ UNCHANGED <<source, exhausted, receivers, got, stop, faults, result, ended>>

NoReceivers == phase = "next" /\ receivers = {} /\ EndsAs("faulted") /\ UNCHANGED buffered

-----------------------------------------------------------------------------
(* _service_receivers(), reconcile() *)

Transmit(failing, sent) ==
  /\ got' = [r \in Receivers |-> IF r \notin receivers THEN got[r] ELSE
                                 got[r] \o IF r \in failing THEN SubSeq(view[r], 1, sent) ELSE view[r]]
  /\ view' = [r \in Receivers |-> IF r \notin receivers THEN view[r] ELSE
                                  IF r \in failing THEN SubSeq(view[r], sent + 1, Len(view[r])) ELSE <<>>]

ServiceReceivers ==
  /\ phase = "transmit"
  /\ \/ Transmit({}, 0) /\ phase' = "next" /\ UNCHANGED <<receivers, faults>>
     \/ /\ faults < MaxFaults
        /\ \E failing \in (SUBSET receivers) \ {{}}, sent \in 0..1 :
             /\ \A r \in failing : Len(view[r]) > sent
             /\ Transmit(failing, sent)
             /\ receivers' = receivers \ failing
        /\ faults' = faults + 1 /\ phase' = "faulted"
  /\ UNCHANGED <<source, wire, buffered, exhausted, state, nextchunk, stop, result, ended>>

\* After a ReceiverFault the caller may bring a receiver back, before it goes on without the others.
Reconcile(r) ==
  /\ phase = "faulted" /\ r \notin receivers
  /\ got' = [got EXCEPT ![r] = @ \o view[r]] /\ view' = [view EXCEPT ![r] = <<>>]
  /\ receivers' = receivers \cup {r}
  /\ UNCHANGED <<source, wire, buffered, exhausted, state, nextchunk, stop, faults, phase, result, ended>>
Continue ==
  /\ phase = "faulted" /\ exhausted = "busy" /\ phase' = "next"
  /\ UNCHANGED <<source, wire, buffered, exhausted, state, nextchunk, receivers, view, got, stop, faults, result, ended>>

-----------------------------------------------------------------------------
(* CopyManager.__exit__() *)

Zeros(n) == [i \in 1..n |-> 0]

\* realign(): what brings the source's connection, and the receivers, to the end of the message.
RealignHeader(f) == SubSeq(f \o Zeros(L), 1, L - 1) \o <<L>>
Realigned ==
  CASE state = None -> [producer |-> <<>>, receivers |-> <<>>]
    [] state # None /\ state.remaining = -1 ->
         LET header == RealignHeader(state.fragment) IN
         [producer |-> <<D>> \o state.fragment,
          receivers |-> SubSeq(header, Len(state.fragment) + 1, L) \o Zeros(Unpack(header) - L)]
    [] state # None /\ state.remaining >= 0 ->
         [producer |-> IF state.remaining = 0 THEN <<>>
                       ELSE <<D>> \o Ulong(state.remaining + L),
          receivers |-> Zeros(state.remaining)]

\* StatementProducer.__exit__(): a COPY in progress is interrupted, or has been sent to its end before that.
Interruptible(rest) ==
  {i \in 0..Len(rest) : Framed(SubSeq(rest, 1, i)).rest = <<>>}
Interrupted(rest) ==
  IF exhausted # "busy" THEN {rest} ELSE {rest} \cup {SubSeq(rest, 1, i) \o <<E>> \o Ulong(L) : i \in Interruptible(rest)}

\* StatementReceiver.__exit__(): completion data, and then the COPY is given up; CopyDone; or it is given up.
ReceiverEnds(r, raised, padded) ==
  IF padded # <<>> \/ raised THEN "CopyFail" ELSE "CopyDone"

ExitCopy(raised) ==
  LET a == Realigned IN
  /\ \E rest \in Interrupted(buffered \o a.producer \o wire) :
       LET profail == exhausted = "busy" /\ \E i \in DOMAIN Framed(rest).messages : Framed(rest).messages[i].type = E
           ends == [r \in Receivers |-> IF r \in receivers THEN ReceiverEnds(r, raised, a.receivers) ELSE None]
           stopped == stop \/ (receivers # {} /\ a.receivers = <<>>) IN
       /\ buffered' = rest
       /\ ended' = ends
       /\ result' = IF raised \/ profail \/ ~stopped \/ receivers = {} \/ \E r \in receivers : ends[r] = "CopyFail"
                      THEN "CopyFail" ELSE "copied"
  /\ wire' = <<>>
  /\ got' = [r \in Receivers |-> IF r \in receivers THEN got[r] \o a.receivers ELSE got[r]]
  /\ phase' = "done"
  /\ UNCHANGED <<source, exhausted, state, nextchunk, receivers, view, stop, faults>>

\* The end of run(); an exception of the caller or a fault it does not handle; a break out of the iteration.
RunEnds == phase = "over" /\ ExitCopy(FALSE)
Raised == phase \in {"next", "faulted"} /\ ExitCopy(TRUE)
Broken == phase \in {"next", "faulted"} /\ ExitCopy(FALSE)

CopyNext ==
  \/ Confiscate \/ RecvView \/ NoReceivers \/ ServiceReceivers \/ Continue \/ \E r \in Receivers : Reconcile(r)
  \/ RunEnds \/ Raised \/ Broken
CopySpec == CopyInit /\ [][CopyNext]_copyVars

-----------------------------------------------------------------------------
(* Properties *)

\* Types: the state of the transfer and of its receivers.
CopyTypeOK ==
  /\ receivers \subseteq Receivers /\ nextchunk \in {"confiscate", "recv_view"} /\ faults \in 0..MaxFaults
  /\ exhausted \in {"busy", "complete", None} /\ result \in {None, "copied", "CopyFail"}

Understood(b) ==
  /\ Framed(b).rest = <<>>
  /\ \A i \in DOMAIN Framed(b).messages : Framed(b).messages[i].type \in {D, A, E, Z}

\* However a COPY ends, every receiver has been given whole messages and the connection of the producer goes
\* on at the beginning of one; a COPY that is reported as done was completed on every receiver; and one that
\* came to its end has copied all data to each of them.
CopyAligned ==
  phase = "done" =>
    /\ Understood(buffered)
    /\ \A r \in receivers : Framed(got[r]).rest = <<>>
    /\ result = "copied" => \A r \in receivers : ended[r] = "CopyDone"
    /\ stop => \A r \in receivers : ended[r] = "CopyDone" => got[r] = Data(Framed(AllBytes(source)).messages)
===============================================================================
