----------------------------- MODULE Notifications -----------------------------
(***************************************************************************)
(* notifyman.NotificationManager: the loop of __next__ that moves the      *)
(* notifications of a set of connections from the wire to its caller, with *)
(* idle events after a timeout, and connections that die or are closed or  *)
(* taken out by the caller while events are outstanding.                   *)
(***************************************************************************)
EXTENDS Common, Integers, Sequences, FiniteSets, SequencesExt

CONSTANTS
  Conns,       \* connections
  MaxSent      \* bound: notifications a server sends on one connection

\* The events of .incoming: a connection and what it was notified of.
NotifyEvents == Conns \X Seq(Nat)

ASSUME NotifyAssumption ==
  /\ IsFiniteSet(Conns) /\ MaxSent \in Nat
  /\ None \notin {"checked", "unchecked", "stopped"} /\ None \notin Seq(NotifyEvents)

VARIABLES
  timeout,     \* .timeout: "none", "zero" or "positive"
  notified,    \* how many notifications each server has sent: they are numbered
  onWire,      \* those not read yet
  notifies,    \* Connection._notifies
  incoming,    \* what is left of the iterator of <<connection, notifications>>, or None
  conns,       \* NotificationManager.connections, and .garbage
  garbage,
  shut,        \* connections the caller has closed
  lastTime,    \* _last_time is set
  loop,        \* None: with the caller; "checked", "unchecked": checked_wire; "stopped"
  emitted      \* what the caller got of each connection

notifyVars == <<timeout, notified, onWire, notifies, incoming, conns, garbage, shut, lastTime, loop, emitted>>

NotifyInit ==
  /\ timeout \in {"none", "zero", "positive"}
  /\ notified = [c \in Conns |-> 0] /\ onWire = [c \in Conns |-> <<>>] /\ notifies = [c \in Conns |-> <<>>]
  /\ incoming = None /\ conns = Conns /\ garbage = {} /\ shut = {} /\ lastTime = FALSE
  /\ loop = None /\ emitted = [c \in Conns |-> <<>>]

-----------------------------------------------------------------------------
(* The servers, and the caller between two calls *)

ServerNotify(c) ==
  /\ notified[c] < MaxSent /\ c \notin shut \cup garbage
  /\ notified' = [notified EXCEPT ![c] = @ + 1]
  /\ onWire' = [onWire EXCEPT ![c] = Append(@, notified'[c])]
  /\ UNCHANGED <<timeout, notifies, incoming, conns, garbage, shut, lastTime, loop, emitted>>

\* Any query collects what is on the wire.
CallerQueries(c) ==
  /\ loop = None /\ c \notin shut \cup garbage
  /\ onWire' = [onWire EXCEPT ![c] = <<>>] /\ notifies' = [notifies EXCEPT ![c] = @ \o onWire[c]]
  /\ UNCHANGED <<timeout, notified, incoming, conns, garbage, shut, lastTime, loop, emitted>>

CallerCloses(c) ==
  /\ loop = None /\ shut' = shut \cup {c}
  /\ UNCHANGED <<timeout, notified, onWire, notifies, incoming, conns, garbage, lastTime, loop, emitted>>

\* "it is possible for connections to be added and removed at any time"
CallerChanges(c) ==
  /\ loop = None /\ c \notin garbage
  /\ conns' = IF c \in conns THEN conns \ {c} ELSE conns \cup {c}
  /\ UNCHANGED <<timeout, notified, onWire, notifies, incoming, garbage, shut, lastTime, loop, emitted>>

SetTimeout ==
  /\ loop = None /\ timeout' \in {"none", "zero", "positive"}
  /\ UNCHANGED <<notified, onWire, notifies, incoming, conns, garbage, shut, lastTime, loop, emitted>>

Call ==
  /\ loop = None /\ loop' = "checked"
  /\ UNCHANGED <<timeout, notified, onWire, notifies, incoming, conns, garbage, shut, lastTime, emitted>>

-----------------------------------------------------------------------------
(* __next__: one turn of its loop *)

Running == loop \in {"checked", "unchecked"}

\* The next of .incoming goes to the caller.
Emit ==
  /\ Running /\ incoming \notin {None, <<>>}
  /\ emitted' = [emitted EXCEPT ![Head(incoming)[1]] = @ \o Head(incoming)[2]]
  /\ incoming' = Tail(incoming) /\ loop' = None
  /\ UNCHANGED <<timeout, notified, onWire, notifies, conns, garbage, shut, lastTime>>

\* Nothing more in it: a poll, or a manager without connections, stops.
Stop ==
  /\ Running /\ incoming = <<>> /\ (timeout = "zero" \/ conns = {})
  /\ incoming' = None /\ loop' = "stopped"
  /\ UNCHANGED <<timeout, notified, onWire, notifies, conns, garbage, shut, lastTime, emitted>>

NothingIncoming == incoming = None \/ (incoming = <<>> /\ timeout # "zero" /\ conns # {})

\* _timedout(): an idle event.
TimedOut ==
  /\ Running /\ NothingIncoming /\ lastTime /\ timeout = "positive"
  /\ lastTime' = FALSE /\ incoming' = None /\ loop' = None
  /\ UNCHANGED <<timeout, notified, onWire, notifies, conns, garbage, shut, emitted>>

\* _wait_on_wires(): closed connections are set aside, an empty query collects what the others received,
\* and those that fail it are set aside as well.
Good == conns \ shut
Waited(failing) ==
  [wire     |-> [c \in Conns |-> IF c \in Good \ failing THEN <<>> ELSE onWire[c]],
   notifies |-> [c \in Conns |-> notifies[c] \o IF c \in Good \ failing THEN onWire[c] ELSE <<>>],
   conns    |-> Good \ failing,
   garbage  |-> garbage \cup (conns \cap shut) \cup failing]
Unwaited == [wire |-> onWire, notifies |-> notifies, conns |-> conns, garbage |-> garbage]

\* _pull_from_connections() and _queue_next(): all a connection has, as one event.
\* Those of closed connections left out.
HasNotifiesOpen(w) == {c \in w.conns \ shut : w.notifies[c] # <<>>}
HasNotifies(w) == {c \in w.conns : w.notifies[c] # <<>>}
Queued(w, order) == [i \in DOMAIN order |-> <<order[i], w.notifies[order[i]]>>]

Turn ==
  LET waits == loop = "unchecked" /\ conns # {} IN
  /\ Running /\ NothingIncoming
  /\ \E w \in IF waits THEN {Waited(f) : f \in SUBSET Good} ELSE {Unwaited} :
       /\ onWire' = w.wire /\ conns' = w.conns /\ garbage' = w.garbage
       /\ notifies' = [c \in Conns |-> IF c \in w.conns THEN <<>> ELSE w.notifies[c]]
       /\ \E order \in SetToSeqs(HasNotifies(w)) : incoming' = Queued(w, order)
  /\ loop' = IF waits THEN "checked" ELSE "unchecked"
  /\ lastTime' = IF waits /\ timeout # "zero" THEN TRUE ELSE ~lastTime
  /\ UNCHANGED <<timeout, notified, shut, emitted>>

NotifyNext ==
  \/ \E c \in Conns : ServerNotify(c) \/ CallerQueries(c) \/ CallerCloses(c) \/ CallerChanges(c)
  \/ SetTimeout \/ Call \/ Emit \/ Stop \/ TimedOut \/ Turn

NotifySpec == NotifyInit /\ [][NotifyNext]_notifyVars

-----------------------------------------------------------------------------
(* Properties *)

\* Types: a connection is waited on or set aside, not both.
NotifyTypeOK ==
  /\ conns \subseteq Conns /\ garbage \subseteq Conns /\ conns \cap garbage = {}
  /\ loop \in {None, "checked", "unchecked", "stopped"}
  /\ \A c \in Conns : notified[c] \in 0..MaxSent

\* What is left of .incoming of one connection, which has one event in it at most.
EventsOf(c) == IF incoming = None THEN {} ELSE {i \in DOMAIN incoming : incoming[i][1] = c}
Outstanding(c) == IF EventsOf(c) = {} THEN <<>> ELSE incoming[CHOOSE i \in EventsOf(c) : TRUE][2]

\* Every notification is somewhere between the server and the caller, once and in its place; and before
\* the loop ends for want of connections, "any remaining notifications *will* be emitted" of those the
\* caller closed and the manager set aside.
NotifiesInOrder ==
  \A c \in Conns :
    /\ \A i, j \in EventsOf(c) : i = j
    /\ emitted[c] \o Outstanding(c) \o notifies[c] \o onWire[c] = [i \in 1..notified[c] |-> i]
    /\ loop = "stopped" /\ c \in shut \cap garbage => notifies[c] = <<>>
===============================================================================
