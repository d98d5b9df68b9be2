------------------------------- MODULE Establish -------------------------------
(***************************************************************************)
(* Connection._establish of driver/pq3.py: the attempts at the endpoints   *)
(* of a connector, with and without SSL as sslmode has it, each of them    *)
(* client3.Connection.connect and the negotiation of xact3.Negotiation,    *)
(* and the attempts that are skipped because the last one is thought to    *)
(* have shown their end.                                                   *)
(***************************************************************************)
EXTENDS Common, Integers, Sequences, FiniteSets, SequencesExt

CONSTANTS
  Endpoints,   \* 1..n, in the order of socket_factory_sequence()
  Servers      \* what may be found there: [up, ssl, handshake, plain, secure], the last two: replies

-----------------------------------------------------------------------------
(* What Negotiation expects: Authentication, its Ok unless it was one, KillInformation, Ready *)

Stages == {"Authentication", "AuthenticationOk", "KillInformation", "Ready"}
Passwords == {"Cleartext", "Crypt", "MD5"}
\* What is expected after a reply; None where that ends the negotiation: with Ready, or with Error, an
\* unsupported request, what is not expected, or the end of the socket.
Following(stage, x) ==
  CASE x \in {"Notice", "ShowOption"}                     -> stage
    [] stage = "Authentication" /\ x \in Passwords        -> "AuthenticationOk"
    [] stage \in {"Authentication", "AuthenticationOk"} /\ x = "Ok" -> "KillInformation"
    [] stage = "KillInformation" /\ x = "KillInformation" -> "Ready"
    [] OTHER                                              -> None

\* The replies of a server as far as they are read, with what is expected at each of them.  A server that has
\* something against the client says so, and is not ready before the client is.
Negotiated(replies, expected) ==
  /\ replies # <<>> /\ expected[1] = "Authentication"
  /\ \A i \in 1..(Len(replies) - 1) : Following(expected[i], replies[i]) = expected[i + 1]
  /\ Following(expected[Len(replies)], replies[Len(replies)]) = None
  /\ replies[Len(replies)] = "Ready" => expected[Len(replies)] = "Ready"
Negotiates(replies) ==
  /\ replies \in Seq(STRING)
  /\ \E expected \in [1..Len(replies) -> Stages] : Negotiated(replies, expected)

\* What is known of an attempt: ssl_negotiation is didssl.
Attempts ==
  [ssl : {"plain", "must", "try"}, endpoint : Endpoints, stage : {"socket", "ssl"} \cup Stages,
   channel : {"plain", "ssl"}, didssl : {None, TRUE, FALSE}, replies : Seq(STRING)]

ASSUME EstablishAssumption ==
  /\ IsFiniteSet(Endpoints) /\ Endpoints = 1..Cardinality(Endpoints)
  /\ None \notin BOOLEAN /\ None \notin {"connected", "failed"} \cup Stages /\ None \notin Attempts
ASSUME ServersAssumption ==
  \A s \in Servers :
    s.up => Negotiates(s.plain) /\ (s.ssl = "S" /\ s.handshake => Negotiates(s.secure))

VARIABLES
  sslmode,     \* of the connector
  servers,      \* what is at each endpoint
  attempts,    \* socket_factories: those left
  attempt,     \* pq: the current one, or None
  canSkip,     \* can_skip
  told,        \* channels over which the password was sent
  crashed,     \* endpoints whose attempt ended with an exception after the socket was connected
  outcome      \* None; "connected"; "failed"; "raised": an exception nothing catches
establishVars == <<sslmode, servers, attempts, attempt, canSkip, told, crashed, outcome>>

\* The attempts, in order.  ssl is None, True or False: "plain", "must" and "try".
Try(ssl, e) == [ssl |-> ssl, endpoint |-> e]
\* "require" taken for "prefer" at its first attempt.
WaysAnyhow(mode) == CASE mode = "allow"   -> <<"plain", "must">>
                      [] mode = "prefer"  -> <<"try", "plain">>
                      [] mode = "require" -> <<"try">>
                      [] mode = "disable" -> <<"plain">>
Ways(mode) == CASE mode = "allow"   -> <<"plain", "must">>
                [] mode = "prefer"  -> <<"try", "plain">>
                [] mode = "require" -> <<"must">>
                [] mode = "disable" -> <<"plain">>
SocketFactories(mode) ==
  LET n == Len(Ways(mode)) IN
  [i \in 1..(n * Cardinality(Endpoints)) |-> Try(Ways(mode)[((i - 1) % n) + 1], ((i - 1) \div n) + 1)]

EstablishInit ==
  /\ sslmode \in {"allow", "prefer", "require", "disable"}
  /\ servers \in [Endpoints -> Servers]
  /\ attempts = SocketFactories(sslmode)
  /\ attempt = None /\ canSkip = FALSE /\ told = {} /\ crashed = {} /\ outcome = None

-----------------------------------------------------------------------------
(* _establish(): the loop *)

SkipAttempt ==
  /\ outcome = None /\ attempt = None /\ attempts # <<>> /\ canSkip
  /\ attempts' = Tail(attempts) /\ canSkip' = FALSE
  /\ UNCHANGED <<sslmode, servers, attempt, told, crashed, outcome>>

\* An attempt that failed: is the next one, without SSL or with it, worth making?
\* Whatever became of the negotiation of SSL.
CanSkipWhenever(a, exception) ==
  \/ sslmode = "prefer" /\ a.ssl = "try"
  \/ exception /\ <<sslmode, a.ssl>> \in {<<"prefer", "try">>, <<"allow", "plain">>}
CanSkip(a, exception) ==
  \/ sslmode = "prefer" /\ a.ssl = "try" /\ a.didssl = FALSE
  \/ exception /\ <<sslmode, a.ssl>> \in {<<"prefer", "try">>, <<"allow", "plain">>}
AttemptFails(a, exception) ==
  /\ attempt' = None /\ canSkip' = CanSkip(a, exception)
  /\ crashed' = IF exception /\ servers[a.endpoint].up THEN crashed \cup {a.endpoint} ELSE crashed
  /\ UNCHANGED <<sslmode, servers, attempts, told, outcome>>

Finishes(result) ==
  /\ outcome' = result
  /\ UNCHANGED <<sslmode, servers, attempts, attempt, canSkip, told, crashed>>
NoServersAvailable == outcome = None /\ attempt = None /\ attempts = <<>> /\ Finishes("failed")

-----------------------------------------------------------------------------
(* client3.Connection.connect(): the socket and SSL *)

Goes(a) == attempt' = a /\ UNCHANGED <<sslmode, servers, attempts, canSkip, told, crashed, outcome>>
Greeted(a, channel) ==
  [a EXCEPT !.stage = "Authentication", !.channel = channel,
            !.replies = IF channel = "ssl" THEN servers[a.endpoint].secure ELSE servers[a.endpoint].plain]

CreateSocket ==
  /\ outcome = None /\ attempt = None /\ attempts # <<>> /\ ~canSkip
  /\ attempt' = [ssl |-> Head(attempts).ssl, endpoint |-> Head(attempts).endpoint, stage |-> "socket",
                 channel |-> "plain", didssl |-> None, replies |-> <<>>]
  /\ attempts' = Tail(attempts)
  /\ UNCHANGED <<sslmode, servers, canSkip, told, crashed, outcome>>

AtStage(stage) == outcome = None /\ attempt # None /\ attempt.stage = stage

ConnectSocket ==
  /\ AtStage("socket")
  /\ IF ~servers[attempt.endpoint].up THEN AttemptFails(attempt, TRUE)
     ELSE Goes(IF attempt.ssl = "plain" THEN Greeted(attempt, "plain") ELSE [attempt EXCEPT !.stage = "ssl"])

\* negotiate_ssl() and secure()
NegotiateSSL ==
  LET s == servers[attempt.endpoint]
      a == [attempt EXCEPT !.didssl = IF s.ssl = "S" THEN TRUE ELSE IF s.ssl = "N" THEN FALSE ELSE None] IN
  /\ AtStage("ssl")
  /\ CASE s.ssl = "reset" -> Finishes("raised")             \* send() and recv() are not guarded
       [] s.ssl = "N"     -> IF a.ssl = "must" THEN AttemptFails(a, FALSE) ELSE Goes(Greeted(a, "plain"))
       [] s.ssl = "S"     -> IF s.handshake THEN Goes(Greeted(a, "ssl")) ELSE AttemptFails(a, TRUE)
       [] OTHER           -> AttemptFails(a, FALSE)         \* probably not PQv3

-----------------------------------------------------------------------------
(* xact3.Negotiation: put_messages() and the generator state_machine() *)

Expects(next, tells) ==
  /\ attempt' = [attempt EXCEPT !.stage = next, !.replies = Tail(@)]
  /\ told' = told \cup tells
  /\ UNCHANGED <<sslmode, servers, attempts, canSkip, crashed, outcome>>

Negotiation ==
  LET x == Head(attempt.replies)
      next == Following(attempt.stage, x) IN
  /\ outcome = None /\ attempt # None /\ attempt.stage \notin {"socket", "ssl"}
  /\ CASE next # None                            -> Expects(next, IF x \in Passwords THEN {attempt.channel} ELSE {})
       [] attempt.stage = "Ready" /\ x = "Ready" -> Finishes("connected")
       [] OTHER                                  -> AttemptFails(attempt, x = "reset")

EstablishNext == SkipAttempt \/ CreateSocket \/ ConnectSocket \/ NegotiateSSL \/ Negotiation \/ NoServersAvailable
EstablishSpec == EstablishInit /\ [][EstablishNext]_establishVars

-----------------------------------------------------------------------------
(* Properties *)

\* Types: an outcome, and an attempt that is there once there is a connection.
EstablishTypeOK ==
  /\ outcome \in {None, "connected", "failed", "raised"} /\ canSkip \in BOOLEAN
  /\ attempt \in {None} \cup Attempts
  /\ outcome = "connected" => attempt # None

\* What becomes of an attempt at a server that behaves so.
Welcomes(replies) == replies[Len(replies)] = "Ready"
Accepts(s, ssl) ==
  /\ s.up
  /\ CASE ssl = "plain" -> Welcomes(s.plain)
       [] ssl = "must"  -> s.ssl = "S" /\ s.handshake /\ Welcomes(s.secure)
       [] ssl = "try"   -> IF s.ssl = "S" THEN s.handshake /\ Welcomes(s.secure) ELSE s.ssl = "N" /\ Welcomes(s.plain)

\* Connection.security says what the channel is, and sslmode is respected: "require" sends nothing but over
\* SSL, and "disable" does not use it.
Security == IF attempt.didssl = TRUE THEN "ssl" ELSE "plain"
SecurityAsAsked ==
  /\ outcome = "connected" => Security = attempt.channel
  /\ sslmode = "require" => told \subseteq {"ssl"}
  /\ sslmode = "disable" => told \subseteq {"plain"}

\* The connection is the first attempt, in the order of sslmode, that its server accepts, and it fails only
\* when there is none: no attempt is skipped that would have succeeded.  Excused are endpoints whose socket
\* broke ("chances are that it is going to fail again").
Chosen == Try(attempt.ssl, attempt.endpoint)
Before(w) == \A i \in DOMAIN SocketFactories(sslmode) :
               SocketFactories(sslmode)[i] = w => \E j \in DOMAIN SocketFactories(sslmode) :
                 SocketFactories(sslmode)[j] = Chosen /\ i < j
FirstThatAccepts ==
  /\ outcome = "connected" => Accepts(servers[attempt.endpoint], attempt.ssl)
  /\ outcome \in {"connected", "failed"} =>
       \A e \in Endpoints \ crashed : \A ssl \in ToSet(Ways(sslmode)) :
         outcome = "failed" \/ Before(Try(ssl, e)) => ~Accepts(servers[e], ssl)

\* Both: the connection _establish() makes is the one that was asked for.
EstablishedAsAsked == SecurityAsAsked /\ FirstThatAccepts
===============================================================================
