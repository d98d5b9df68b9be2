------------------------------- MODULE MCDriver -------------------------------
(***************************************************************************)
(* Instances of the driver's parts for TLC.  The parts keep no state in    *)
(* common here, but for the streams that the DB-API reads: a behaviour     *)
(* takes one of them, and the others stay as they are.                     *)
(***************************************************************************)
EXTENDS Cursors, TransactionBlocks, Streams, ALocks, Notifications, SettingsCache, Establish,
        MessageBuffers, CopyTransfer, ClusterControl, ClientParameters, DbApi, TypeResolution,
        ConfigFiles, Temporal

CONSTANT Parts    \* the parts a run takes
VARIABLE part

-----------------------------------------------------------------------------
(* Cursors *)

MCCalls ==
  [op : {"read"}, quantity : {0, 1, 2, 3, 5, All}, forward : BOOLEAN]
  \cup { c \in [op : {"seek"}, offset : -2..4 \cup {All},
                whence : {"ABSOLUTE", "RELATIVE", "FROM_END", "FORWARD", "BACKWARD"}] :
           c.whence \in {"ABSOLUTE", "FROM_END"} => c.offset = All \/ c.offset >= 0 }

-----------------------------------------------------------------------------
(* ALocks: two sessions, each with an exclusive and a shared lock *)

Lock(d, mode, ids) == [database |-> d, mode |-> mode, identifiers |-> ids]
MCALock ==
  { Lock("x", "exclusive", <<"a", "b">>), Lock("x", "share", <<"b", "a", "b">>),
    Lock("y", "exclusive", <<"b", "a">>), Lock("y", "share", <<"a">>) }

-----------------------------------------------------------------------------
(* Establish: the servers that are told apart *)

Welcome == <<"Ok", "ShowOption", "KillInformation", "Ready">>
WithPassword == <<"MD5", "Ok", "KillInformation", "Ready">>
Refusal == <<"Notice", "Cleartext", "Error">>
Server(ssl, handshake, plain, secure) ==
  [up |-> TRUE, ssl |-> ssl, handshake |-> handshake, plain |-> plain, secure |-> secure]
MCServers ==
  { [Server("N", FALSE, <<>>, <<>>) EXCEPT !.up = FALSE],
    Server("N", FALSE, WithPassword, <<>>), Server("N", FALSE, Refusal, <<>>),
    Server("S", TRUE, WithPassword, <<"Error">>), Server("S", TRUE, <<"Error">>, WithPassword),
    Server("S", TRUE, Welcome, Welcome), Server("S", FALSE, WithPassword, <<>>),
    Server("S", TRUE, <<"SSPI">>, <<"Ok", "reset">>), Server("S", TRUE, Refusal, <<"EOF">>),
    Server("S", TRUE, <<"KillInformation">>, <<"Ok", "Error">>),
    Server("other", FALSE, Welcome, <<>>), Server("reset", FALSE, Welcome, <<>>) }

-----------------------------------------------------------------------------
(* Messages: every layout, with numbers, strings and NULLs at their limits *)

Msg(t, fields) == [type |-> t, fields |-> fields]
Item(t, fields) == [class |-> "message", ob |-> Msg(t, fields)]
Raw(data) == [class |-> "bytes", ob |-> data]
Row(atts) == [class |-> "tuple", ob |-> atts]
Col == [name |-> <<3>>, relation |-> 17, number |-> -1, type |-> 255, typlen |-> -1, typmod |-> -1, format |-> 1]

MCBatches ==
  { <<Raw(<<3, 0>>), Raw(<<>>), Row(<<<<7>>, None>>), Row(<<>>), Raw([i \in 1..14 |-> 15])>>,
    <<Item("Notify", <<255, <<3>>, <<>>>>), Item("ShowOption", <<<<3>>, <<4, 5>>>>),
      Item("Complete", <<<<5>>>>), Item("ParseComplete", <<>>)>>,
    <<Item("TupleDescriptor", <<<<Col, [Col EXCEPT !.typmod = 127]>>>>), Item("Ready", <<<<9>>>>)>>,
    <<Item("Error", <<<<<<<<1>>, <<5>>>>, <<<<2>>, <<>>>>>>>>), Item("FunctionResult", <<None>>),
      Item("FunctionResult", <<<<>>>>), Item("AttributeTypes", <<<<25, 17>>>>)>>,
    <<Item("Authentication", <<5, <<1, 2>>>>), Item("KillInformation", <<255, 16>>)>>,
    <<Item("Query", <<<<>>>>), Item("Parse", <<<<2>>, <<3>>, <<25, 0>>>>),
      Item("Bind", <<<<>>, <<2>>, <<0, 1>>, <<None, <<0, 0>>>>, <<1>>>>)>>,
    <<Item("Execute", <<<<>>, 255>>), Item("Describe", <<<<5>>, <<2>>>>), Item("Close", <<<<6>>, <<2>>>>),
      Item("Synchronize", <<>>)>>,
    <<Item("Function", <<200, <<1>>, <<<<0>>>>, <<1>>>>), Item("Synchronize", <<>>)>>,
    <<Item("CopyToBegin", <<<<0>>, <<0, 1>>>>), Raw(<<1>>), Raw(<<2>>), Item("Complete", <<<<>>>>)>>,
    <<Item("CopyFail", <<<<2>>>>), Item("Synchronize", <<>>)>> }

-----------------------------------------------------------------------------
(* CopyTransfer: a short and a long row, a notification, the end and an error *)

Short == Msg("CopyData", <<<<3>>>>)
Long == Msg("CopyData", <<[i \in 1..15 |-> 3]>>)
End == Msg("Ready", <<<<>>>>)
Notification == Msg("Notify", <<1, <<>>, <<>>>>)
MCSources == { <<Short, Notification, Long, End>>, <<Notification, Long, Msg("Error", <<<<>>>>)>>, <<Long, Short, End>> }

-----------------------------------------------------------------------------
(* ClientParameters *)

Dictionary(pairs) == [k \in {p[1] : p \in pairs} |-> (CHOOSE p \in pairs : p[1] = k)[2]]
MCEnvironments ==
  { Dictionary(s) : s \in SUBSET { <<"PGHOST", "h1">>, <<"PGHOSTADDR", "h2">>, <<"PGREQUIRESSL", "1">>,
                                   <<"PGSSLMODE", "allow">>, <<"PGPASSWORD", "pe">>, <<"PGSYSCONFDIR", "etc">>,
                                   <<"PGSERVICEFILE", "alt">>, <<"PGSERVICE", "s">> } }
  \cup { Dictionary({<<"PGTZ", "cet">>}), Dictionary({<<"PGTZ", "cet">>, <<"PGSERVICEFILE", "alt">>, <<"PGSERVICE", "s">>}) }
MCBases == { Dictionary({}), Dictionary({<<"host", "hb">>, <<"database", "db">>}) }
MCServiceFiles ==
  [etc  |-> Dictionary({<<"s", <<State("hostaddr", "h3"), State("host", "h4"), State("dbname", "ds")>>>>}),
   user |-> Dictionary({<<"t", <<>>>>}),
   alt  |-> Dictionary({<<"s", <<State("timezone", "utc"), State("user", "us")>>>>})]
Asks(bracketed, key, val) == [bracketed |-> bracketed, key |-> key, value |-> val]
Iri ==
  [kind |-> "pq_iri",
   value |-> [host |-> "h5", fragment |-> "p2",
              query |-> <<Asks(TRUE, "host", "h6"), Asks(TRUE, "sslmode", "require"), Asks(FALSE, "search_path", "p1")>>]]
MCCommandLines ==
  { <<>>, <<State("prompt_password", "yes"), State("user", "uo")>>, <<Iri, State("host", "ho")>>, <<State("user", "uo"), Iri>> }
Entry(user, h, database, password) == [user |-> user, host |-> h, database |-> database, password |-> password]
MCPassFile == <<Entry("us", "h2", "*", "p1"), Entry("uo", "*", "uo", "p2"), Entry("*", "*", "db", "p3")>>

-----------------------------------------------------------------------------
(* TypeResolution: every kind of type, two of which may be altered to be others or themselves *)

Composite(cols) == [kind |-> "composite", columns |-> cols]
MCCatalog ==
  [i  |-> [kind |-> "base"], h |-> [kind |-> "base"],
   d  |-> [kind |-> "domain", base |-> "i"], dd |-> [kind |-> "domain", base |-> "d"],
   ah |-> [kind |-> "array", element |-> "h"],
   c  |-> Composite(<<"h", "dd">>), ac |-> [kind |-> "array", element |-> "c"],
   p  |-> Composite(<<"c", "ah", "c">>), r |-> [kind |-> "record"]]
MCRecordOf == <<"dd", "c">>
MCNewColumns == {<<"c", 1, "i">>, <<"c", 3, "ac">>}

-----------------------------------------------------------------------------
(* ConfigFiles: files of one or two lines *)

Line(kind, key, commented, rest) == [kind |-> kind, key |-> key, commented |-> commented, rest |-> rest]
MCLines ==
  { Line("setting", "a", c, rest) :
      c \in BOOLEAN, rest \in { <<"x">>, <<" ", "'", "x", "'", "'", "'", " ", "#", "c">>, <<"x", " ", "y">> } }
  \cup { Line("setting", "b", FALSE, <<" ", "#", "c">>), Line("nosep", "a", FALSE, <<"x">>), Line("other", None, FALSE, <<>>) }
MCFiles == UNION {[1..n -> MCLines] : n \in {1, 2}}
MCUpdates ==
  { [a |-> v] : v \in { None, <<>>, <<"'">>, <<"#", "x">>, <<"x", "'">> } } \cup { [a |-> <<"x">>, b |-> None] }

-----------------------------------------------------------------------------
(* A behaviour of one part: each of the others rests in one of its initial states *)

AtRest ==
  /\ part # "cursors" => direction = TRUE
  /\ part # "notifications" => timeout = "none"
  /\ part # "settings" => value = [k \in Keys |-> Default]
  /\ part # "establish" => sslmode = "disable" /\ servers = [e \in Endpoints |-> CHOOSE s \in Servers : ~s.up]
  /\ part # "buffers" => impl = "c" /\ batch = (CHOOSE b \in Batches : Len(b) = 3)
  /\ part # "copy" => source = (CHOOSE s \in Sources : Len(s) = 4)
  /\ part # "cluster" => pidfile = None
  /\ part # "parameters" => given = [env |-> Dictionary({}), base |-> Dictionary({}), options |-> <<>>]
  /\ part # "config" => file = <<Line("other", None, FALSE, <<>>)>>
  /\ part # "temporal" => bound = [k \in Builtins |-> None]

DriverInit ==
  /\ part \in Parts /\ AtRest
  /\ ParamInit /\ CursorInit /\ BlocksInit /\ LocksInit /\ NotifyInit /\ SettingsInit
  /\ EstablishInit /\ BufferInit /\ CopyInit /\ ClusterInit /\ TypesInit /\ ConfigInit /\ TemporalInit
  /\ IF part = "dbapi" THEN DbApiInit ELSE DbApiRest /\ _xact = "initialized" /\ StreamsInit

DriverNext ==
  /\ UNCHANGED part
  /\ IF part = "cursors"       THEN CursorNext    ELSE UNCHANGED cursorVars
  /\ IF part = "blocks"        THEN BlocksNext    ELSE UNCHANGED blockVars
  /\ IF part = "dbapi"         THEN DbApiNext     ELSE UNCHANGED <<connVars, fetchVars>>
  /\ IF part = "streams"       THEN StreamsNext   ELSE IF part = "dbapi" THEN TRUE ELSE UNCHANGED streamVars
  /\ IF part = "alocks"        THEN LocksNext     ELSE UNCHANGED lockVars
  /\ IF part = "notifications" THEN NotifyNext    ELSE UNCHANGED notifyVars
  /\ IF part = "settings"      THEN SettingsNext  ELSE UNCHANGED setVars
  /\ IF part = "establish"     THEN EstablishNext ELSE UNCHANGED establishVars
  /\ IF part = "buffers"       THEN BufferNext    ELSE UNCHANGED bufferVars
  /\ IF part = "copy"          THEN CopyNext      ELSE UNCHANGED copyVars
  /\ IF part = "cluster"       THEN ClusterNext   ELSE UNCHANGED clusterVars
  /\ IF part = "parameters"    THEN ParamNext     ELSE UNCHANGED paramVars
  /\ IF part = "types"         THEN TypesNext     ELSE UNCHANGED typeVars
  /\ IF part = "config"        THEN ConfigNext    ELSE UNCHANGED configVars
  /\ IF part = "temporal"      THEN TemporalNext  ELSE UNCHANGED temporalVars

DriverVars ==
  <<part, cursorVars, blockVars, streamVars, lockVars, notifyVars, setVars, establishVars, bufferVars, copyVars,
    clusterVars, paramVars, connVars, fetchVars, typeVars, configVars, temporalVars>>

DriverSpec == DriverInit /\ [][DriverNext]_DriverVars

\* The state of every part of the driver has its type.
DriverTypeOK ==
  /\ CursorTypeOK /\ BlocksTypeOK /\ StreamsTypeOK /\ LocksTypeOK /\ NotifyTypeOK /\ SettingsTypeOK
  /\ EstablishTypeOK /\ BufferTypeOK /\ CopyTypeOK /\ ClusterTypeOK /\ ParamTypeOK
  /\ DbApiTypeOK /\ TypesTypeOK /\ ConfigTypeOK /\ TemporalTypeOK
===============================================================================
