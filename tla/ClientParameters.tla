---------------------------- MODULE ClientParameters ----------------------------
(***************************************************************************)
(* clientparameters.collect(): defaults, base parameters, the environment  *)
(* and the command line are chained; extrapolate() expands services and    *)
(* locators where they stand, with the configuration that was stated       *)
(* before them; normalize() keeps what is stated last; and the password    *)
(* is resolved for the result.                                             *)
(***************************************************************************)
EXTENDS Common, Naturals, Sequences, FiniteSets, SequencesExt

CONSTANTS
  Environments,   \* environment variables that are set: functions from their names
  Bases,          \* collect(parameters = ...): functions from keys
  CommandLines,   \* options in their order: [key, value], or a locator
  ServiceFiles,   \* service file -> service -> entries, in their order
  UserFile,       \* ~/.pg_service.conf
  PassFile        \* lines [user, host, database, password]; the port goes the way of the host

VARIABLES
  given,          \* the environment, the base parameters and the options
  items,          \* what the chain of generators has still to yield
  config,         \* the configuration of extrapolate()
  rd,             \* the dictionary of normalize()
  status         \* None, "normalized", "collected" or an exception
paramVars == <<given, items, config, rd, status>>

\* What there is in a dictionary, or None.
ValueOf(f, k) == IF k \in DOMAIN f THEN f[k] ELSE None
With(f, k, v) == [x \in DOMAIN f \cup {k} |-> IF x = k THEN v ELSE f[x]]
Without(f, ks) == [x \in DOMAIN f \ ks |-> f[x]]
State(k, v) == [kind |-> "parameter", key |-> k, value |-> v]
Configure(k, v) == [kind |-> "config", key |-> k, value |-> v]
Pairs(f, order) == LET there == SelectSeq(order, LAMBDA k : k \in DOMAIN f) IN
                   [i \in DOMAIN there |-> State(there[i], f[there[i]])]

-----------------------------------------------------------------------------
(* The sources *)

Defaults == <<State("user", "me"), State("host", "localhost"), State("pgpassfile", "~/.pgpass")>>

ParameterKeys == <<"user", "host", "unix", "database", "sslmode", "password", "prompt_password", "search_path", "timezone">>

\* envvars(): PGTZ and its like are looked up and not yielded; PGREQUIRESSL yields a pair where sslmode is a word.
EnvVars(env) ==
  LET one(var, item) == IF var \in DOMAIN env THEN <<item>> ELSE <<>>
      plain(var, key) == one(var, State(key, ValueOf(env, var))) IN
  one("PGREQUIRESSL", State("sslmode", "(require, PGREQUIRESSL=1)"))
    \o plain("PGUSER", "user") \o plain("PGHOST", "host") \o plain("PGPASSWORD", "password")
    \o plain("PGSSLMODE", "sslmode") \o plain("PGHOSTADDR", "host")
    \o one("PGSYSCONFDIR", Configure("pg_sysconfdir", ValueOf(env, "PGSYSCONFDIR")))
    \o one("PGSERVICEFILE", Configure("pg_service_file", ValueOf(env, "PGSERVICEFILE")))
    \o one("PGSERVICE", [kind |-> "pg_service", value |-> ValueOf(env, "PGSERVICE")])

\* iri.structure(): [key]=value states a parameter that the locator has not named; the fragment is the search path.
Structure(iri) ==
  LET named == [k \in {k \in {"user", "password", "host", "unix", "database"} : ValueOf(iri, k) # None} |-> iri[k]]
      both == FoldLeft(LAMBDA d, q : IF q.bracketed /\ q.key \in DOMAIN d THEN d ELSE With(d, q.key, q.value), named, iri.query) IN
  IF iri.fragment = None THEN both ELSE With(both, "search_path", iri.fragment)

-----------------------------------------------------------------------------
(* extrapolate() and normalize() *)

ParamInit ==
  /\ \E env \in Environments, base \in Bases, options \in CommandLines :
       /\ given = [env |-> env, base |-> base, options |-> options]
       /\ items = Defaults \o Pairs(base, ParameterKeys) \o EnvVars(env) \o options
  /\ config = [k \in {} |-> None] /\ rd = [k \in {} |-> None] /\ status = None

Yielded(kind) == status = None /\ items # <<>> /\ items[1].kind = kind

ConfigItem ==
  /\ Yielded("config") /\ config' = With(config, items[1].key, items[1].value) /\ items' = Tail(items)
  /\ UNCHANGED <<given, rd, status>>
Parameter ==
  /\ Yielded("parameter") /\ rd' = With(rd, items[1].key, items[1].value) /\ items' = Tail(items)
  /\ UNCHANGED <<given, config, status>>
Locator ==
  /\ Yielded("pq_iri") /\ items' = Pairs(Structure(items[1].value), ParameterKeys) \o Tail(items)
  /\ UNCHANGED <<given, config, rd, status>>

\* x_pg_service(): the first file that has the service.
\* The system's file before the user's.
FilesToReadSystemFirst(c) ==
  SelectSeq(<<ValueOf(c, "pg_sysconfdir"), IF ValueOf(c, "pg_service_file") # None THEN c["pg_service_file"] ELSE UserFile>>,
            LAMBDA f : f \in DOMAIN ServiceFiles)
FilesToRead(c) ==
  SelectSeq(<<IF ValueOf(c, "pg_service_file") # None THEN c["pg_service_file"] ELSE UserFile, ValueOf(c, "pg_sysconfdir")>>,
            LAMBDA f : f \in DOMAIN ServiceFiles)
Renamed(k) == CASE k = "hostaddr" -> "host" [] k = "dbname" -> "database" [] OTHER -> k
PgService ==
  /\ Yielded("pg_service")
  /\ LET has == SelectSeq(FilesToRead(config), LAMBDA f : items[1].value \in DOMAIN ServiceFiles[f]) IN
     IF has = <<>> THEN status' = "ServiceDoesNotExistError" /\ items' = <<>>
     ELSE LET entries == ServiceFiles[has[1]][items[1].value] IN
          /\ items' = [i \in DOMAIN entries |-> State(Renamed(entries[i].key), entries[i].value)] \o Tail(items)
          /\ UNCHANGED status
  /\ UNCHANGED <<given, config, rd>>

-----------------------------------------------------------------------------
(* resolve_password() and pgpassfile.lookup_pgpass() *)

Matches(line, d) ==
  /\ line.user \in {"*", ValueOf(d, "user")} /\ line.host \in {"*", ValueOf(d, "host")}
  /\ line.database \in {"*", IF ValueOf(d, "database") # None THEN d["database"] ELSE ValueOf(d, "user")}
LookupPgpass(d) == LET found == SelectSeq(PassFile, LAMBDA line : Matches(line, d)) IN
                   IF found = <<>> THEN None ELSE found[1].password

ResolvePassword ==
  /\ status = None /\ items = <<>>
  /\ rd' = LET d == Without(rd, {"prompt_password", "pgpassfile"}) IN
           IF ValueOf(rd, "prompt_password") = "yes" THEN With(d, "password", "typed")
           ELSE IF ValueOf(rd, "password") = None THEN With(d, "password", LookupPgpass(d)) ELSE d
  /\ status' = "collected"
  /\ UNCHANGED <<given, items, config>>

ParamNext == ConfigItem \/ Parameter \/ Locator \/ PgService \/ ResolvePassword
ParamSpec == ParamInit /\ [][ParamNext]_paramVars

-----------------------------------------------------------------------------
(* Properties *)

\* Types: collect() has returned or raised, and the configuration knows its two items.
ParamTypeOK == status \in {None, "collected", "ServiceDoesNotExistError"} /\ DOMAIN config \subseteq {"pg_sysconfdir", "pg_service_file"}

\* The value a list of statements gives to a key: its last.
Says(statements, k) ==
  LET of == SelectSeq(statements, LAMBDA s : s.key = k) IN IF of = <<>> THEN None ELSE of[Len(of)].value
FirstOf(values) == LET there == SelectSeq(values, LAMBDA v : v # None) IN IF there = <<>> THEN None ELSE there[1]

\* What each source says of a key, the environment by the docstring of envvars().
OptionSays(k) ==
  Says(FlattenSeq([i \in DOMAIN given.options |->
         IF given.options[i].kind = "parameter" THEN <<given.options[i]>> ELSE Pairs(Structure(given.options[i].value), ParameterKeys)]), k)
ServiceSays(k) ==
  IF "PGSERVICE" \notin DOMAIN given.env THEN None
  ELSE LET own == IF "PGSERVICEFILE" \in DOMAIN given.env THEN given.env["PGSERVICEFILE"] ELSE UserFile
           has(f) == f \in DOMAIN ServiceFiles /\ given.env["PGSERVICE"] \in DOMAIN ServiceFiles[f]
           entries == ServiceFiles[IF has(own) THEN own ELSE given.env["PGSYSCONFDIR"]][given.env["PGSERVICE"]] IN
       Says([i \in DOMAIN entries |-> State(Renamed(entries[i].key), entries[i].value)], k)
EnvSays(k) ==
  LET e(var) == ValueOf(given.env, var) IN
  CASE k = "host" -> FirstOf(<<e("PGHOSTADDR"), e("PGHOST")>>)
    [] k = "user" -> e("PGUSER")
    [] k = "password" -> e("PGPASSWORD")
    [] k = "sslmode" -> FirstOf(<<e("PGSSLMODE"), IF e("PGREQUIRESSL") = None THEN None ELSE "require">>)
    [] k = "timezone" -> e("PGTZ")
    [] OTHER -> None
Strongest(k) == FirstOf(<<OptionSays(k), ServiceSays(k), EnvSays(k), ValueOf(given.base, k), Says(Defaults, k)>>)
KnownKeys == {ParameterKeys[i] : i \in DOMAIN ParameterKeys}

\* The environment decides a key, by a variable that envvars() handles otherwise than its docstring says: it makes a
\* pair of PGREQUIRESSL=1 (190-192, against 171), and does not yield the list that has PGTZ (204-206, against 177).
Misread(k) ==
  /\ OptionSays(k) = None /\ ServiceSays(k) = None /\ EnvSays(k) # None
  /\ k = "timezone" \/ (k = "sslmode" /\ "PGSSLMODE" \notin DOMAIN given.env)

\* Each parameter is what the strongest source says: the command line, then the service, the environment, the base
\* parameters, the defaults - but for PGREQUIRESSL and PGTZ, see Misread; and a password no source states is the one the password file has for just these values.
StrongestSourceWins ==
  status = "collected" =>
    /\ \A k \in KnownKeys \ {"password", "prompt_password"} : Misread(k) \/ ValueOf(rd, k) = Strongest(k)
    /\ ValueOf(rd, "password") = IF Strongest("prompt_password") = "yes" THEN "typed"
                            ELSE FirstOf(<<Strongest("password"), LookupPgpass([k \in KnownKeys |-> Strongest(k)])>>)
    /\ {"pgpassfile", "prompt_password"} \cap DOMAIN rd = {}
===============================================================================
