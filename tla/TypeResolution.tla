----------------------------- MODULE TypeResolution -----------------------------
(***************************************************************************)
(* TypeIO of driver/pq3.py: the routines that read and write the values of *)
(* a type, resolved from the catalogs through domains, arrays and          *)
(* composites, cached for the life of the connection, and overridden by    *)
(* identify().  A routine is a record that says what it takes its data for.*)
(***************************************************************************)
EXTENDS Common, Integers, Sequences, FiniteSets, SequencesExt

CONSTANTS
  Builtin,      \* types with routines in types.io
  Catalog,      \* pg_type at the beginning: each type's definition
  RecordOf,     \* the types of the columns of an anonymous record
  NewColumns,   \* bound: what ALTER TYPE may do: <<composite, column, type>>
  Identified    \* types that identify() may be given a routine of types.io for

VARIABLES
  catalog,      \* pg_type now
  typcache,     \* TypeIO._cache
  outdated,     \* cached types that were altered, or identified, or have parts that were
  lastRead       \* of the last value read, or type refused

typeVars == <<catalog, typcache, outdated, lastRead>>

Strio == [kind |-> "text"]
BuiltinIo(t) == [kind |-> "builtin", of |-> t]

TypesInit ==
  /\ catalog = Catalog
  /\ typcache = << >>
  /\ outdated = {}
  /\ lastRead = None

InCatalog(t) == t \in DOMAIN catalog
RECURSIVE DomainBase(_)
DomainBase(t) == IF catalog[t].kind = "domain" THEN DomainBase(catalog[t].base) ELSE t

-----------------------------------------------------------------------------
(* TypeIO.resolve(): the routine or the error, and the cache it leaves *)

Put(cache, t, io) == [io |-> io, cache |-> (t :> io) @@ cache]
Refused(cache) == [io |-> None, cache |-> cache]

\* The types being resolved around a column, after another column: each gets a copy of the list.  One list for all:
AroundShared(from, column) == Append(from, column)
Around(from, column) == from

RECURSIVE Resolve(_, _, _), Columns(_, _, _, _)
\* The routines of the columns from the i-th on, as a sequence, or None.
Columns(cols, i, from, cache) ==
  IF i > Len(cols) THEN [io |-> <<>>, cache |-> cache]
  ELSE LET one == Resolve(DomainBase(cols[i]), from, cache) IN
       IF one.io = None THEN one
       ELSE LET rest == Columns(cols, i + 1, Around(from, cols[i]), one.cache) IN
            IF rest.io = None THEN rest ELSE [io |-> <<one.io>> \o rest.io, cache |-> rest.cache]

Resolve(t, from, cache) ==
  IF t \in ToSet(from) THEN Refused(cache)
  ELSE IF t \in DOMAIN cache THEN [io |-> cache[t], cache |-> cache]
  ELSE IF t \in Builtin THEN Put(cache, t, BuiltinIo(t))
  ELSE IF ~InCatalog(t) THEN [io |-> Strio, cache |-> cache]
  ELSE CASE catalog[t].kind = "composite" ->
              LET cols == Columns(catalog[t].columns, 1, Append(from, t), cache) IN
              IF cols.io = None THEN cols ELSE Put(cols.cache, t, [kind |-> "record", columns |-> cols.io])
         [] catalog[t].kind = "array" ->
              LET element == Resolve(catalog[t].element, Append(from, t), cache) IN
              IF element.io = None THEN element ELSE Put(element.cache, t, [kind |-> "array", element |-> element.io])
         [] catalog[t].kind = "domain" ->
              LET base == Resolve(DomainBase(t), Append(from, t), cache) IN
              IF base.io = None THEN base ELSE Put(base.cache, t, base.io)
         [] catalog[t].kind = "record" -> Put(cache, t, [kind |-> "anonymous"])
         [] catalog[t].kind = "base" -> Put(cache, t, Strio)

-----------------------------------------------------------------------------
(* A value as the server sends it now, unpacked by a routine *)

\* Each leaf of the value with the routine that read it; None is the error of a row whose columns are not as
\* many as the routine's.
RECURSIVE Unpacked(_, _)
Unpacked(io, u) ==
  LET t == DomainBase(u) IN
  CASE io.kind = "record" /\ catalog[t].kind = "composite" ->
         IF Len(io.columns) # Len(catalog[t].columns) THEN None
         ELSE LET parts == {Unpacked(io.columns[i], catalog[t].columns[i]) : i \in DOMAIN io.columns} IN
              IF None \in parts THEN None ELSE UNION parts
    [] io.kind = "array" /\ catalog[t].kind = "array" -> Unpacked(io.element, catalog[t].element)
    [] OTHER -> {<<t, io>>}

\* _unpack_record resolves the types named in the data, one after the other.
RECURSIVE UnpackedRecord(_, _)
UnpackedRecord(types, cache) ==
  IF types = <<>> THEN [taken |-> {}, cache |-> cache]
  ELSE LET one == Resolve(types[1], <<>>, cache)
           rest == UnpackedRecord(Tail(types), one.cache)
           taken == IF one.io = None THEN None ELSE Unpacked(one.io, types[1]) IN
       [taken |-> IF taken = None \/ rest.taken = None THEN None ELSE taken \cup rest.taken,
        cache |-> IF one.io = None THEN one.cache ELSE rest.cache]

\* The types a routine of t depends on.
RECURSIVE Reaches(_, _)
Reaches(ts, n) ==
  IF n = 0 THEN ts
  ELSE Reaches(ts \cup UNION {
         CASE catalog[t].kind = "composite" -> ToSet(catalog[t].columns)
           [] catalog[t].kind = "array"     -> {catalog[t].element}
           [] catalog[t].kind = "domain"    -> {catalog[t].base}
           [] catalog[t].kind = "record"    -> ToSet(RecordOf)
           [] catalog[t].kind = "base"      -> {} : t \in {u \in ts : InCatalog(u)}}, n - 1)
Uses(t) == Reaches({t}, Cardinality(DOMAIN catalog))
Users(t) == {u \in DOMAIN typcache : t \in Uses(u)}

\* A statement that returns the type is prepared, and a value read.
ReadValue(t) ==
  LET r == Resolve(t, <<>>, typcache)
      value == IF r.io = None THEN [taken |-> None, cache |-> r.cache]
               ELSE IF r.io.kind = "anonymous" THEN UnpackedRecord(RecordOf, r.cache)
               ELSE [taken |-> Unpacked(r.io, t), cache |-> r.cache] IN
  /\ typcache' = value.cache
  /\ outdated' = outdated \cup {u \in DOMAIN value.cache \ DOMAIN typcache : Uses(u) \cap outdated # {}}
  /\ lastRead' = [type |-> t, refused |-> r.io = None, stale |-> Uses(t) \cap outdated # {},
                  right |-> value.taken = None \/ \A leaf \in value.taken : leaf[2] = value.cache[leaf[1]]]
  /\ UNCHANGED catalog

-----------------------------------------------------------------------------
(* What changes what is cached *)

\* identify(): the entry of the type only.
Identify(t) ==
  /\ typcache' = (t :> BuiltinIo(t)) @@ typcache
  /\ outdated' = outdated \cup (Users(t) \ {t})
  /\ UNCHANGED <<catalog, lastRead>>

\* ALTER TYPE of some session: a column is added, or its type changed.
AlterType(t, i, new) ==
  /\ catalog[t].kind = "composite" /\ i <= Len(catalog[t].columns) + 1
  /\ \A j \in DOMAIN catalog[t].columns : catalog[t].columns[j] # new
  /\ catalog' = [catalog EXCEPT ![t].columns = IF i > Len(@) THEN Append(@, new) ELSE [@ EXCEPT ![i] = new]]
  /\ outdated' = outdated \cup Users(t)
  /\ lastRead' = None
  /\ UNCHANGED typcache

TypesNext ==
  \/ \E t \in DOMAIN Catalog : ReadValue(t)
  \/ \E t \in Identified : Identify(t)
  \/ \E a \in NewColumns : AlterType(a[1], a[2], a[3])

TypesSpec == TypesInit /\ [][TypesNext]_typeVars

-----------------------------------------------------------------------------
(* Properties *)

\* Types: the cache is of types of the catalog.
TypesTypeOK == DOMAIN typcache \subseteq DOMAIN Catalog /\ outdated \subseteq DOMAIN Catalog

\* The cache holds whole routines: what a cached type is made of is taken for what resolving it anew, with
\* an empty cache but for what was identified, would take it for, unless it changed after it was cached.
CacheWhole ==
  \A t \in DOMAIN typcache \ outdated :
    LET anew == Resolve(t, <<>>, [u \in Identified \cap DOMAIN typcache |-> typcache[u]]) IN anew.io = typcache[t]

\* A type is refused only if it contains itself.
RefusedIfRecursive ==
  lastRead # None /\ lastRead.refused =>
    \E t \in Uses(lastRead.type) : \E u \in Reaches({t}, 1) \ {t} : t \in Uses(u)

\* A value is read by the routines of the types it is made of, or an error is raised, unless they changed.
ReadRight == lastRead # None => lastRead.right \/ lastRead.stale

\* A value of any type the catalog knows is read as what it is, if what it is made of did not change since.
TypesUnderstood == CacheWhole /\ ReadRight /\ RefusedIfRecursive
===============================================================================
