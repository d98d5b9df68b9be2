------------------------------ MODULE SettingsCache ------------------------------
(***************************************************************************)
(* Settings and SettingsCM of driver/pq3.py: the client's cache of the     *)
(* session's parameters, the server's reports of those it reports, and     *)
(* "with db.settings(...)" blocks in and around transactions, whose end    *)
(* may undo what was set.                                                  *)
(***************************************************************************)
EXTENDS Common, Integers, Sequences

CONSTANTS
  Keys,       \* parameters
  Reported,   \* those the server reports when they change (ShowOption)
  Values,     \* what they may be set to
  MaxBlocks   \* bound: nested "with db.settings(...)" blocks

ASSUME SettingsAssumption == Reported \subseteq Keys /\ Values # {} /\ MaxBlocks \in Nat

VARIABLES
  value,      \* the session's parameters
  tx,         \* "I", "T", "E"
  before,     \* the parameters when the transaction began
  cache,      \* Settings.cache: None where there is no entry
  blocks,     \* SettingsCM: stored_settings of the blocks entered, and the real values then
  untold,     \* parameters the server changed without telling
  amiss       \* a block was left without an error and did not restore a parameter

setVars == <<value, tx, before, cache, blocks, untold, amiss>>

Default == CHOOSE v \in Values : TRUE

SettingsInit ==
  /\ value \in [Keys -> Values] /\ before = value
  /\ tx = "I" /\ blocks = <<>> /\ untold = {} /\ amiss = FALSE
  /\ cache = [k \in Keys |-> IF k \in Reported THEN value[k] ELSE None]   \* reported at the start of the session

\* The server sets parameters; _notify() stores what it reports, and the caller what it was told in return.
Sets(new, told) ==
  /\ value' = new
  /\ cache' = [k \in Keys |-> IF k \in told \/ (k \in Reported /\ new[k] # value[k]) THEN new[k] ELSE cache[k]]
  /\ untold' = (untold \ told) \cup {k \in Keys \ (Reported \cup told) : new[k] # value[k]}

\* A statement in a failed transaction raises and changes nothing.
Raises == UNCHANGED <<value, cache, untold>>

-----------------------------------------------------------------------------
(* Settings *)

SetItem(k, v) ==
  /\ IF cache[k] = v \/ tx = "E" THEN Raises ELSE Sets([value EXCEPT ![k] = v], {k})
  /\ UNCHANGED <<tx, before, blocks, amiss>>

\* The entry kept.
DelItemKept(k) ==
  /\ tx # "E"
  /\ value' = [value EXCEPT ![k] = Default]
  /\ untold' = untold \ {k}
  /\ UNCHANGED <<cache, tx, before, blocks, amiss>>
\* RESET, and then the entry is dropped.
DelItem(k) ==
  /\ tx # "E"
  /\ value' = [value EXCEPT ![k] = Default]
  /\ cache' = [cache EXCEPT ![k] = None]
  /\ untold' = untold \ {k}
  /\ UNCHANGED <<tx, before, blocks, amiss>>

\* getset(): entries of the cache, the others asked for and stored; get() is the same for one.
Known(c) == [k \in Keys |-> IF c[k] = None THEN value[k] ELSE c[k]]
Get(k) ==
  /\ tx # "E"
  /\ cache' = [cache EXCEPT ![k] = Known(cache)[k]]
  /\ UNCHANGED <<value, tx, before, blocks, untold, amiss>>

Merge(f, g) == [k \in Keys |-> IF k \in DOMAIN g THEN g[k] ELSE f[k]]

\* SettingsCM.__enter__: getset(), update().
EnterSettings(d) ==
  /\ Len(blocks) < MaxBlocks /\ tx # "E"
  /\ blocks' = Append(blocks, [stored |-> [k \in DOMAIN d |-> Known(cache)[k]],
                               real |-> [k \in DOMAIN d |-> value[k]], sure |-> DOMAIN d \cap untold = {}])
  /\ Sets(Merge(value, d), DOMAIN d)
  /\ UNCHANGED <<tx, before, amiss>>

\* SettingsCM.__exit__: update(stored_settings), whatever ended the block.
ExitSettings ==
  /\ blocks # <<>>
  /\ LET b == blocks[Len(blocks)] IN
       IF tx = "E" THEN Raises /\ UNCHANGED amiss
       ELSE /\ Sets(Merge(value, b.stored), DOMAIN b.stored)
            /\ amiss' = (amiss \/ (b.sure /\ \E k \in DOMAIN b.real : value'[k] # b.real[k]))
  /\ blocks' = SubSeq(blocks, 1, Len(blocks) - 1)
  /\ UNCHANGED <<tx, before>>

-----------------------------------------------------------------------------
(* The application's own SQL *)

\* SET, or a function that sets: only a report tells the client.
SqlSet(k, v) ==
  /\ tx # "E" /\ Sets([value EXCEPT ![k] = v], {})
  /\ UNCHANGED <<tx, before, blocks, amiss>>

Begin == tx = "I" /\ tx' = "T" /\ before' = value /\ UNCHANGED <<value, cache, blocks, untold, amiss>>
Fails == tx = "T" /\ tx' = "E" /\ UNCHANGED <<value, before, cache, blocks, untold, amiss>>
TransactionEnds ==
  /\ tx # "I" /\ tx' = "I"
  /\ \/ tx = "T" /\ UNCHANGED <<value, cache, untold>>      \* COMMIT
     \/ Sets(before, {})                                    \* what was set is undone
  /\ UNCHANGED <<before, blocks, amiss>>

SettingsNext ==
  \/ \E k \in Keys : DelItem(k) \/ Get(k) \/ \E v \in Values : SetItem(k, v) \/ SqlSet(k, v)
  \/ \E ks \in (SUBSET Keys) \ {{}} : \E d \in [ks -> Values] : EnterSettings(d)
  \/ ExitSettings \/ Begin \/ Fails \/ TransactionEnds

SettingsSpec == SettingsInit /\ [][SettingsNext]_setVars

-----------------------------------------------------------------------------
(* Properties *)

\* Types: the parameters, the cache and the nesting of blocks.
SettingsTypeOK ==
  /\ value \in [Keys -> Values] /\ before \in [Keys -> Values] /\ tx \in {"I", "T", "E"}
  /\ cache \in [Keys -> Values \cup {None}] /\ Len(blocks) \in 0..MaxBlocks

\* The cache, by which settings[k] = v decides that there is nothing to do, has the session's value of
\* every parameter the server reports, and of the others until SQL or the end of a transaction changes
\* them; and a "with db.settings(...)" block that ends puts back what it found.
CacheTruthful ==
  /\ \A k \in Keys \ untold : cache[k] \in {None, value[k]}
  /\ ~amiss
===============================================================================
