------------------------------ MODULE WriteLog ------------------------------
(***************************************************************************)
(* The docs of the SQLite store and the log of its writes                  *)
(* (common/sqlite-store.ts): every insert, update, upsert and removal goes *)
(* through wrote, which keeps the last writes so that changesSince can     *)
(* tell a reader what was written since it last asked.                     *)
(*                                                                         *)
(* A doc is its parent and the number of the write it is from.             *)
(***************************************************************************)
EXTENDS Integers, FiniteSets, Functions

CONSTANTS
  Ids,        \* the docs' ids
  Parents,    \* what a doc's parentId may be
  WritesKept, \* WRITES_KEPT
  MaxVersion  \* bound: writes

ASSUME WritesKeptAssumption == WritesKept \in Nat \ {0}
ASSUME IdsAssumption == IsFiniteSet(Ids)

VARIABLES
  docs,      \* the rows: a doc by its id
  version,   \* how many writes were logged
  writes,    \* the ones kept, by their versions
  lastWrite, \* history: the version of each id's last write, 0 none
  undone     \* history: the docs whose last write is a removal rolled back

storeVars == <<docs, version, writes, lastWrite, undone>>

Doc == [parent : Parents, v : Nat]
Write == [id : Ids, removed : BOOLEAN]

StoreTypeOK ==
  /\ DOMAIN docs \subseteq Ids /\ docs \in [DOMAIN docs -> Doc]
  /\ version \in Nat
  /\ lastWrite \in [Ids -> 0..version]
  /\ \E n \in 0..version : writes \in [n + 1..version -> Write]
  /\ undone \subseteq DOMAIN docs

\* A store is opened with the docs it has on disk, and no write logged.
StoreInit ==
  /\ \E ids \in SUBSET Ids : docs \in [ids -> [parent : Parents, v : {0}]]
  /\ version = 0
  /\ writes = [n \in {} |-> 0]
  /\ lastWrite = [id \in Ids |-> 0]
  /\ undone = {}

\* How many writes are kept of n once k more are logged: each that makes them
\* more than twice WRITES_KEPT leaves the last WRITES_KEPT.
Kept(n, k) ==
  IF n + k <= 2 * WritesKept THEN n + k
  ELSE WritesKept + ((n + k - 2 * WritesKept - 1) % (WritesKept + 1))

\* wrote, for each of the ids, in the order given and each once.
Wrote(order, removed) ==
  LET k == Cardinality(DOMAIN order)
      kept == Kept(Cardinality(DOMAIN writes), k)
  IN
  /\ version' = version + k
  /\ writes' = [n \in version + k - kept + 1..version + k |->
                  IF n <= version THEN writes[n]
                  ELSE [id |-> order[n - version], removed |-> removed]]
  /\ lastWrite' = [id \in Ids |-> IF \E i \in DOMAIN order : order[i] = id
                     THEN version + (CHOOSE i \in DOMAIN order : order[i] = id)
                     ELSE lastWrite[id]]

-----------------------------------------------------------------------------
\* insert, update or upsert: the row is put in the place of the id's.
Put(id, parent) ==
  /\ version < MaxVersion
  /\ docs' = [i \in DOMAIN docs \cup {id} |->
                IF i = id THEN [parent |-> parent, v |-> version + 1] ELSE docs[i]]
  /\ undone' = undone \ {id}
  /\ Wrote(<<id>>, FALSE)

\* A write that is logged and changes nothing: an update of a row that is gone,
\* or one rolled back with its transaction.
PutInVain(id) ==
  /\ version < MaxVersion
  /\ UNCHANGED docs
  /\ undone' = undone \ {id}
  /\ Wrote(<<id>>, FALSE)

\* removeByIds, of ids that are there or gone.
RemoveByIds(order) ==
  /\ IsInjective(order)
  /\ version + Cardinality(DOMAIN order) <= MaxVersion
  /\ docs' = [i \in DOMAIN docs \ Range(order) |-> docs[i]]
  /\ undone' = undone \ Range(order)
  /\ Wrote(order, TRUE)

\* removeByIds as the last of a transaction whose COMMIT throws: it is rolled back
\* and the docs are there again, but the log says they were removed.
RemoveInVain(order) ==
  /\ IsInjective(order)
  /\ version + Cardinality(DOMAIN order) <= MaxVersion
  /\ UNCHANGED docs
  /\ undone' = undone \cup (DOMAIN docs \cap Range(order))
  /\ Wrote(order, TRUE)

-----------------------------------------------------------------------------
\* Whether changesSince can tell what was written since a version (its mutant:
\* off by one).
CanTellOneMore(since) == since >= version - Cardinality(DOMAIN writes) - 1
CanTell(since) == since >= version - Cardinality(DOMAIN writes)

\* changesSince: the last write of each id written since.
ChangesSince(since) ==
  {writes[n] : n \in {n \in DOMAIN writes :
                        n > since /\ \A m \in DOMAIN writes : m > n => writes[m].id # writes[n].id}}

\* When it can be told, it is told exactly: each id written since, once, and with
\* no doc left of one told removed, unless its removal was the last that was
\* written of it and was rolled back.
LogTellsAll ==
  \A since \in 0..version : CanTell(since) =>
    /\ {w.id : w \in ChangesSince(since)} = {id \in Ids : lastWrite[id] > since}
    /\ \A w \in ChangesSince(since) : w.removed => w.id \notin DOMAIN docs \ undone
    /\ \A w, x \in ChangesSince(since) : w.id = x.id => w = x
=============================================================================
