------------------------- MODULE WindowLoads_proofs -------------------------
(***************************************************************************)
(* Proofs about what a window loads: the write log (WriteLog), the loads   *)
(* of a collection that read it (CollectionReader), and when a change in   *)
(* the database makes the window load anew (Revalidation).  What           *)
(* changesSince can tell it tells exactly, what a load gives is what       *)
(* reading it all would give, and a change the window is told of is read.  *)
(*                                                                         *)
(* LogTellsAll is not inductive: it says nothing of entries older than     *)
(* every `since` it can answer, nor ties the last entry of an id to its    *)
(* doc.  LogInv says that the log holds, among the versions it keeps, each *)
(* id's last write where lastWrite says, and nothing of an id later than   *)
(* that.                                                                   *)
(*                                                                         *)
(* GivesWhatReadingItAllGives is about what a read came to, and the store  *)
(* may be written between any two of its queries.  ReadInv says, of every  *)
(* read and at each of a load's steps, which of its docs are those of the  *)
(* database, but for what was written since the read's stamp: that much    *)
(* the next load is told of.                                               *)
(*                                                                         *)
(* NothingMissed says nothing of why the wait for an idle window ends with *)
(* the change read.  Reading does: once a load has begun since, what the   *)
(* window was told of is read, or a load that reads it is under way, or an *)
(* action still to settle brings one, or what loads loads nothing and the  *)
(* window will know it did not.  A load of every route drops the older     *)
(* ones, which must have read no more than it did: ReadInOrder.  And an    *)
(* action that is refused loads nothing, which is why NothingMissed needs  *)
(* it alone (Submitting).                                                  *)
(***************************************************************************)
EXTENDS CollectionReader, Revalidation, FiniteSetTheorems, TLAPS

LogInv ==
  /\ DOMAIN docs \subseteq Ids
  /\ version \in Nat
  /\ lastWrite \in [Ids -> 0..version]
  /\ \E n \in 0..version : writes \in [n + 1..version -> Write]
  /\ \A n \in DOMAIN writes : lastWrite[writes[n].id] >= n
  /\ \A id \in Ids : lastWrite[id] \in DOMAIN writes =>
       /\ writes[lastWrite[id]].id = id
       /\ writes[lastWrite[id]].removed => id \notin DOMAIN docs \ undone
  /\ undone \subseteq DOMAIN docs

\* Of n entries and k more, a number of the last are kept that is among them.
LEMMA KeptType ==
  ASSUME NEW n \in Nat, NEW k \in Nat
  PROVE  Kept(n, k) \in 0..n + k
<1>1. CASE n + k <= 2 * WritesKept
  BY <1>1, WritesKeptAssumption DEF Kept
<1>2. CASE ~(n + k <= 2 * WritesKept)
  <2> DEFINE q == n + k - 2 * WritesKept - 1
  <2>1. q \in Nat /\ WritesKept + 1 \in Nat \ {0}
    BY <1>2, WritesKeptAssumption
  <2>2. q % (WritesKept + 1) \in 0..WritesKept
    BY <2>1, WritesKeptAssumption
  <2>3. Kept(n, k) = WritesKept + (q % (WritesKept + 1))
    BY <1>2 DEF Kept
  <2> QED
    BY <1>2, <2>2, <2>3, WritesKeptAssumption
<1> QED
  BY <1>1, <1>2

\* The log stays exact under wrote, whatever ids it is called for, once each, as
\* long as those removed have no doc left, or one whose removal was undone, and no
\* other gets one.
LEMMA WroteInv ==
  ASSUME LogInv, NEW removed \in BOOLEAN, NEW k \in Nat, NEW order \in [1..k -> Ids],
         IsInjective(order), Wrote(order, removed),
         DOMAIN docs' \subseteq Ids, undone' \subseteq DOMAIN docs',
         \A id \in DOMAIN docs' \ undone' :
           id \in DOMAIN docs \ undone \/ \E i \in 1..k : order[i] = id,
         removed => \A i \in 1..k : order[i] \notin DOMAIN docs' \ undone'
  PROVE  LogInv'
<1> DEFINE kept == Kept(Cardinality(DOMAIN writes), k)
           first == version + k - kept + 1
<1>1. PICK n \in 0..version : writes \in [n + 1..version -> Write]
  BY DEF LogInv
<1>2. Cardinality(DOMAIN writes) = version - n /\ version \in Nat /\ n \in Nat
  <2>1. DOMAIN writes = n + 1..version /\ version \in Nat /\ n \in Nat /\ n <= version
    BY <1>1 DEF LogInv
  <2>2. Cardinality(n + 1..version) = IF n + 1 > version THEN 0 ELSE version - (n + 1) + 1
    BY <2>1, FS_Interval
  <2> QED
    BY <2>1, <2>2
<1>3. Cardinality(DOMAIN order) = k /\ DOMAIN order = 1..k
  <2>1. Cardinality(1..k) = IF 1 > k THEN 0 ELSE k - 1 + 1
    BY ONLY k \in Nat, FS_Interval
  <2> QED
    BY <2>1
<1>4. kept \in 0..(version - n) + k
  <2>1. version - n \in Nat
    BY <1>1, <1>2
  <2> QED
    BY <1>2, <2>1, KeptType
<1>5. first \in n + 1..version + k + 1
  BY <1>1, <1>2, <1>4
<1>6. /\ version' = version + k
      /\ writes' = [v \in first..version + k |->
                      IF v <= version THEN writes[v] ELSE [id |-> order[v - version], removed |-> removed]]
      /\ lastWrite' = [id \in Ids |-> IF \E i \in DOMAIN order : order[i] = id
                         THEN version + (CHOOSE i \in DOMAIN order : order[i] = id)
                         ELSE lastWrite[id]]
  BY <1>3 DEF Wrote
<1> HIDE DEF kept, first
<1>7. \A i \in 1..k : lastWrite'[order[i]] = version + i
  <2> SUFFICES ASSUME NEW i \in 1..k PROVE lastWrite'[order[i]] = version + i
    OBVIOUS
  <2>1. \A j \in DOMAIN order : order[j] = order[i] => j = i
    BY <1>3 DEF IsInjective
  <2>2. (CHOOSE j \in DOMAIN order : order[j] = order[i]) = i
    BY <1>3, <2>1
  <2> QED
    BY <1>3, <1>6, <2>2
<1>8. \A id \in Ids : (\A i \in 1..k : order[i] # id) => lastWrite'[id] = lastWrite[id]
  BY <1>3, <1>6
<1>9. \A id \in Ids : lastWrite[id] \in 0..version /\ lastWrite'[id] \in 0..version + k
  <2> SUFFICES ASSUME NEW id \in Ids
               PROVE lastWrite[id] \in 0..version /\ lastWrite'[id] \in 0..version + k
    OBVIOUS
  <2>1. lastWrite[id] \in 0..version
    BY DEF LogInv
  <2>2. CASE \E i \in 1..k : order[i] = id
    BY <1>2, <1>7, <2>1, <2>2
  <2>3. CASE \A i \in 1..k : order[i] # id
    BY <1>2, <1>8, <2>1, <2>3
  <2> QED
    BY <2>1, <2>2, <2>3
<1>10. \A v \in first..version + k :
         IF v <= version THEN v \in DOMAIN writes /\ writes'[v] = writes[v]
         ELSE v - version \in 1..k /\ writes'[v] = [id |-> order[v - version], removed |-> removed]
  <2> SUFFICES ASSUME NEW v \in first..version + k
               PROVE IF v <= version THEN v \in DOMAIN writes /\ writes'[v] = writes[v]
                     ELSE /\ v - version \in 1..k
                          /\ writes'[v] = [id |-> order[v - version], removed |-> removed]
    OBVIOUS
  <2>1. v \in Int /\ v >= n + 1 /\ v <= version + k
    BY <1>2, <1>5
  <2> QED
    BY <1>1, <1>2, <1>6, <2>1
<1>11. DOMAIN writes' = first..version'
  BY <1>6
<1>12. version' \in Nat /\ lastWrite' \in [Ids -> 0..version']
  <2>1. version' = version + k /\ version' \in Nat
    BY <1>2, <1>6
  <2>2. \E t : lastWrite' = [id \in Ids |-> t[id]]
    BY <1>6
  <2>3. \A id \in Ids : lastWrite'[id] \in 0..version'
    BY <1>9, <2>1
  <2> QED BY <2>1, <2>2, <2>3
<1>13. writes' \in [first..version' -> Write]
  <2> SUFFICES ASSUME NEW v \in first..version + k PROVE writes'[v] \in Write
    BY <1>6
  <2>1. CASE v <= version
    BY <1>1, <1>10, <2>1
  <2>2. CASE ~(v <= version)
    <3>1. v - version \in 1..k /\ writes'[v] = [id |-> order[v - version], removed |-> removed]
      BY <1>10, <2>2
    <3>2. order[v - version] \in Ids
      BY <3>1
    <3> QED
      BY <3>1, <3>2 DEF Write
  <2> QED
    BY <2>1, <2>2
<1>14. \E m \in 0..version' : writes' \in [m + 1..version' -> Write]
  <2>1. first - 1 \in 0..version' /\ (first - 1) + 1 = first
    BY <1>2, <1>5, <1>6
  <2> QED
    BY <1>13, <2>1
<1>15. \A v \in DOMAIN writes' : lastWrite'[writes'[v].id] >= v
  <2> SUFFICES ASSUME NEW v \in first..version + k PROVE lastWrite'[writes'[v].id] >= v
    BY <1>6
  <2>0. v \in Int
    BY <1>2, <1>5
  <2>1. CASE v <= version
    <3>1. v \in DOMAIN writes /\ writes'[v] = writes[v] /\ writes[v].id \in Ids
      BY <1>1, <1>10, <2>1 DEF Write
    <3>2. lastWrite[writes[v].id] >= v
      BY <3>1 DEF LogInv
    <3>3. CASE \E i \in 1..k : order[i] = writes[v].id
      BY <1>2, <1>7, <2>0, <2>1, <3>1, <3>3
    <3>4. CASE \A i \in 1..k : order[i] # writes[v].id
      BY <1>8, <3>1, <3>2, <3>4
    <3> QED
      BY <3>3, <3>4
  <2>2. CASE ~(v <= version)
    <3>0. v - version \in 1..k /\ writes'[v] = [id |-> order[v - version], removed |-> removed]
      BY <1>10, <2>2
    <3>1. v - version \in 1..k /\ writes'[v].id = order[v - version]
      BY <3>0
    <3>2. lastWrite'[order[v - version]] = version + (v - version)
      BY <1>7, <3>1
    <3>3. version + (v - version) = v
      BY <1>2, <2>0
    <3>4. lastWrite'[order[v - version]] = v
      BY <3>2, <3>3
    <3> QED
      BY <2>0, <3>1, <3>4
  <2> QED
    BY <2>1, <2>2
<1>16. ASSUME NEW id \in Ids, lastWrite'[id] \in DOMAIN writes'
       PROVE  /\ writes'[lastWrite'[id]].id = id
              /\ writes'[lastWrite'[id]].removed => id \notin DOMAIN docs' \ undone'
  <2>0. lastWrite'[id] \in first..version + k
    BY <1>6, <1>16
  <2>1. CASE \E i \in 1..k : order[i] = id
    <3>1. PICK i \in 1..k : order[i] = id
      BY <2>1
    <3>2. lastWrite'[id] = version + i /\ ~(version + i <= version) /\ (version + i) - version = i
      BY <1>2, <1>7, <3>1
    <3>3. writes'[lastWrite'[id]] = [id |-> id, removed |-> removed]
      BY <1>10, <2>0, <3>1, <3>2
    <3> QED
      BY <3>1, <3>3
  <2>2. CASE \A i \in 1..k : order[i] # id
    <3>1. lastWrite'[id] = lastWrite[id] /\ lastWrite[id] <= version
      BY <1>8, <1>9, <1>2, <2>2
    <3>2. lastWrite[id] \in DOMAIN writes /\ writes'[lastWrite'[id]] = writes[lastWrite[id]]
      BY <1>10, <2>0, <3>1
    <3>3. id \in DOMAIN docs' \ undone' => id \in DOMAIN docs \ undone
      BY <2>2
    <3> QED
      BY <3>2, <3>3 DEF LogInv
  <2> QED
    BY <2>1, <2>2
<1> QED
  BY <1>12, <1>14, <1>15, <1>16 DEF LogInv

-----------------------------------------------------------------------------
\* Each way the store is written keeps the log exact.
LEMMA PutInv ==
  ASSUME LogInv, NEW id \in Ids, NEW parent, Put(id, parent) \/ PutInVain(id)
  PROVE  LogInv'
<1>1. Wrote(<<id>>, FALSE)
  BY DEF Put, PutInVain
<1>2. <<id>> \in [1..1 -> Ids] /\ <<id>>[1] = id /\ DOMAIN <<id>> = 1..1
  OBVIOUS
<1>3. IsInjective(<<id>>)
  BY <1>2 DEF IsInjective
<1>4. /\ DOMAIN docs' \subseteq DOMAIN docs \cup {id} /\ undone' \subseteq DOMAIN docs'
      /\ \A i \in DOMAIN docs' \ undone' : i \in DOMAIN docs \ undone \/ i = id
  BY DEF Put, PutInVain, LogInv
<1>5. \A i \in DOMAIN docs' \ undone' : i \in DOMAIN docs \ undone \/ \E j \in 1..1 : <<id>>[j] = i
  BY <1>2, <1>4
<1>6. DOMAIN docs' \subseteq Ids
  BY <1>4 DEF LogInv
<1> QED
  BY <1>1, <1>2, <1>3, <1>4, <1>5, <1>6, WroteInv

LEMMA RemoveInv ==
  ASSUME LogInv, NEW k \in Nat, NEW order \in [1..k -> Ids],
         RemoveByIds(order) \/ RemoveInVain(order)
  PROVE  LogInv'
<1>1. Wrote(order, TRUE) /\ IsInjective(order)
  BY DEF RemoveByIds, RemoveInVain
<1>2. DOMAIN docs \subseteq Ids /\ undone \subseteq DOMAIN docs
  BY DEF LogInv
<1>3. /\ DOMAIN docs' \subseteq DOMAIN docs /\ undone' \subseteq DOMAIN docs'
      /\ \A i \in DOMAIN docs' \ undone' : i \in DOMAIN docs \ undone /\ i \notin Range(order)
  <2>1. CASE RemoveByIds(order)
    <3>1. DOMAIN docs' = DOMAIN docs \ Range(order) /\ undone' = undone \ Range(order)
      BY <2>1 DEF RemoveByIds
    <3> QED BY <1>2, <3>1
  <2>2. CASE RemoveInVain(order)
    <3>1. docs' = docs /\ undone' = undone \cup (DOMAIN docs \cap Range(order))
      BY <2>2 DEF RemoveInVain
    <3> QED BY <1>2, <3>1
  <2> QED BY <2>1, <2>2
<1>4. Range(order) = {order[i] : i \in 1..k}
  BY DEF Range
<1>5. \A i \in 1..k : order[i] \notin DOMAIN docs' \ undone'
  BY <1>3, <1>4
<1> QED
  BY <1>1, <1>2, <1>3, <1>5, WroteInv

\* A removed tree is removed in some order, each doc of it once.
LEMMA OrderType ==
  ASSUME NEW S \in SUBSET Ids
  PROVE  Cardinality(S) \in Nat /\ Order(S) \in [1..Cardinality(S) -> S]
<1>1. IsFiniteSet(S)
  BY IdsAssumption, FS_Subset
<1>2. Cardinality(S) \in Nat
  BY <1>1, FS_CardinalityType
<1>3. \E order \in [1..Cardinality(S) -> S] : IsInjective(order)
  <2>1. ExistsBijection(1..Cardinality(S), S)
    BY <1>1, <1>2, FS_NatBijection, FS_CountingElements
  <2>2. PICK order : order \in Bijection(1..Cardinality(S), S)
    BY <2>1 DEF ExistsBijection
  <2> QED
    BY <2>2 DEF Bijection, Injection
<1> QED
  BY <1>2, <1>3 DEF Order

\* What can be told of the log is told exactly.
LEMMA LogInvSuffices == LogInv => LogTellsAll
<1> SUFFICES ASSUME LogInv, NEW since \in 0..version, CanTell(since)
             PROVE  /\ {w.id : w \in ChangesSince(since)} = {id \in Ids : lastWrite[id] > since}
                    /\ \A w \in ChangesSince(since) : w.removed => w.id \notin DOMAIN docs \ undone
                    /\ \A w, x \in ChangesSince(since) : w.id = x.id => w = x
  BY DEF LogTellsAll
<1>1. PICK n \in 0..version : writes \in [n + 1..version -> Write]
  BY DEF LogInv
<1>2. version \in Nat /\ n \in Nat /\ n <= version /\ Cardinality(DOMAIN writes) = version - n
  <2>1. DOMAIN writes = n + 1..version /\ version \in Nat /\ n \in Nat /\ n <= version
    BY <1>1 DEF LogInv
  <2>2. Cardinality(n + 1..version) = IF n + 1 > version THEN 0 ELSE version - (n + 1) + 1
    BY <2>1, FS_Interval
  <2> QED
    BY <2>1, <2>2
<1>3. since >= n /\ since \in Nat
  BY <1>2 DEF CanTell
<1>4. ASSUME NEW w \in ChangesSince(since)
      PROVE  w.id \in Ids /\ lastWrite[w.id] > since /\ w = writes[lastWrite[w.id]]
               /\ lastWrite[w.id] \in DOMAIN writes
  <2>1. PICK v \in DOMAIN writes : v > since /\ w = writes[v]
               /\ \A m \in DOMAIN writes : m > v => writes[m].id # writes[v].id
    BY DEF ChangesSince
  <2>2. w.id \in Ids /\ v \in n + 1..version
    BY <1>1, <2>1 DEF Write
  <2>3. lastWrite[w.id] >= v /\ lastWrite[w.id] \in 0..version
    BY <2>1, <2>2 DEF LogInv
  <2>4. lastWrite[w.id] \in DOMAIN writes
    BY <1>1, <1>2, <2>2, <2>3
  <2>5. writes[lastWrite[w.id]].id = w.id
    BY <2>2, <2>4 DEF LogInv
  <2>6. ~(lastWrite[w.id] > v)
    BY <2>1, <2>4, <2>5
  <2>7. lastWrite[w.id] = v
    BY <1>2, <2>2, <2>3, <2>6
  <2> QED
    BY <2>1, <2>2, <2>4, <2>7
<1>5. ASSUME NEW id \in Ids, lastWrite[id] > since
      PROVE  \E w \in ChangesSince(since) : w.id = id
  <2>1. lastWrite[id] \in 0..version
    BY DEF LogInv
  <2>2. lastWrite[id] \in DOMAIN writes
    BY <1>1, <1>2, <1>3, <1>5, <2>1
  <2>3. writes[lastWrite[id]].id = id
    BY <2>2 DEF LogInv
  <2>4. ASSUME NEW m \in DOMAIN writes, m > lastWrite[id], writes[m].id = id PROVE FALSE
    <3>1. lastWrite[id] >= m
      BY <2>4 DEF LogInv
    <3>2. m \in n + 1..version
      BY <1>1
    <3> QED
      BY <1>2, <2>1, <2>4, <3>1, <3>2
  <2>5. writes[lastWrite[id]] \in ChangesSince(since)
    BY <1>5, <2>2, <2>3, <2>4 DEF ChangesSince
  <2> QED
    BY <2>3, <2>5
<1>6. {w.id : w \in ChangesSince(since)} = {id \in Ids : lastWrite[id] > since}
  BY <1>4, <1>5
<1>7. \A w \in ChangesSince(since) : w.removed => w.id \notin DOMAIN docs \ undone
  BY <1>4 DEF LogInv
<1>8. \A w, x \in ChangesSince(since) : w.id = x.id => w = x
  BY <1>4
<1> QED
  BY <1>6, <1>7, <1>8

-----------------------------------------------------------------------------
LEMMA StepInv ==
  ASSUME LogInv, [Next]_vars
  PROVE  LogInv'
<1>1. CASE UNCHANGED storeVars
  BY <1>1 DEF LogInv, storeVars
<1>2. CASE \E i \in Instances : Writes(i.ids)
  <2>. PICK ids \in SUBSET Ids : Writes(ids)
    BY <1>2, InstancesAssumption
  <2>1. CASE \E id \in ids : \E parent \in ParentsOf(id) : Put(id, parent)
    BY <2>1, PutInv
  <2>2. CASE \E id \in ids : PutInVain(id)
    BY <2>2, PutInv
  <2>3. CASE \E id \in ids : RemoveByIds(<<id>>) \/ RemoveInVain(<<id>>)
    <3>1. PICK id \in ids : RemoveByIds(<<id>>) \/ RemoveInVain(<<id>>)
      BY <2>3
    <3>2. <<id>> \in [1..1 -> Ids]
      OBVIOUS
    <3> QED
      BY <3>1, <3>2, RemoveInv
  <2>4. CASE \E id \in ids : RemoveByIds(Order(Tree(id))) \/ RemoveInVain(Order(Tree(id)))
    <3>1. PICK id \in ids : RemoveByIds(Order(Tree(id))) \/ RemoveInVain(Order(Tree(id)))
      BY <2>4
    <3>2. Tree(id) \subseteq Ids
      <4>1. \A S : Below(S) \subseteq Ids
        BY DEF LogInv, Below
      <4> QED
        BY <4>1 DEF Tree
    <3>3. PICK k \in Nat : Order(Tree(id)) \in [1..k -> Ids]
      BY <3>2, OrderType
    <3> QED
      BY <3>1, <3>3, RemoveInv
  <2> QED
    BY <2>1, <2>2, <2>3, <2>4 DEF Writes
<1>3. Next => UNCHANGED storeVars \/ \E i \in Instances : Writes(i.ids)
  BY DEF Next, Begin, Asked, ReadLevel, ReadRequests, ReadFolders, ReadMetas, ReadFolderMetas,
         ReadChangedRequests, ReadChangedMetas, ReadAddedMetas, ReadChangedFolderMetas, Leave
<1> QED
  BY <1>1, <1>2, <1>3 DEF vars

LEMMA InitInv == Init => LogInv
<1> SUFFICES ASSUME Init PROVE LogInv
  OBVIOUS
<1>1. version = 0 /\ lastWrite = [id \in Ids |-> 0] /\ writes = [n \in {} |-> 0]
  BY DEF Init, StoreInit
<1>2. 0 \in 0..version /\ 0 + 1..version = {}
  BY <1>1
<1>3. writes \in [0 + 1..version -> Write]
  BY <1>1, <1>2
<1>4. DOMAIN docs \subseteq Ids /\ undone = {}
  BY DEF Init, StoreInit
<1> QED
  BY <1>1, <1>2, <1>3, <1>4 DEF LogInv

\* The log's entries are where lastWrite says, in every reachable state.
THEOREM SpecLogInv == Spec => []LogInv
<1> QED
  BY InitInv, StepInv, PTL DEF Spec

\* Whatever is written, in whatever order and however often the log is cut, a
\* reader that is told what was written since its stamp is told all of it, and
\* nothing else, and what it is told was removed is gone unless that removal was
\* rolled back.
THEOREM LogTold == Spec => []LogTellsAll
<1> QED
  BY SpecLogInv, LogInvSuffices, PTL


-----------------------------------------------------------------------------
(* What the reads hold *)

DocMaps(type) == UNION {[ids -> Doc] : ids \in SUBSET type}

Read ==
  [stamp : Int, parentIds : SUBSET (Folders \cup {Workspace}), docs : DocMaps(Requests),
   folderDocs : DocMaps(Folders), metas : DocMaps(Metas), folderMetas : DocMaps(FolderMetas)]

Load ==
  [pc : Steps, read : Read, level : SUBSET (Folders \cup {Workspace}), changes : SUBSET Write,
   added : SUBSET Requests]

DocsTyped == docs \in [DOMAIN docs -> Doc]
ReadTypes == lastRead \in Read /\ loads \in [Loads -> Load]

\* Not written since a read's stamp, nor taken for removed.
Fresh(id, read) == lastWrite[id] <= read.stamp /\ id \notin undone

\* A map has a doc as the database does, where it is under one of the parents.
Mirrors(map, id, parents) ==
  /\ id \in DOMAIN map <=> id \in DOMAIN docs /\ docs[id].parent \in parents
  /\ id \in DOMAIN map => map[id] = docs[id]

\* The folders read so far, but for those under the level to be read next.
Closed(read, level) ==
  /\ read.stamp \in 0..version /\ Workspace \in read.parentIds
  /\ \A f \in Folders :
       Fresh(f, read) /\ f \in DOMAIN docs /\ docs[f].parent \in read.parentIds \ level =>
         f \in read.parentIds

\* The docs of a read, but for those about to be read.
RequestsRead(read, but) ==
  \A r \in Requests \ but : Fresh(r, read) => Mirrors(read.docs, r, read.parentIds)
FoldersRead(read) ==
  \A f \in Folders : Fresh(f, read) => Mirrors(read.folderDocs, f, read.parentIds)
MetasRead(read, but, added) ==
  \A m \in Metas \ but : Fresh(m, read) =>
    /\ m \in DOMAIN read.metas => m \in DOMAIN docs /\ read.metas[m] = docs[m]
    /\ m \in DOMAIN docs /\ docs[m].parent \in DOMAIN read.docs \ added => m \in DOMAIN read.metas
FolderMetasRead(read, but) ==
  \A g \in FolderMetas \ but : Fresh(g, read) => Mirrors(read.folderMetas, g, read.parentIds)

Full(read) ==
  /\ Closed(read, {}) /\ RequestsRead(read, {}) /\ FoldersRead(read)
  /\ MetasRead(read, {}, {}) /\ FolderMetasRead(read, {})

ChangedIn(load, type) == {w.id : w \in {w \in load.changes : ~w.removed}} \cap type
Changing == {"changed requests", "changed metas", "added metas", "changed folder metas"}

\* How much of it a load has at each of its steps.
Sound(load) ==
  LET pc == load.pc
      read == load.read
  IN
  /\ pc = "idle" => read = NoRead
  /\ pc = "asking" => read = NoRead \/ Full(read)
  /\ pc = "levels" => load.level \subseteq read.parentIds /\ Closed(read, load.level)
  /\ pc \in {"requests", "folders", "metas", "folderMetas"} \cup Changing => Closed(read, {})
  /\ pc \in {"folders", "metas", "folderMetas", "changed metas", "added metas", "changed folder metas"} =>
       RequestsRead(read, {})
  /\ pc \in {"metas", "folderMetas"} \cup Changing => FoldersRead(read)
  /\ pc \in {"folderMetas", "changed folder metas"} => MetasRead(read, {}, {})
  /\ pc = "changed requests" =>
       /\ RequestsRead(read, ChangedIn(load, Requests))
       /\ MetasRead(read, ChangedIn(load, Metas), {})
  /\ pc = "changed metas" => MetasRead(read, ChangedIn(load, Metas), load.added)
  /\ pc = "added metas" => MetasRead(read, {}, load.added)
  /\ pc \in Changing => FolderMetasRead(read, ChangedIn(load, FolderMetas))

ReadInv ==
  /\ DocsTyped /\ ReadTypes
  /\ \A read \in Read : lastRead = read => read = NoRead \/ Full(read)
  /\ \A l \in Loads, load \in Load : loads[l] = load => Sound(load)

-----------------------------------------------------------------------------
(* The maps *)

LEMMA DocMapsAre ==
  ASSUME NEW type, NEW map
  PROVE  map \in DocMaps(type) <=> map \in [DOMAIN map -> Doc] /\ DOMAIN map \subseteq type
  BY DEF DocMaps

LEMMA FindUnderIs ==
  ASSUME DocsTyped, NEW type, NEW parents
  PROVE  /\ FindUnder(type, parents) \in DocMaps(type)
         /\ \A id : id \in DOMAIN FindUnder(type, parents) <=>
              id \in type /\ id \in DOMAIN docs /\ docs[id].parent \in parents
         /\ \A id \in DOMAIN FindUnder(type, parents) : FindUnder(type, parents)[id] = docs[id]
<1> DEFINE D == {id \in DOMAIN docs \cap type : docs[id].parent \in parents}
<1>1. FindUnder(type, parents) = [id \in D |-> docs[id]]
  BY DEF FindUnder
<1>2. \A id \in D : docs[id] \in Doc
  BY DEF DocsTyped
<1>3. D \subseteq type
  OBVIOUS
<1>4. FindUnder(type, parents) \in [D -> Doc] /\ DOMAIN FindUnder(type, parents) = D
  <2> HIDE DEF D
  <2> QED BY <1>1, <1>2
<1>5. FindUnder(type, parents) \in DocMaps(type)
  <2> HIDE DEF D
  <2> QED BY <1>3, <1>4 DEF DocMaps
<1> QED BY <1>1, <1>4, <1>5

LEMMA WithoutType ==
  ASSUME NEW type, NEW map \in DocMaps(type), NEW ids
  PROVE  Without(map, ids) \in DocMaps(type)
<1>1. Without(map, ids) = [id \in DOMAIN map \ ids |-> map[id]]
  BY DEF Without, Restrict
<1>2. map \in [DOMAIN map -> Doc] /\ DOMAIN map \subseteq type
  BY DocMapsAre
<1>3. Without(map, ids) \in [DOMAIN map \ ids -> Doc] /\ DOMAIN map \ ids \subseteq type
  BY <1>1, <1>2
<1> QED BY <1>3 DEF DocMaps

LEMMA OverIs ==
  ASSUME NEW map, NEW new
  PROVE  /\ DOMAIN Over(map, new) = DOMAIN map \cup DOMAIN new
         /\ \A id \in DOMAIN new : Over(map, new)[id] = new[id]
         /\ \A id \in DOMAIN map : id \notin DOMAIN new => Over(map, new)[id] = map[id]
  BY DEF Over

LEMMA OverType ==
  ASSUME NEW type, NEW map \in DocMaps(type), NEW new \in DocMaps(type)
  PROVE  Over(map, new) \in DocMaps(type)
<1>1. Over(map, new) = [id \in DOMAIN map \cup DOMAIN new |-> IF id \in DOMAIN new THEN new[id] ELSE map[id]]
  BY DEF Over
<1>2. /\ map \in [DOMAIN map -> Doc] /\ DOMAIN map \subseteq type
      /\ new \in [DOMAIN new -> Doc] /\ DOMAIN new \subseteq type
  BY DocMapsAre
<1>3. Over(map, new) \in [DOMAIN map \cup DOMAIN new -> Doc] /\ DOMAIN map \cup DOMAIN new \subseteq type
  BY <1>1, <1>2
<1> QED BY <1>3 DEF DocMaps

\* The changed docs of a map are the database's, and the others what they were.
LEMMA ReplacedIs ==
  ASSUME NEW map, NEW changed, NEW parents
  PROVE  /\ \A id \in changed : id \in DOMAIN Replaced(map, changed, parents) <=>
                                id \in DOMAIN docs /\ docs[id].parent \in parents
         /\ \A id : id \notin changed =>
              (id \in DOMAIN Replaced(map, changed, parents) <=> id \in DOMAIN map)
         /\ \A id \in DOMAIN Replaced(map, changed, parents) :
              /\ id \in changed => Replaced(map, changed, parents)[id] = docs[id]
              /\ id \notin changed => Replaced(map, changed, parents)[id] = map[id]
<1> DEFINE left == Without(map, changed)
           found == FindUnder(changed, parents)
<1>1. /\ DOMAIN left = DOMAIN map \ changed
      /\ \A id \in DOMAIN map \ changed : left[id] = map[id]
  BY DEF Without, Restrict
<1>2. /\ \A id : id \in DOMAIN found <=> id \in changed /\ id \in DOMAIN docs /\ docs[id].parent \in parents
      /\ \A id \in DOMAIN found : found[id] = docs[id]
  BY DEF FindUnder
<1>3. Replaced(map, changed, parents) = Over(left, found)
  BY DEF Replaced
<1> HIDE DEF left, found
<1>4. /\ DOMAIN Over(left, found) = DOMAIN left \cup DOMAIN found
      /\ \A id \in DOMAIN found : Over(left, found)[id] = found[id]
      /\ \A id \in DOMAIN left : id \notin DOMAIN found => Over(left, found)[id] = left[id]
  BY OverIs
<1> QED BY <1>1, <1>2, <1>3, <1>4

LEMMA ReplacedType ==
  ASSUME DocsTyped, NEW type, NEW map \in DocMaps(type), NEW changed \in SUBSET type, NEW parents
  PROVE  Replaced(map, changed, parents) \in DocMaps(type)
<1>1. Without(map, changed) \in DocMaps(type)
  BY WithoutType
<1>2. FindUnder(changed, parents) \in DocMaps(type)
  <2>1. FindUnder(changed, parents) \in DocMaps(changed)
    BY FindUnderIs
  <2> QED BY <2>1, DocMapsAre
<1> QED BY <1>1, <1>2, OverType DEF Replaced

-----------------------------------------------------------------------------
(* What is written stays out of what the reads are said to hold *)

LEMMA WroteMarks ==
  ASSUME LogInv, NEW removed, NEW k \in Nat, NEW order \in [1..k -> Ids], Wrote(order, removed)
  PROVE  /\ version' \in Nat /\ version' >= version
         /\ \A id \in Ids : /\ (\E i \in 1..k : order[i] = id) => lastWrite'[id] > version
                            /\ ~(\E i \in 1..k : order[i] = id) => lastWrite'[id] = lastWrite[id]
<1>1. DOMAIN order = 1..k /\ version \in Nat
  BY DEF LogInv
<1>2. Cardinality(1..k) = k
  <2>1. Cardinality(1..k) = IF 1 > k THEN 0 ELSE k - 1 + 1
    BY FS_Interval
  <2> QED BY <2>1
<1>3. version' = version + k
  BY <1>1, <1>2 DEF Wrote
<1>4. ASSUME NEW id \in Ids
      PROVE  /\ (\E i \in 1..k : order[i] = id) => lastWrite'[id] > version
             /\ ~(\E i \in 1..k : order[i] = id) => lastWrite'[id] = lastWrite[id]
  <2>1. lastWrite'[id] = IF \E i \in 1..k : order[i] = id
                           THEN version + (CHOOSE i \in 1..k : order[i] = id)
                           ELSE lastWrite[id]
    BY <1>1 DEF Wrote
  <2>2. CASE \E i \in 1..k : order[i] = id
    <3>1. (CHOOSE i \in 1..k : order[i] = id) \in 1..k
      BY <2>2
    <3> QED BY <1>1, <2>1, <2>2, <3>1
  <2> QED BY <2>1, <2>2
<1> QED BY <1>1, <1>3, <1>4

\* A doc is as it was unless its id was written.
AsWas(id) ==
  /\ lastWrite'[id] = lastWrite[id]
  /\ id \in DOMAIN docs' <=> id \in DOMAIN docs
  /\ id \in DOMAIN docs => docs'[id] = docs[id]
  /\ id \in undone' <=> id \in undone

LEMMA WritesMark ==
  ASSUME LogInv, DocsTyped, NEW ids \in SUBSET Ids, Writes(ids)
  PROVE  /\ DocsTyped' /\ version' \in Nat /\ version' >= version
         /\ \A id \in Ids : lastWrite'[id] > version \/ AsWas(id)
<1>d. DOMAIN docs \subseteq Ids /\ \A id \in DOMAIN docs : docs[id] \in Doc
  BY DEF LogInv, DocsTyped
<1>v. version \in Nat
  BY DEF LogInv
<1>1. ASSUME NEW id \in Ids, NEW parent \in ParentsOf(id), Put(id, parent)
      PROVE  /\ DocsTyped' /\ version' \in Nat /\ version' >= version
             /\ \A i \in Ids : lastWrite'[i] > version \/ AsWas(i)
  <2>1. <<id>> \in [1..1 -> Ids] /\ <<id>>[1] = id /\ \A i : (\E j \in 1..1 : <<id>>[j] = i) <=> i = id
    OBVIOUS
  <2>2. /\ version' \in Nat /\ version' >= version
        /\ \A i \in Ids : i = id \/ lastWrite'[i] = lastWrite[i]
        /\ lastWrite'[id] > version
    <3>1. Wrote(<<id>>, FALSE)
      BY <1>1 DEF Put
    <3>2. /\ version' \in Nat /\ version' >= version
          /\ \A i \in Ids : /\ (\E j \in 1..1 : <<id>>[j] = i) => lastWrite'[i] > version
                            /\ ~(\E j \in 1..1 : <<id>>[j] = i) => lastWrite'[i] = lastWrite[i]
      BY <2>1, <3>1, WroteMarks
    <3> QED BY <2>1, <3>2
  <2>3. docs' = [i \in DOMAIN docs \cup {id} |->
                   IF i = id THEN [parent |-> parent, v |-> version + 1] ELSE docs[i]]
    BY <1>1 DEF Put
  <2>4. [parent |-> parent, v |-> version + 1] \in Doc
    <3>1. parent \in Parents
      BY IdsByType DEF ParentsOf
    <3> QED BY <1>v, <3>1 DEF Doc
  <2>5. DocsTyped'
    <3> HIDE DEF Doc
    <3> QED BY <1>d, <2>3, <2>4 DEF DocsTyped
  <2>6. undone' = undone \ {id}
    BY <1>1 DEF Put
  <2> QED BY <2>2, <2>3, <2>5, <2>6 DEF AsWas
<1>2. ASSUME NEW id \in Ids, PutInVain(id)
      PROVE  /\ DocsTyped' /\ version' \in Nat /\ version' >= version
             /\ \A i \in Ids : lastWrite'[i] > version \/ AsWas(i)
  <2>1. <<id>> \in [1..1 -> Ids] /\ <<id>>[1] = id /\ \A i : (\E j \in 1..1 : <<id>>[j] = i) <=> i = id
    OBVIOUS
  <2>2. /\ version' \in Nat /\ version' >= version
        /\ \A i \in Ids : i = id \/ lastWrite'[i] = lastWrite[i]
        /\ lastWrite'[id] > version
    <3>1. Wrote(<<id>>, FALSE)
      BY <1>2 DEF PutInVain
    <3>2. /\ version' \in Nat /\ version' >= version
          /\ \A i \in Ids : /\ (\E j \in 1..1 : <<id>>[j] = i) => lastWrite'[i] > version
                            /\ ~(\E j \in 1..1 : <<id>>[j] = i) => lastWrite'[i] = lastWrite[i]
      BY <2>1, <3>1, WroteMarks
    <3> QED BY <2>1, <3>2
  <2>3. docs' = docs /\ undone' = undone \ {id}
    BY <1>2 DEF PutInVain
  <2> QED BY <2>2, <2>3 DEF AsWas, DocsTyped
<1>3. ASSUME NEW k \in Nat, NEW order \in [1..k -> Ids], RemoveByIds(order) \/ RemoveInVain(order)
      PROVE  /\ DocsTyped' /\ version' \in Nat /\ version' >= version
             /\ \A i \in Ids : lastWrite'[i] > version \/ AsWas(i)
  <2>1. /\ version' \in Nat /\ version' >= version
        /\ \A i \in Ids : /\ (\E j \in 1..k : order[j] = i) => lastWrite'[i] > version
                          /\ ~(\E j \in 1..k : order[j] = i) => lastWrite'[i] = lastWrite[i]
    <3>1. Wrote(order, TRUE)
      BY <1>3 DEF RemoveByIds, RemoveInVain
    <3> QED BY <3>1, WroteMarks
  <2>2. /\ docs' = [i \in DOMAIN docs \ Range(order) |-> docs[i]] \/ docs' = docs
        /\ undone' = undone \ Range(order) \/ undone' = undone \cup (DOMAIN docs \cap Range(order))
    BY <1>3 DEF RemoveByIds, RemoveInVain
  <2>3. DocsTyped'
    BY <1>d, <2>2 DEF DocsTyped
  <2>4. ASSUME NEW i \in Ids PROVE lastWrite'[i] > version \/ AsWas(i)
    <3>1. CASE \E j \in 1..k : order[j] = i
      BY <2>1, <3>1
    <3>2. CASE ~\E j \in 1..k : order[j] = i
      <4>1. i \notin Range(order)
        BY <3>2 DEF Range
      <4> QED BY <2>1, <2>2, <3>2, <4>1 DEF AsWas
    <3> QED BY <3>1, <3>2
  <2> QED BY <2>1, <2>3, <2>4
<1>4. ASSUME NEW id \in ids PROVE <<id>> \in [1..1 -> Ids] /\ id \in Ids
  OBVIOUS
<1>5. ASSUME NEW id \in ids PROVE \E k \in Nat : Order(Tree(id)) \in [1..k -> Ids]
  <2>1. Tree(id) \subseteq Ids
    <3>1. \A S : Below(S) \subseteq Ids
      BY DEF LogInv, Below
    <3> QED BY <3>1 DEF Tree
  <2> QED BY <2>1, OrderType
<1>6. CASE \E id \in ids : \E parent \in ParentsOf(id) : Put(id, parent)
  BY <1>1, <1>6
<1>7. CASE \E id \in ids : PutInVain(id)
  BY <1>2, <1>7
<1>8. CASE \E id \in ids : RemoveByIds(<<id>>) \/ RemoveInVain(<<id>>)
  BY <1>3, <1>4, <1>8
<1>9. CASE \E id \in ids : RemoveByIds(Order(Tree(id))) \/ RemoveInVain(Order(Tree(id)))
  BY <1>3, <1>5, <1>9
<1> QED BY <1>6, <1>7, <1>8, <1>9 DEF Writes
\* What a step may do to the store.
StoreKept ==
  /\ version' \in Nat /\ version' >= version
  /\ \A id \in Ids : lastWrite'[id] > version \/ AsWas(id)

LEMMA PiecesKept ==
  ASSUME LogInv, LogInv', StoreKept, NEW read \in Read, read.stamp \in 0..version
  PROVE  /\ \A level : Closed(read, level) => Closed(read, level)'
         /\ \A but : RequestsRead(read, but) => RequestsRead(read, but)'
         /\ FoldersRead(read) => FoldersRead(read)'
         /\ \A but, added : MetasRead(read, but, added) => MetasRead(read, but, added)'
         /\ \A but : FolderMetasRead(read, but) => FolderMetasRead(read, but)'
<1>t. /\ Folders \subseteq Ids /\ Requests \subseteq Ids /\ Metas \subseteq Ids /\ FolderMetas \subseteq Ids
      /\ version \in Nat /\ version' \in Nat /\ version' >= version
  BY IdsByType DEF LogInv, StoreKept
<1>s. read.stamp <= version /\ read.stamp \in 0..version'
  BY <1>t
<1>1. ASSUME NEW id \in Ids, Fresh(id, read)' PROVE Fresh(id, read) /\ AsWas(id)
  <2>1. lastWrite'[id] <= read.stamp /\ id \notin undone'
    BY <1>1 DEF Fresh
  <2>2. lastWrite'[id] \in Int /\ read.stamp \in Int
    BY <1>s, <1>t DEF LogInv
  <2>3. AsWas(id)
    BY <1>s, <1>t, <2>1, <2>2 DEF StoreKept
  <2> QED BY <2>1, <2>3 DEF Fresh, AsWas
<1>2. ASSUME NEW map, NEW id \in Ids, NEW parents, AsWas(id), Mirrors(map, id, parents)
      PROVE  Mirrors(map, id, parents)'
  BY <1>2 DEF Mirrors, AsWas
<1>3. ASSUME NEW level, Closed(read, level) PROVE Closed(read, level)'
  <2>1. ASSUME NEW f \in Folders, Fresh(f, read)', f \in DOMAIN docs', docs'[f].parent \in read.parentIds \ level
        PROVE  f \in read.parentIds
    <3>1. Fresh(f, read) /\ AsWas(f)
      BY <1>1, <1>t, <2>1
    <3>2. f \in DOMAIN docs /\ docs'[f] = docs[f]
      BY <2>1, <3>1 DEF AsWas
    <3> QED BY <1>3, <2>1, <3>1, <3>2 DEF Closed
  <2>2. Workspace \in read.parentIds
    BY <1>3 DEF Closed
  <2> QED BY <1>s, <2>1, <2>2 DEF Closed
<1>4. ASSUME NEW but, RequestsRead(read, but) PROVE RequestsRead(read, but)'
  BY <1>1, <1>2, <1>t, <1>4 DEF RequestsRead
<1>5. ASSUME FoldersRead(read) PROVE FoldersRead(read)'
  BY <1>1, <1>2, <1>t, <1>5 DEF FoldersRead
<1>6. ASSUME NEW but, NEW added, MetasRead(read, but, added) PROVE MetasRead(read, but, added)'
  <2>1. ASSUME NEW m \in Metas \ but, Fresh(m, read)'
        PROVE  /\ m \in DOMAIN read.metas => m \in DOMAIN docs' /\ read.metas[m] = docs'[m]
               /\ m \in DOMAIN docs' /\ docs'[m].parent \in DOMAIN read.docs \ added => m \in DOMAIN read.metas
    <3>1. Fresh(m, read) /\ AsWas(m)
      BY <1>1, <1>t, <2>1
    <3> QED BY <1>6, <2>1, <3>1 DEF MetasRead, AsWas
  <2> QED BY <2>1 DEF MetasRead
<1>7. ASSUME NEW but, FolderMetasRead(read, but) PROVE FolderMetasRead(read, but)'
  BY <1>1, <1>2, <1>t, <1>7 DEF FolderMetasRead
<1> QED BY <1>3, <1>4, <1>5, <1>6, <1>7

LEMMA FullKept ==
  ASSUME LogInv, LogInv', StoreKept, NEW read \in Read, Full(read)
  PROVE  Full(read)'
<1>1. read.stamp \in 0..version
  BY DEF Full, Closed
<1> QED BY <1>1, PiecesKept DEF Full

LEMMA SoundKept ==
  ASSUME LogInv, LogInv', StoreKept, NEW load \in Load, Sound(load)
  PROVE  Sound(load)'
<1>1. load.read \in Read /\ load.pc \in Steps
  BY DEF Load
<1>2. CASE load.read = NoRead /\ load.pc \in {"idle", "asking"}
  BY <1>2 DEF Sound, Changing
<1>3. CASE ~(load.read = NoRead /\ load.pc \in {"idle", "asking"})
  <2>1. load.read.stamp \in 0..version
    BY <1>1, <1>3 DEF Sound, Closed, Full, Changing, Steps
  <2>2. /\ \A level : Closed(load.read, level) => Closed(load.read, level)'
        /\ \A but : RequestsRead(load.read, but) => RequestsRead(load.read, but)'
        /\ FoldersRead(load.read) => FoldersRead(load.read)'
        /\ \A but, added : MetasRead(load.read, but, added) => MetasRead(load.read, but, added)'
        /\ \A but : FolderMetasRead(load.read, but) => FolderMetasRead(load.read, but)'
    BY <1>1, <2>1, PiecesKept
  <2>3. Full(load.read) => Full(load.read)'
    BY <2>2 DEF Full
  <2> QED BY <2>2, <2>3 DEF Sound
<1> QED BY <1>2, <1>3
-----------------------------------------------------------------------------
(* What each query leaves a load with *)

LEMMA Starts ==
  /\ Empty \in DocMaps(Requests) /\ Empty \in DocMaps(Folders)
  /\ Empty \in DocMaps(Metas) /\ Empty \in DocMaps(FolderMetas)
  /\ NoRead \in Read /\ Idle \in Load
<1>1. ASSUME NEW type PROVE Empty \in DocMaps(type)
  <2>1. Empty \in [{} -> Doc] /\ {} \subseteq type /\ DOMAIN Empty = {}
    BY DEF Empty
  <2> QED BY <2>1, DocMapsAre
<1>2. /\ Empty \in DocMaps(Requests) /\ Empty \in DocMaps(Folders)
      /\ Empty \in DocMaps(Metas) /\ Empty \in DocMaps(FolderMetas)
  BY <1>1
<1>3. -1 \in Int
  OBVIOUS
<1>4. NoRead \in Read
  BY <1>2, <1>3 DEF NoRead, Read
<1>5. Idle \in Load
  BY <1>4 DEF Idle, Load, Steps
<1> QED BY <1>2, <1>4, <1>5

LEMMA LevelRead ==
  ASSUME DocsTyped, NEW load \in Load, Sound(load), load.pc = "levels",
         NEW level, level = DOMAIN FindUnder(Folders, load.level) \ load.read.parentIds,
         NEW read, read = [load.read EXCEPT !.parentIds = @ \cup level],
         NEW new, new = [load EXCEPT !.level = level, !.read = read,
                                     !.pc = IF level = {} THEN "requests" ELSE @]
  PROVE  new \in Load /\ Sound(new)
<1>0. load.read \in Read /\ load.level \subseteq load.read.parentIds /\ Closed(load.read, load.level)
  BY DEF Sound, Load
<1>1. \A id : id \in DOMAIN FindUnder(Folders, load.level) <=>
                id \in Folders /\ id \in DOMAIN docs /\ docs[id].parent \in load.level
  BY FindUnderIs
<1>2. level \subseteq Folders /\ level \cap load.read.parentIds = {}
  BY <1>1
<1>3. read \in Read /\ read.stamp = load.read.stamp /\ read.parentIds = load.read.parentIds \cup level
  BY <1>0, <1>2 DEF Read
<1>4. Closed(read, level)
  <2>1. ASSUME NEW f \in Folders, Fresh(f, read), f \in DOMAIN docs, docs[f].parent \in read.parentIds \ level
        PROVE  f \in read.parentIds
    <3>1. docs[f].parent \in load.read.parentIds /\ Fresh(f, load.read)
      BY <1>3, <2>1 DEF Fresh
    <3>2. CASE docs[f].parent \in load.level
      BY <1>1, <1>3, <2>1, <3>2
    <3>3. CASE docs[f].parent \notin load.level
      BY <1>0, <1>3, <2>1, <3>1, <3>3 DEF Closed
    <3> QED BY <3>2, <3>3
  <2> QED BY <1>0, <1>3, <2>1 DEF Closed
<1>5. /\ new \in Load /\ new.read = read /\ new.level = level
      /\ new.pc = IF level = {} THEN "requests" ELSE "levels"
  BY <1>2, <1>3 DEF Load, Steps
<1>6. CASE level = {}
  BY <1>4, <1>5, <1>6 DEF Sound, Changing
<1>7. CASE level # {}
  BY <1>3, <1>4, <1>5, <1>7 DEF Sound, Changing
<1> QED BY <1>5, <1>6, <1>7

LEMMA RequestsReadAll ==
  ASSUME DocsTyped, NEW load \in Load, Sound(load), load.pc = "requests",
         NEW read, read = [load.read EXCEPT !.docs = FindUnder(Requests, load.read.parentIds)],
         NEW new, new = [load EXCEPT !.pc = "folders", !.read = read]
  PROVE  new \in Load /\ Sound(new)
<1>0. load.read \in Read /\ Closed(load.read, {})
  BY DEF Sound, Load
<1> DEFINE found == FindUnder(Requests, load.read.parentIds)
<1>1. /\ found \in DocMaps(Requests)
      /\ \A id : id \in DOMAIN found <=> id \in Requests /\ id \in DOMAIN docs /\ docs[id].parent \in load.read.parentIds
      /\ \A id \in DOMAIN found : found[id] = docs[id]
  BY FindUnderIs
<1>2. read = [load.read EXCEPT !.docs = found]
  OBVIOUS
<1> HIDE DEF found
<1>3. /\ read \in Read /\ read.docs = found
      /\ read.stamp = load.read.stamp /\ read.parentIds = load.read.parentIds
  BY <1>0, <1>1, <1>2 DEF Read
<1>4. Closed(read, {}) /\ RequestsRead(read, {})
  BY <1>0, <1>1, <1>3 DEF Closed, Fresh, RequestsRead, Mirrors
<1>5. new \in Load /\ new.read = read /\ new.pc = "folders"
  BY <1>3 DEF Load, Steps
<1> QED BY <1>4, <1>5 DEF Sound, Changing

LEMMA FoldersReadAll ==
  ASSUME DocsTyped, NEW load \in Load, Sound(load), load.pc = "folders",
         NEW read, read = [load.read EXCEPT !.folderDocs = FindUnder(Folders, load.read.parentIds)],
         NEW new, new = [load EXCEPT !.pc = "metas", !.read = read]
  PROVE  new \in Load /\ Sound(new)
<1>0. load.read \in Read /\ Closed(load.read, {}) /\ RequestsRead(load.read, {})
  BY DEF Sound, Load
<1> DEFINE found == FindUnder(Folders, load.read.parentIds)
<1>1. /\ found \in DocMaps(Folders)
      /\ \A id : id \in DOMAIN found <=> id \in Folders /\ id \in DOMAIN docs /\ docs[id].parent \in load.read.parentIds
      /\ \A id \in DOMAIN found : found[id] = docs[id]
  BY FindUnderIs
<1>2. read = [load.read EXCEPT !.folderDocs = found]
  OBVIOUS
<1> HIDE DEF found
<1>3. /\ read \in Read /\ read.folderDocs = found /\ read.docs = load.read.docs
      /\ read.stamp = load.read.stamp /\ read.parentIds = load.read.parentIds
  BY <1>0, <1>1, <1>2 DEF Read
<1>4. Closed(read, {}) /\ RequestsRead(read, {}) /\ FoldersRead(read)
  BY <1>0, <1>1, <1>3 DEF Closed, Fresh, RequestsRead, FoldersRead, Mirrors
<1>5. new \in Load /\ new.read = read /\ new.pc = "metas"
  BY <1>3 DEF Load, Steps
<1> QED BY <1>4, <1>5 DEF Sound, Changing

LEMMA MetasReadAll ==
  ASSUME DocsTyped, NEW load \in Load, Sound(load), load.pc = "metas",
         NEW read, read = [load.read EXCEPT !.metas = FindUnder(Metas, DOMAIN load.read.docs)],
         NEW new, new = [load EXCEPT !.pc = "folderMetas", !.read = read]
  PROVE  new \in Load /\ Sound(new)
<1>0. load.read \in Read /\ Closed(load.read, {}) /\ RequestsRead(load.read, {}) /\ FoldersRead(load.read)
  BY DEF Sound, Load
<1> DEFINE found == FindUnder(Metas, DOMAIN load.read.docs)
<1>1. /\ found \in DocMaps(Metas)
      /\ \A id : id \in DOMAIN found <=> id \in Metas /\ id \in DOMAIN docs /\ docs[id].parent \in DOMAIN load.read.docs
      /\ \A id \in DOMAIN found : found[id] = docs[id]
  BY FindUnderIs
<1>2. read = [load.read EXCEPT !.metas = found]
  OBVIOUS
<1> HIDE DEF found
<1>3. /\ read \in Read /\ read.metas = found /\ read.docs = load.read.docs
      /\ read.folderDocs = load.read.folderDocs
      /\ read.stamp = load.read.stamp /\ read.parentIds = load.read.parentIds
  BY <1>0, <1>1, <1>2 DEF Read
<1>4. Closed(read, {}) /\ RequestsRead(read, {}) /\ FoldersRead(read)
  BY <1>0, <1>3 DEF Closed, Fresh, RequestsRead, FoldersRead, Mirrors
<1>5. MetasRead(read, {}, {})
  BY <1>1, <1>3 DEF MetasRead
<1>6. new \in Load /\ new.read = read /\ new.pc = "folderMetas"
  BY <1>3 DEF Load, Steps
<1> QED BY <1>4, <1>5, <1>6 DEF Sound, Changing

LEMMA FolderMetasReadAll ==
  ASSUME DocsTyped, NEW load \in Load, Sound(load), load.pc = "folderMetas",
         NEW read, read = [load.read EXCEPT !.folderMetas = FindUnder(FolderMetas, load.read.parentIds)]
  PROVE  read \in Read /\ Full(read)
<1>0. /\ load.read \in Read /\ Closed(load.read, {}) /\ RequestsRead(load.read, {})
      /\ FoldersRead(load.read) /\ MetasRead(load.read, {}, {})
  BY DEF Sound, Load
<1> DEFINE found == FindUnder(FolderMetas, load.read.parentIds)
<1>1. /\ found \in DocMaps(FolderMetas)
      /\ \A id : id \in DOMAIN found <=> id \in FolderMetas /\ id \in DOMAIN docs /\ docs[id].parent \in load.read.parentIds
      /\ \A id \in DOMAIN found : found[id] = docs[id]
  BY FindUnderIs
<1>2. read = [load.read EXCEPT !.folderMetas = found]
  OBVIOUS
<1> HIDE DEF found
<1>3. /\ read \in Read /\ read.folderMetas = found /\ read.docs = load.read.docs
      /\ read.folderDocs = load.read.folderDocs /\ read.metas = load.read.metas
      /\ read.stamp = load.read.stamp /\ read.parentIds = load.read.parentIds
  BY <1>0, <1>1, <1>2 DEF Read
<1>4. Closed(read, {}) /\ RequestsRead(read, {}) /\ FoldersRead(read)
  BY <1>0, <1>3 DEF Closed, Fresh, RequestsRead, FoldersRead, Mirrors
<1>5. MetasRead(read, {}, {})
  BY <1>0, <1>3 DEF MetasRead, Fresh
<1>6. FolderMetasRead(read, {})
  BY <1>1, <1>3 DEF FolderMetasRead, Mirrors
<1> QED BY <1>3, <1>4, <1>5, <1>6 DEF Full
LEMMA ChangedRequestsRead ==
  ASSUME DocsTyped, NEW load \in Load, Sound(load), load.pc = "changed requests",
         NEW found, found = Replaced(load.read.docs, ChangedIn(load, Requests), load.read.parentIds),
         NEW read, read = [load.read EXCEPT !.docs = found],
         NEW added, added = DOMAIN found \ DOMAIN load.read.docs,
         NEW new, new = [load EXCEPT !.pc = "changed metas", !.read = read, !.added = added]
  PROVE  new \in Load /\ Sound(new)
<1> DEFINE changed == ChangedIn(load, Requests)
<1>d. DocsTyped
  OBVIOUS
<1>0. /\ load.read \in Read /\ Closed(load.read, {}) /\ RequestsRead(load.read, changed)
      /\ FoldersRead(load.read) /\ MetasRead(load.read, ChangedIn(load, Metas), {})
      /\ FolderMetasRead(load.read, ChangedIn(load, FolderMetas))
  BY DEF Sound, Load, Changing
<1>1. load.read.docs \in DocMaps(Requests) /\ changed \in SUBSET Requests
  BY <1>0 DEF Read, ChangedIn
<1>f. found = Replaced(load.read.docs, changed, load.read.parentIds)
  OBVIOUS
<1> HIDE DEF changed
<1>2. /\ found \in DocMaps(Requests)
      /\ \A id \in changed : id \in DOMAIN found <=> id \in DOMAIN docs /\ docs[id].parent \in load.read.parentIds
      /\ \A id : id \notin changed => (id \in DOMAIN found <=> id \in DOMAIN load.read.docs)
      /\ \A id \in DOMAIN found :
           /\ id \in changed => found[id] = docs[id]
           /\ id \notin changed => found[id] = load.read.docs[id]
  <2>1. found \in DocMaps(Requests)
    BY ONLY <1>d, <1>1, <1>f, ReplacedType
  <2> QED BY ONLY <1>f, <2>1, ReplacedIs
<1>3. /\ read \in Read /\ read.docs = found /\ read.metas = load.read.metas
      /\ read.folderDocs = load.read.folderDocs /\ read.folderMetas = load.read.folderMetas
      /\ read.stamp = load.read.stamp /\ read.parentIds = load.read.parentIds
  BY <1>0, <1>2 DEF Read
<1>4. Closed(read, {}) /\ FoldersRead(read) /\ FolderMetasRead(read, ChangedIn(load, FolderMetas))
  BY <1>0, <1>3 DEF Closed, Fresh, FoldersRead, FolderMetasRead, Mirrors
<1>5. RequestsRead(read, {})
  <2>1. ASSUME NEW r \in Requests, Fresh(r, read) PROVE Mirrors(read.docs, r, read.parentIds)
    <3>1. CASE r \in changed
      BY <1>2, <1>3, <3>1 DEF Mirrors
    <3>2. CASE r \notin changed
      <4>1. Mirrors(load.read.docs, r, load.read.parentIds)
        BY <1>0, <1>3, <2>1, <3>2 DEF RequestsRead, Fresh
      <4> QED BY <1>2, <1>3, <3>2, <4>1 DEF Mirrors
    <3> QED BY <3>1, <3>2
  <2> QED BY <2>1 DEF RequestsRead
<1>6. MetasRead(read, ChangedIn(load, Metas), added)
  BY <1>0, <1>3 DEF MetasRead, Fresh
<1>7. added \subseteq Requests
  <2>1. DOMAIN found \subseteq Requests
    BY ONLY <1>2, DocMapsAre
  <2> QED BY <2>1
<1>8. /\ new \in Load /\ new.read = read /\ new.pc = "changed metas" /\ new.added = added
      /\ new.changes = load.changes
  BY <1>3, <1>7 DEF Load, Steps
<1>9. ChangedIn(new, Metas) = ChangedIn(load, Metas) /\ ChangedIn(new, FolderMetas) = ChangedIn(load, FolderMetas)
  BY <1>8 DEF ChangedIn
<1> QED BY <1>4, <1>5, <1>6, <1>8, <1>9 DEF Sound, Changing

LEMMA ChangedMetasRead ==
  ASSUME DocsTyped, NEW load \in Load, Sound(load), load.pc = "changed metas",
         NEW found, found = Replaced(load.read.metas, ChangedIn(load, Metas), DOMAIN load.read.docs),
         NEW read, read = [load.read EXCEPT !.metas = found],
         NEW new, new = [load EXCEPT !.pc = "added metas", !.read = read]
  PROVE  new \in Load /\ Sound(new)
<1> DEFINE changed == ChangedIn(load, Metas)
<1>d. DocsTyped
  OBVIOUS
<1>0. /\ load.read \in Read /\ Closed(load.read, {}) /\ RequestsRead(load.read, {})
      /\ FoldersRead(load.read) /\ MetasRead(load.read, changed, load.added)
      /\ FolderMetasRead(load.read, ChangedIn(load, FolderMetas))
  BY DEF Sound, Load, Changing
<1>1. load.read.metas \in DocMaps(Metas) /\ changed \in SUBSET Metas
  BY <1>0 DEF Read, ChangedIn
<1>f. found = Replaced(load.read.metas, changed, DOMAIN load.read.docs)
  OBVIOUS
<1> HIDE DEF changed
<1>2. /\ found \in DocMaps(Metas)
      /\ \A id \in changed : id \in DOMAIN found <=> id \in DOMAIN docs /\ docs[id].parent \in DOMAIN load.read.docs
      /\ \A id : id \notin changed => (id \in DOMAIN found <=> id \in DOMAIN load.read.metas)
      /\ \A id \in DOMAIN found :
           /\ id \in changed => found[id] = docs[id]
           /\ id \notin changed => found[id] = load.read.metas[id]
  <2>1. found \in DocMaps(Metas)
    BY ONLY <1>d, <1>1, <1>f, ReplacedType
  <2> QED BY ONLY <1>f, <2>1, ReplacedIs
<1>3. /\ read \in Read /\ read.metas = found /\ read.docs = load.read.docs
      /\ read.folderDocs = load.read.folderDocs /\ read.folderMetas = load.read.folderMetas
      /\ read.stamp = load.read.stamp /\ read.parentIds = load.read.parentIds
  BY <1>0, <1>2 DEF Read
<1>4. /\ Closed(read, {}) /\ FoldersRead(read) /\ FolderMetasRead(read, ChangedIn(load, FolderMetas))
      /\ RequestsRead(read, {})
  BY <1>0, <1>3 DEF Closed, Fresh, FoldersRead, FolderMetasRead, RequestsRead, Mirrors
<1>5. MetasRead(read, {}, load.added)
  <2>1. ASSUME NEW m \in Metas, Fresh(m, read)
        PROVE  /\ m \in DOMAIN found => m \in DOMAIN docs /\ found[m] = docs[m]
               /\ m \in DOMAIN docs /\ docs[m].parent \in DOMAIN load.read.docs \ load.added => m \in DOMAIN found
    <3>1. CASE m \in changed
      BY <1>2, <3>1
    <3>2. CASE m \notin changed
      <4>1. /\ m \in DOMAIN load.read.metas => m \in DOMAIN docs /\ load.read.metas[m] = docs[m]
            /\ m \in DOMAIN docs /\ docs[m].parent \in DOMAIN load.read.docs \ load.added => m \in DOMAIN load.read.metas
        BY <1>0, <1>3, <2>1, <3>2 DEF MetasRead, Fresh
      <4> QED BY <1>2, <3>2, <4>1
    <3> QED BY <3>1, <3>2
  <2> QED BY <1>3, <2>1 DEF MetasRead
<1>8. /\ new \in Load /\ new.read = read /\ new.pc = "added metas" /\ new.added = load.added
      /\ new.changes = load.changes
  BY <1>3 DEF Load, Steps
<1>9. ChangedIn(new, FolderMetas) = ChangedIn(load, FolderMetas)
  BY <1>8 DEF ChangedIn
<1> QED BY <1>4, <1>5, <1>8, <1>9 DEF Sound, Changing

LEMMA AddedMetasRead ==
  ASSUME DocsTyped, NEW load \in Load, Sound(load), load.pc = "added metas",
         NEW all, all = Over(load.read.metas, FindUnder(Metas, load.added)),
         NEW read, read = [load.read EXCEPT !.metas = all],
         NEW new, new = [load EXCEPT !.pc = "changed folder metas", !.read = read]
  PROVE  new \in Load /\ Sound(new)
<1> DEFINE found == FindUnder(Metas, load.added)
<1>d. DocsTyped
  OBVIOUS
<1>0. /\ load.read \in Read /\ Closed(load.read, {}) /\ RequestsRead(load.read, {})
      /\ FoldersRead(load.read) /\ MetasRead(load.read, {}, load.added)
      /\ FolderMetasRead(load.read, ChangedIn(load, FolderMetas))
  BY DEF Sound, Load, Changing
<1>1. /\ found \in DocMaps(Metas)
      /\ \A id : id \in DOMAIN found <=> id \in Metas /\ id \in DOMAIN docs /\ docs[id].parent \in load.added
      /\ \A id \in DOMAIN found : found[id] = docs[id]
  BY ONLY <1>d, FindUnderIs
<1>f. all = Over(load.read.metas, found) /\ load.read.metas \in DocMaps(Metas)
  BY <1>0 DEF Read
<1> HIDE DEF found
<1>2. /\ all \in DocMaps(Metas) /\ DOMAIN all = DOMAIN load.read.metas \cup DOMAIN found
      /\ \A id \in DOMAIN found : all[id] = found[id]
      /\ \A id \in DOMAIN load.read.metas : id \notin DOMAIN found => all[id] = load.read.metas[id]
  <2>1. all \in DocMaps(Metas)
    BY ONLY <1>1, <1>f, OverType
  <2> QED BY ONLY <1>f, <2>1 DEF Over
<1>3. /\ read \in Read /\ read.metas = all /\ read.docs = load.read.docs
      /\ read.folderDocs = load.read.folderDocs /\ read.folderMetas = load.read.folderMetas
      /\ read.stamp = load.read.stamp /\ read.parentIds = load.read.parentIds
  BY <1>0, <1>2 DEF Read
<1>4. /\ Closed(read, {}) /\ FoldersRead(read) /\ FolderMetasRead(read, ChangedIn(load, FolderMetas))
      /\ RequestsRead(read, {})
  BY <1>0, <1>3 DEF Closed, Fresh, FoldersRead, FolderMetasRead, RequestsRead, Mirrors
<1>5. MetasRead(read, {}, {})
  <2>1. ASSUME NEW m \in Metas, Fresh(m, read)
        PROVE  /\ m \in DOMAIN all => m \in DOMAIN docs /\ all[m] = docs[m]
               /\ m \in DOMAIN docs /\ docs[m].parent \in DOMAIN load.read.docs => m \in DOMAIN all
    <3>1. /\ m \in DOMAIN load.read.metas => m \in DOMAIN docs /\ load.read.metas[m] = docs[m]
          /\ m \in DOMAIN docs /\ docs[m].parent \in DOMAIN load.read.docs \ load.added => m \in DOMAIN load.read.metas
      BY <1>0, <1>3, <2>1 DEF MetasRead, Fresh
    <3>2. CASE m \in DOMAIN found
      BY <1>1, <1>2, <3>2
    <3>3. CASE m \notin DOMAIN found
      BY <1>1, <1>2, <2>1, <3>1, <3>3
    <3> QED BY <3>2, <3>3
  <2> QED BY <1>3, <2>1 DEF MetasRead
<1>8. /\ new \in Load /\ new.read = read /\ new.pc = "changed folder metas" /\ new.changes = load.changes
  BY <1>3 DEF Load, Steps
<1>9. ChangedIn(new, FolderMetas) = ChangedIn(load, FolderMetas)
  BY <1>8 DEF ChangedIn
<1> QED BY <1>4, <1>5, <1>8, <1>9 DEF Sound, Changing

LEMMA ChangedFolderMetasRead ==
  ASSUME DocsTyped, NEW load \in Load, Sound(load), load.pc = "changed folder metas",
         NEW found, found = Replaced(load.read.folderMetas, ChangedIn(load, FolderMetas), load.read.parentIds),
         NEW read, read = [load.read EXCEPT !.folderMetas = found]
  PROVE  read \in Read /\ Full(read)
<1> DEFINE changed == ChangedIn(load, FolderMetas)
<1>d. DocsTyped
  OBVIOUS
<1>0. /\ load.read \in Read /\ Closed(load.read, {}) /\ RequestsRead(load.read, {})
      /\ FoldersRead(load.read) /\ MetasRead(load.read, {}, {})
      /\ FolderMetasRead(load.read, changed)
  BY DEF Sound, Load, Changing
<1>1. load.read.folderMetas \in DocMaps(FolderMetas) /\ changed \in SUBSET FolderMetas
  BY <1>0 DEF Read, ChangedIn
<1>f. found = Replaced(load.read.folderMetas, changed, load.read.parentIds)
  OBVIOUS
<1> HIDE DEF changed
<1>2. /\ found \in DocMaps(FolderMetas)
      /\ \A id \in changed : id \in DOMAIN found <=> id \in DOMAIN docs /\ docs[id].parent \in load.read.parentIds
      /\ \A id : id \notin changed => (id \in DOMAIN found <=> id \in DOMAIN load.read.folderMetas)
      /\ \A id \in DOMAIN found :
           /\ id \in changed => found[id] = docs[id]
           /\ id \notin changed => found[id] = load.read.folderMetas[id]
  <2>1. found \in DocMaps(FolderMetas)
    BY ONLY <1>d, <1>1, <1>f, ReplacedType
  <2> QED BY ONLY <1>f, <2>1, ReplacedIs
<1>3. /\ read \in Read /\ read.folderMetas = found /\ read.docs = load.read.docs
      /\ read.folderDocs = load.read.folderDocs /\ read.metas = load.read.metas
      /\ read.stamp = load.read.stamp /\ read.parentIds = load.read.parentIds
  BY <1>0, <1>2 DEF Read
<1>4. Closed(read, {}) /\ FoldersRead(read) /\ RequestsRead(read, {}) /\ MetasRead(read, {}, {})
  BY <1>0, <1>3 DEF Closed, Fresh, FoldersRead, MetasRead, RequestsRead, Mirrors
<1>5. FolderMetasRead(read, {})
  <2>1. ASSUME NEW g \in FolderMetas, Fresh(g, read) PROVE Mirrors(read.folderMetas, g, read.parentIds)
    <3>1. CASE g \in changed
      BY <1>2, <1>3, <3>1 DEF Mirrors
    <3>2. CASE g \notin changed
      <4>1. Mirrors(load.read.folderMetas, g, load.read.parentIds)
        BY <1>0, <1>3, <2>1, <3>2 DEF FolderMetasRead, Fresh
      <4> QED BY <1>2, <1>3, <3>2, <4>1 DEF Mirrors
    <3> QED BY <3>1, <3>2
  <2> QED BY <2>1 DEF FolderMetasRead
<1> QED BY <1>3, <1>4, <1>5 DEF Full

\* Once told what was written since a read, a load may be said to have read what
\* was not: what is written since has changed, or is gone.
LEMMA ToldOf ==
  ASSUME LogInv, NEW since \in 0..version, CanTell(since), NEW id \in Ids
  PROVE  \/ lastWrite[id] <= since /\ \A w \in ChangesSince(since) : w.id # id
         \/ \E w \in ChangesSince(since) : w.id = id /\ (w.removed => id \notin DOMAIN docs \ undone)
<1>1. /\ {w.id : w \in ChangesSince(since)} = {i \in Ids : lastWrite[i] > since}
      /\ \A w \in ChangesSince(since) : w.removed => w.id \notin DOMAIN docs \ undone
  BY LogInvSuffices DEF LogTellsAll
<1>2. lastWrite[id] \in Int /\ since \in Int
  BY DEF LogInv
<1>3. CASE lastWrite[id] > since
  <2>1. id \in {w.id : w \in ChangesSince(since)}
    BY <1>1, <1>3
  <2> QED BY <1>1, <2>1
<1>4. CASE ~(lastWrite[id] > since)
  <2>1. id \notin {w.id : w \in ChangesSince(since)}
    BY <1>1, <1>4
  <2> QED BY <1>2, <1>4, <2>1
<1> QED BY <1>3, <1>4
\* Nothing is told that is in the read or might come into it: it is still full.
LEMMA NothingRelevant ==
  ASSUME LogInv, NEW previous \in Read, Full(previous), CanTell(previous.stamp),
         NEW known, known = DOMAIN previous.docs \cup DOMAIN previous.folderDocs
                              \cup DOMAIN previous.metas \cup DOMAIN previous.folderMetas,
         \A w \in ChangesSince(previous.stamp) : w.removed /\ w.id \notin known,
         NEW read, read = [previous EXCEPT !.stamp = version]
  PROVE  read \in Read /\ Full(read)
<1>t. /\ Folders \subseteq Ids /\ Requests \subseteq Ids /\ Metas \subseteq Ids /\ FolderMetas \subseteq Ids
      /\ version \in Nat /\ previous.stamp \in 0..version
  BY IdsByType DEF LogInv, Full, Closed
<1>1. /\ read \in Read /\ read.stamp = version /\ read.parentIds = previous.parentIds
      /\ read.docs = previous.docs /\ read.folderDocs = previous.folderDocs
      /\ read.metas = previous.metas /\ read.folderMetas = previous.folderMetas
  BY <1>t DEF Read
<1>2. ASSUME NEW id \in Ids, Fresh(id, read)
      PROVE  Fresh(id, previous) \/ (id \notin DOMAIN docs /\ id \notin known)
  <2>1. id \notin undone
    BY <1>2 DEF Fresh
  <2> QED BY <1>t, <2>1, ToldOf DEF Fresh
<1>3. ASSUME NEW map, DOMAIN map \subseteq known, NEW id \in Ids, NEW parents, Fresh(id, read),
             Fresh(id, previous) => Mirrors(map, id, parents)
      PROVE  Mirrors(map, id, parents)
  BY <1>2, <1>3 DEF Mirrors
<1>4. Closed(read, {})
  <2>1. \A f \in Folders : f \in DOMAIN docs /\ Fresh(f, read) => Fresh(f, previous)
    BY <1>2, <1>t
  <2>2. version \in 0..version
    BY <1>t
  <2> QED BY <1>1, <2>1, <2>2 DEF Full, Closed
<1>5. RequestsRead(read, {})
  <2>1. DOMAIN previous.docs \subseteq known
    OBVIOUS
  <2> QED BY <1>1, <1>3, <1>t, <2>1 DEF Full, RequestsRead
<1>6. FoldersRead(read)
  <2>1. DOMAIN previous.folderDocs \subseteq known
    OBVIOUS
  <2> QED BY <1>1, <1>3, <1>t, <2>1 DEF Full, FoldersRead
<1>7. MetasRead(read, {}, {})
  <2>1. ASSUME NEW m \in Metas, Fresh(m, read)
        PROVE  /\ m \in DOMAIN previous.metas => m \in DOMAIN docs /\ previous.metas[m] = docs[m]
               /\ m \in DOMAIN docs /\ docs[m].parent \in DOMAIN previous.docs => m \in DOMAIN previous.metas
    BY <1>2, <1>t, <2>1 DEF Full, MetasRead
  <2> QED BY <1>1, <2>1 DEF MetasRead
<1>8. FolderMetasRead(read, {})
  <2>1. DOMAIN previous.folderMetas \subseteq known
    OBVIOUS
  <2> QED BY <1>1, <1>3, <1>t, <2>1 DEF Full, FolderMetasRead
<1> QED BY <1>1, <1>4, <1>5, <1>6, <1>7, <1>8 DEF Full

\* What is told since a read, and the read without what was removed.
ToldSince(previous, changes, removed, relevant, read) ==
  LET known == DOMAIN previous.docs \cup DOMAIN previous.folderDocs
                 \cup DOMAIN previous.metas \cup DOMAIN previous.folderMetas
  IN /\ changes = ChangesSince(previous.stamp)
     /\ removed = {w.id : w \in {w \in changes : w.removed}}
     /\ relevant = {w \in changes : w.removed => w.id \in known}
     /\ read = [previous EXCEPT !.stamp = version,
                  !.docs = Without(@, removed), !.metas = Without(@, removed),
                  !.folderMetas = Without(@, removed)]

\* What was removed is gone from the read; what was written, but for folders, is
\* about to be read.
LEMMA SomeRelevant ==
  ASSUME LogInv, NEW previous \in Read, Full(previous), CanTell(previous.stamp),
         NEW changes, NEW removed, NEW relevant, NEW read,
         ToldSince(previous, changes, removed, relevant, read),
         \A w \in relevant : /\ w.removed => w.id \notin DOMAIN previous.folderDocs
                             /\ ~w.removed => w.id \notin Folders,
         NEW new, new = [Idle EXCEPT !.pc = "changed requests", !.read = read, !.changes = relevant]
  PROVE  new \in Load /\ Sound(new)
<1> USE DEF ToldSince
<1>t. /\ Folders \subseteq Ids /\ Requests \subseteq Ids /\ Metas \subseteq Ids /\ FolderMetas \subseteq Ids
      /\ version \in Nat /\ previous.stamp \in 0..version
  BY IdsByType DEF LogInv, Full, Closed
<1>m. /\ previous.docs \in DocMaps(Requests) /\ previous.metas \in DocMaps(Metas)
      /\ previous.folderMetas \in DocMaps(FolderMetas)
  BY DEF Read
<1>1. /\ read.stamp = version /\ read.parentIds = previous.parentIds
      /\ read.docs = Without(previous.docs, removed) /\ read.folderDocs = previous.folderDocs
      /\ read.metas = Without(previous.metas, removed)
      /\ read.folderMetas = Without(previous.folderMetas, removed)
  BY DEF Read
<1>2. read \in Read
  <2>1. /\ Without(previous.docs, removed) \in DocMaps(Requests)
        /\ Without(previous.metas, removed) \in DocMaps(Metas)
        /\ Without(previous.folderMetas, removed) \in DocMaps(FolderMetas)
    BY <1>m, WithoutType
  <2>2. /\ previous.parentIds \in SUBSET (Folders \cup {Workspace})
        /\ previous.folderDocs \in DocMaps(Folders)
    BY DEF Read
  <2>3. read = [stamp |-> version, parentIds |-> previous.parentIds,
                docs |-> Without(previous.docs, removed), folderDocs |-> previous.folderDocs,
                metas |-> Without(previous.metas, removed),
                folderMetas |-> Without(previous.folderMetas, removed)]
    BY DEF Read
  <2>4. version \in Int
    BY <1>t
  <2> QED BY ONLY <2>1, <2>2, <2>3, <2>4 DEF Read
<1>3. relevant \subseteq Write
  <2>1. PICK n \in 0..version : writes \in [n + 1..version -> Write]
    BY DEF LogInv
  <2>2. ChangesSince(previous.stamp) \subseteq Write
    BY <2>1 DEF ChangesSince
  <2> QED BY <2>2
<1>4. /\ new \in Load /\ new.pc = "changed requests" /\ new.read = read /\ new.changes = relevant
  BY <1>2, <1>3 DEF Idle, Load, Steps
<1>5. ASSUME NEW id \in Ids, Fresh(id, read)
      PROVE  \/ Fresh(id, previous) /\ id \notin removed
             \/ id \in removed /\ id \notin DOMAIN docs
             \/ id \notin Folders /\ \A type : id \in type => id \in ChangedIn(new, type)
  <2>0. id \notin undone
    BY <1>5 DEF Fresh
  <2>1. CASE lastWrite[id] <= previous.stamp /\ \A w \in changes : w.id # id
    BY <2>0, <2>1 DEF Fresh
  <2>2. ASSUME NEW w \in changes, w.id = id, w.removed => id \notin DOMAIN docs \ undone
        PROVE  \/ id \in removed /\ id \notin DOMAIN docs
               \/ id \notin Folders /\ \A type : id \in type => id \in ChangedIn(new, type)
    <3>1. CASE w.removed
      BY <2>0, <2>2, <3>1
    <3>2. CASE ~w.removed
      <4>1. w \in relevant
        BY <3>2
      <4> QED BY <1>4, <2>2, <3>2, <4>1 DEF ChangedIn
    <3> QED BY <3>1, <3>2
  <2> QED BY <1>t, <2>1, <2>2, ToldOf
<1>6. ASSUME NEW f \in Folders, Fresh(f, read)
      PROVE  Fresh(f, previous) \/ (f \notin DOMAIN docs /\ f \notin DOMAIN previous.folderDocs)
  <2>1. ASSUME f \in removed PROVE f \notin DOMAIN previous.folderDocs
    <3>1. PICK w \in changes : w.removed /\ w.id = f
      BY <2>1
    <3>2. f \in DOMAIN previous.folderDocs => w \in relevant
      BY <3>1
    <3> QED BY <3>1, <3>2
  <2> QED BY <1>5, <1>6, <1>t, <2>1
<1> HIDE DEF ChangedIn
<1>7. Closed(read, {})
  <2>1. version \in 0..version
    BY <1>t
  <2> QED BY <1>1, <1>6, <2>1 DEF Full, Closed
<1>8. FoldersRead(read)
  BY <1>1, <1>6 DEF Full, FoldersRead, Mirrors
<1>9. ASSUME NEW map, NEW id, NEW parents, Fresh(id, previous) => Mirrors(map, id, parents),
             (Fresh(id, previous) /\ id \notin removed) \/ (id \in removed /\ id \notin DOMAIN docs)
      PROVE  Mirrors(Without(map, removed), id, parents)
  <2>1. id \in DOMAIN Without(map, removed) <=> id \in DOMAIN map /\ id \notin removed
    BY ONLY TRUE DEF Without, Restrict
  <2>2. id \in DOMAIN Without(map, removed) => Without(map, removed)[id] = map[id]
    BY ONLY TRUE DEF Without, Restrict
  <2> QED BY <1>9, <2>1, <2>2 DEF Mirrors
<1>10. RequestsRead(read, ChangedIn(new, Requests))
  <2>1. ASSUME NEW r \in Requests \ ChangedIn(new, Requests), Fresh(r, read)
        PROVE  Mirrors(read.docs, r, read.parentIds)
    <3>1. Fresh(r, previous) => Mirrors(previous.docs, r, previous.parentIds)
      BY DEF Full, RequestsRead
    <3>2. (Fresh(r, previous) /\ r \notin removed) \/ (r \in removed /\ r \notin DOMAIN docs)
      BY <1>5, <1>t, <2>1
    <3> QED BY <1>1, <1>9, <3>1, <3>2
  <2> QED BY <2>1 DEF RequestsRead
<1>11. FolderMetasRead(read, ChangedIn(new, FolderMetas))
  <2>1. ASSUME NEW g \in FolderMetas \ ChangedIn(new, FolderMetas), Fresh(g, read)
        PROVE  Mirrors(read.folderMetas, g, read.parentIds)
    <3>1. Fresh(g, previous) => Mirrors(previous.folderMetas, g, previous.parentIds)
      BY DEF Full, FolderMetasRead
    <3>2. (Fresh(g, previous) /\ g \notin removed) \/ (g \in removed /\ g \notin DOMAIN docs)
      BY <1>5, <1>t, <2>1
    <3> QED BY <1>1, <1>9, <3>1, <3>2
  <2> QED BY <2>1 DEF FolderMetasRead
<1>12. MetasRead(read, ChangedIn(new, Metas), {})
  <2>1. ASSUME NEW m \in Metas \ ChangedIn(new, Metas), Fresh(m, read)
        PROVE  /\ m \in DOMAIN read.metas => m \in DOMAIN docs /\ read.metas[m] = docs[m]
               /\ m \in DOMAIN docs /\ docs[m].parent \in DOMAIN read.docs \ {} => m \in DOMAIN read.metas
    <3>1. /\ m \in DOMAIN read.metas <=> m \in DOMAIN previous.metas /\ m \notin removed
          /\ m \in DOMAIN read.metas => read.metas[m] = previous.metas[m]
          /\ DOMAIN read.docs \subseteq DOMAIN previous.docs
      BY ONLY <1>1 DEF Without, Restrict
    <3>2. \/ Fresh(m, previous) /\ m \notin removed
          \/ m \in removed /\ m \notin DOMAIN docs
      BY <1>5, <1>t, <2>1
    <3>3. Fresh(m, previous) =>
            /\ m \in DOMAIN previous.metas => m \in DOMAIN docs /\ previous.metas[m] = docs[m]
            /\ m \in DOMAIN docs /\ docs[m].parent \in DOMAIN previous.docs => m \in DOMAIN previous.metas
      BY DEF Full, MetasRead
    <3> QED BY <3>1, <3>2, <3>3
  <2> QED BY <2>1 DEF MetasRead
<1> QED BY <1>4, <1>7, <1>8, <1>10, <1>11, <1>12 DEF Sound, Changing

\* All is read anew, from the workspace down.
LEMMA AllAnew ==
  ASSUME LogInv,
         NEW read, read = [NoRead EXCEPT !.stamp = version, !.parentIds = {Workspace}],
         NEW new, new = [Idle EXCEPT !.pc = "levels", !.level = {Workspace}, !.read = read]
  PROVE  new \in Load /\ Sound(new)
<1>1. version \in Nat /\ version \in 0..version /\ version \in Int
  BY DEF LogInv
<1>2. read \in Read /\ read.stamp = version /\ read.parentIds = {Workspace}
  BY <1>1, Starts DEF NoRead, Read
<1>3. Closed(read, {Workspace})
  BY <1>1, <1>2 DEF Closed
<1>4. new \in Load /\ new.read = read /\ new.pc = "levels" /\ new.level = {Workspace}
  BY <1>2 DEF Idle, Load, Steps
<1> QED BY <1>2, <1>3, <1>4 DEF Sound, Changing
-----------------------------------------------------------------------------
(* The steps *)

LEMMA StoreStep ==
  ASSUME LogInv, DocsTyped, [Next]_vars
  PROVE  DocsTyped' /\ StoreKept
<1>1. CASE UNCHANGED storeVars
  <2>1. /\ version \in Nat /\ version' = version /\ docs' = docs /\ lastWrite' = lastWrite
        /\ undone' = undone
    BY <1>1 DEF LogInv, storeVars
  <2>2. version' \in Nat /\ version' >= version
    BY <2>1
  <2>3. \A id \in Ids : AsWas(id)
    BY <2>1 DEF AsWas
  <2>4. DocsTyped'
    BY <2>1 DEF DocsTyped
  <2> QED BY <2>2, <2>3, <2>4 DEF StoreKept
<1>2. CASE \E i \in Instances : Writes(i.ids)
  <2>1. PICK ids \in SUBSET Ids : Writes(ids)
    BY <1>2, InstancesAssumption
  <2> QED BY <2>1, WritesMark DEF StoreKept
<1>3. Next => UNCHANGED storeVars \/ \E i \in Instances : Writes(i.ids)
  BY DEF Next, Begin, Asked, ReadLevel, ReadRequests, ReadFolders, ReadMetas, ReadFolderMetas,
         ReadChangedRequests, ReadChangedMetas, ReadAddedMetas, ReadChangedFolderMetas, Leave
<1> QED BY <1>1, <1>2, <1>3 DEF vars

\* What a step leaves of the reads is sound of the database as it was before it, ...
ReadSound ==
  /\ lastRead' \in Read
  /\ \A read \in Read : lastRead' = read => read = NoRead \/ Full(read)
LoadsSound ==
  /\ loads' \in [Loads -> Load]
  /\ \A l \in Loads, load \in Load : loads'[l] = load => Sound(load)

\* ... and so of the database as the step leaves it.
LEMMA StaySound ==
  ASSUME LogInv, LogInv', StoreKept, DocsTyped', ReadSound, LoadsSound
  PROVE  ReadInv'
<1>1. ASSUME NEW read \in Read, lastRead' = read PROVE read = NoRead \/ Full(read)'
  BY <1>1, FullKept DEF ReadSound
<1>2. ASSUME NEW l \in Loads, NEW load \in Load, loads'[l] = load PROVE Sound(load)'
  BY <1>2, SoundKept DEF LoadsSound
<1>3. (\A read \in Read : lastRead = read => read = NoRead \/ Full(read))'
  BY <1>1
<1>4. (\A l \in Loads, load \in Load : loads[l] = load => Sound(load))'
  BY <1>2
<1> QED BY <1>3, <1>4 DEF ReadInv, ReadTypes, ReadSound, LoadsSound

\* A step of one load.
LEMMA OneLoad ==
  ASSUME ReadInv, NEW l \in Loads, NEW new \in Load, Sound(new), loads' = [loads EXCEPT ![l] = new]
  PROVE  LoadsSound
  BY DEF ReadInv, ReadTypes, LoadsSound

LEMMA SameRead ==
  ASSUME ReadInv, lastRead' = lastRead
  PROVE  ReadSound
  BY DEF ReadInv, ReadTypes, ReadSound

\* A load that is done leaves a full read, this one or a later load's.
LEMMA FinishLeaves ==
  ASSUME ReadInv, NEW l \in Loads, NEW full \in Read, Full(full), Finish(l, full)
  PROVE  ReadSound /\ LoadsSound
<1>1. lastRead' = full \/ lastRead' = lastRead
  BY DEF Finish
<1>2. ReadSound
  BY <1>1 DEF ReadInv, ReadTypes, ReadSound
<1>3. Idle \in Load /\ Sound(Idle)
  BY Starts DEF Idle, Sound, Changing
<1>4. loads' = [loads EXCEPT ![l] = Idle]
  BY DEF Finish
<1> QED BY <1>2, <1>3, <1>4, OneLoad

LEMMA LoadStep ==
  ASSUME LogInv, ReadInv, NEW l \in Loads,
         \/ Begin(l) \/ Asked(l)
         \/ ReadLevel(l) \/ ReadRequests(l) \/ ReadFolders(l) \/ ReadMetas(l) \/ ReadFolderMetas(l)
         \/ ReadChangedRequests(l) \/ ReadChangedMetas(l) \/ ReadAddedMetas(l)
         \/ ReadChangedFolderMetas(l)
  PROVE  ReadSound /\ LoadsSound
<1>1. PICK load \in Load : loads[l] = load /\ Sound(load)
  BY DEF ReadInv, ReadTypes
<1>2. loads \in [Loads -> Load] /\ DocsTyped
  BY DEF ReadInv, ReadTypes
<1>3. PICK last \in Read : lastRead = last /\ (last = NoRead \/ Full(last))
  BY DEF ReadInv, ReadTypes
<1>4. CASE Begin(l)
  <2>1. PICK new : new = [Idle EXCEPT !.pc = "asking", !.read = last]
    OBVIOUS
  <2>2. loads' = [loads EXCEPT ![l] = new] /\ lastRead' = lastRead
    BY <1>3, <1>4, <2>1 DEF Begin
  <2>3. new \in Load /\ new.pc = "asking" /\ new.read = last
    BY <1>3, <2>1 DEF Idle, Load, Steps
  <2>4. Sound(new)
    BY <1>3, <2>3 DEF Sound, Changing
  <2> QED BY <2>2, <2>3, <2>4, OneLoad, SameRead
<1>5. CASE Asked(l)
  <2> DEFINE previous == load.read
             changes == ChangesSince(previous.stamp)
             removed == {w.id : w \in {w \in changes : w.removed}}
             known == DOMAIN previous.docs \cup DOMAIN previous.folderDocs
                        \cup DOMAIN previous.metas \cup DOMAIN previous.folderMetas
             relevant == {w \in changes : w.removed => w.id \in known}
             all == \/ previous = NoRead \/ ~CanTell(previous.stamp)
                    \/ \E w \in relevant : IF w.removed THEN w.id \in DOMAIN previous.folderDocs
                                                        ELSE w.id \in Folders
             read == [previous EXCEPT !.stamp = version,
                        !.docs = Without(@, removed), !.metas = Without(@, removed),
                        !.folderMetas = Without(@, removed)]
  <2>1. load.pc = "asking" /\ previous \in Read /\ (previous = NoRead \/ Full(previous))
    BY <1>1, <1>5 DEF Asked, Load, Sound
  <2>2. /\ all => /\ loads' = [loads EXCEPT ![l] =
                        [Idle EXCEPT !.pc = "levels", !.level = {Workspace},
                           !.read = [NoRead EXCEPT !.stamp = version, !.parentIds = {Workspace}]]]
                  /\ lastRead' = lastRead
        /\ ~all /\ relevant = {} => Finish(l, [previous EXCEPT !.stamp = version])
        /\ ~all /\ relevant # {} =>
             /\ loads' = [loads EXCEPT ![l] = [Idle EXCEPT !.pc = "changed requests",
                                                 !.read = read, !.changes = relevant]]
             /\ lastRead' = lastRead
    BY <1>1, <1>5 DEF Asked
  <2>3. CASE all
    <3>1. PICK anew : anew = [NoRead EXCEPT !.stamp = version, !.parentIds = {Workspace}]
      OBVIOUS
    <3>2. PICK new : new = [Idle EXCEPT !.pc = "levels", !.level = {Workspace}, !.read = anew]
      OBVIOUS
    <3>3. new \in Load /\ Sound(new)
      BY <3>1, <3>2, AllAnew
    <3>4. loads' = [loads EXCEPT ![l] = new] /\ lastRead' = lastRead
      BY <2>2, <2>3, <3>1, <3>2
    <3> QED BY <3>3, <3>4, OneLoad, SameRead
  <2>4. CASE ~all
    <3>1. Full(previous) /\ CanTell(previous.stamp)
      BY <2>1, <2>4
    <3>2. CASE relevant = {}
      <4>1. \A w \in changes : w.removed /\ w.id \notin known
        BY <3>2
      <4>2. PICK full : full = [previous EXCEPT !.stamp = version]
        OBVIOUS
      <4>3. full \in Read /\ Full(full)
        BY <2>1, <3>1, <4>1, <4>2, NothingRelevant
      <4>4. Finish(l, full)
        BY <2>2, <2>4, <3>2, <4>2
      <4> QED BY <4>3, <4>4, FinishLeaves
    <3>3. CASE relevant # {}
      <4>1. \A w \in relevant : /\ w.removed => w.id \notin DOMAIN previous.folderDocs
                                /\ ~w.removed => w.id \notin Folders
        BY <2>4
      <4>2. PICK rest : rest = read
        OBVIOUS
      <4>3. PICK new : new = [Idle EXCEPT !.pc = "changed requests", !.read = rest, !.changes = relevant]
        OBVIOUS
      <4>4. new \in Load /\ Sound(new)
        <5>1. ToldSince(previous, changes, removed, relevant, rest)
          BY <4>2 DEF ToldSince
        <5> HIDE DEF changes, removed, known, relevant, read, all, previous
        <5> QED BY <2>1, <3>1, <4>1, <4>3, <5>1, SomeRelevant
      <4>5. loads' = [loads EXCEPT ![l] = new] /\ lastRead' = lastRead
        BY <2>2, <2>4, <3>3, <4>2, <4>3
      <4> QED BY <4>4, <4>5, OneLoad, SameRead
    <3> QED BY <3>2, <3>3
  <2> QED BY <2>3, <2>4
<1>6. CASE ReadLevel(l)
  <2>1. PICK level : level = DOMAIN FindUnder(Folders, load.level) \ load.read.parentIds
    OBVIOUS
  <2>2. PICK read : read = [load.read EXCEPT !.parentIds = @ \cup level]
    OBVIOUS
  <2>3. PICK new : new = [load EXCEPT !.level = level, !.read = read,
                                     !.pc = IF level = {} THEN "requests" ELSE @]
    OBVIOUS
  <2>4. load.pc = "levels" /\ lastRead' = lastRead
    BY <1>1, <1>6 DEF ReadLevel
  <2>5. loads' = [loads EXCEPT ![l] = new]
    BY <1>1, <1>2, <1>6, <2>1, <2>2, <2>3 DEF ReadLevel, Load
  <2>6. new \in Load /\ Sound(new)
    BY <1>1, <1>2, <2>1, <2>2, <2>3, <2>4, LevelRead
  <2> QED BY <2>4, <2>5, <2>6, OneLoad, SameRead
<1>7. CASE ReadRequests(l)
  <2>1. PICK read : read = [load.read EXCEPT !.docs = FindUnder(Requests, load.read.parentIds)]
    OBVIOUS
  <2>2. PICK new : new = [load EXCEPT !.pc = "folders", !.read = read]
    OBVIOUS
  <2>3. load.pc = "requests" /\ lastRead' = lastRead /\ loads' = [loads EXCEPT ![l] = new]
    BY <1>1, <1>2, <1>7, <2>1, <2>2 DEF ReadRequests, GoOn, Load
  <2>4. new \in Load /\ Sound(new)
    BY <1>1, <1>2, <2>1, <2>2, <2>3, RequestsReadAll
  <2> QED BY <2>3, <2>4, OneLoad, SameRead
<1>8. CASE ReadFolders(l)
  <2>1. PICK read : read = [load.read EXCEPT !.folderDocs = FindUnder(Folders, load.read.parentIds)]
    OBVIOUS
  <2>2. PICK new : new = [load EXCEPT !.pc = "metas", !.read = read]
    OBVIOUS
  <2>3. load.pc = "folders" /\ lastRead' = lastRead /\ loads' = [loads EXCEPT ![l] = new]
    BY <1>1, <1>2, <1>8, <2>1, <2>2 DEF ReadFolders, GoOn, Load
  <2>4. new \in Load /\ Sound(new)
    BY <1>1, <1>2, <2>1, <2>2, <2>3, FoldersReadAll
  <2> QED BY <2>3, <2>4, OneLoad, SameRead
<1>9. CASE ReadMetas(l)
  <2>1. PICK read : read = [load.read EXCEPT !.metas = FindUnder(Metas, DOMAIN load.read.docs)]
    OBVIOUS
  <2>2. PICK new : new = [load EXCEPT !.pc = "folderMetas", !.read = read]
    OBVIOUS
  <2>3. load.pc = "metas" /\ lastRead' = lastRead /\ loads' = [loads EXCEPT ![l] = new]
    BY <1>1, <1>2, <1>9, <2>1, <2>2 DEF ReadMetas, GoOn, Load
  <2>4. new \in Load /\ Sound(new)
    BY <1>1, <1>2, <2>1, <2>2, <2>3, MetasReadAll
  <2> QED BY <2>3, <2>4, OneLoad, SameRead
<1>10. CASE ReadFolderMetas(l)
  <2>1. PICK full : full = [load.read EXCEPT !.folderMetas = FindUnder(FolderMetas, load.read.parentIds)]
    OBVIOUS
  <2>2. load.pc = "folderMetas" /\ Finish(l, full)
    BY <1>1, <1>10, <2>1 DEF ReadFolderMetas
  <2>3. full \in Read /\ Full(full)
    BY <1>1, <1>2, <2>1, <2>2, FolderMetasReadAll
  <2> QED BY <2>2, <2>3, FinishLeaves
<1>11. CASE ReadChangedRequests(l)
  <2>0. Changed(l, Requests) = ChangedIn(load, Requests)
    BY <1>1 DEF Changed, ChangedIn
  <2>1. PICK found : found = Replaced(load.read.docs, ChangedIn(load, Requests), load.read.parentIds)
    OBVIOUS
  <2>2. PICK read : read = [load.read EXCEPT !.docs = found]
    OBVIOUS
  <2>3. PICK added : added = DOMAIN found \ DOMAIN load.read.docs
    OBVIOUS
  <2>4. PICK new : new = [load EXCEPT !.pc = "changed metas", !.read = read, !.added = added]
    OBVIOUS
  <2>5. load.pc = "changed requests" /\ lastRead' = lastRead
    BY <1>1, <1>11 DEF ReadChangedRequests
  <2>6. loads' = [loads EXCEPT ![l] = new]
    BY <1>1, <1>2, <1>11, <2>0, <2>1, <2>2, <2>3, <2>4 DEF ReadChangedRequests, Load
  <2>7. new \in Load /\ Sound(new)
    BY <1>1, <1>2, <2>1, <2>2, <2>3, <2>4, <2>5, ChangedRequestsRead
  <2> QED BY <2>5, <2>6, <2>7, OneLoad, SameRead
<1>12. CASE ReadChangedMetas(l)
  <2>0. Changed(l, Metas) = ChangedIn(load, Metas)
    BY <1>1 DEF Changed, ChangedIn
  <2>1. PICK found : found = Replaced(load.read.metas, ChangedIn(load, Metas), DOMAIN load.read.docs)
    OBVIOUS
  <2>2. PICK read : read = [load.read EXCEPT !.metas = found]
    OBVIOUS
  <2>3. PICK new : new = [load EXCEPT !.pc = "added metas", !.read = read]
    OBVIOUS
  <2>4. load.pc = "changed metas" /\ lastRead' = lastRead /\ loads' = [loads EXCEPT ![l] = new]
    BY <1>1, <1>2, <1>12, <2>0, <2>1, <2>2, <2>3 DEF ReadChangedMetas, GoOn, Load
  <2>5. new \in Load /\ Sound(new)
    BY <1>1, <1>2, <2>1, <2>2, <2>3, <2>4, ChangedMetasRead
  <2> QED BY <2>4, <2>5, OneLoad, SameRead
<1>13. CASE ReadAddedMetas(l)
  <2>1. PICK both : both = Over(load.read.metas, FindUnder(Metas, load.added))
    OBVIOUS
  <2>2. PICK read : read = [load.read EXCEPT !.metas = both]
    OBVIOUS
  <2>3. PICK new : new = [load EXCEPT !.pc = "changed folder metas", !.read = read]
    OBVIOUS
  <2>4. load.pc = "added metas" /\ lastRead' = lastRead /\ loads' = [loads EXCEPT ![l] = new]
    BY <1>1, <1>2, <1>13, <2>1, <2>2, <2>3 DEF ReadAddedMetas, GoOn, Load
  <2>5. new \in Load /\ Sound(new)
    BY <1>1, <1>2, <2>1, <2>2, <2>3, <2>4, AddedMetasRead
  <2> QED BY <2>4, <2>5, OneLoad, SameRead
<1>14. CASE ReadChangedFolderMetas(l)
  <2>0. Changed(l, FolderMetas) = ChangedIn(load, FolderMetas)
    BY <1>1 DEF Changed, ChangedIn
  <2>1. PICK found : found = Replaced(load.read.folderMetas, ChangedIn(load, FolderMetas), load.read.parentIds)
    OBVIOUS
  <2>2. PICK full : full = [load.read EXCEPT !.folderMetas = found]
    OBVIOUS
  <2>3. load.pc = "changed folder metas" /\ Finish(l, full)
    BY <1>1, <1>14, <2>0, <2>1, <2>2 DEF ReadChangedFolderMetas
  <2>4. full \in Read /\ Full(full)
    BY <1>1, <1>2, <2>1, <2>2, <2>3, ChangedFolderMetasRead
  <2> QED BY <2>3, <2>4, FinishLeaves
<1> QED BY <1>4, <1>5, <1>6, <1>7, <1>8, <1>9, <1>10, <1>11, <1>12, <1>13, <1>14
LEMMA ReadStep ==
  ASSUME LogInv, ReadInv, [Next]_vars
  PROVE  ReadInv'
<1>1. LogInv' /\ StoreKept /\ DocsTyped'
  BY StepInv, StoreStep DEF ReadInv
<1>2. CASE UNCHANGED <<lastRead, loads>>
  <2>1. ReadSound /\ LoadsSound
    BY <1>2 DEF ReadInv, ReadTypes, ReadSound, LoadsSound
  <2> QED BY <1>1, <2>1, StaySound
<1>3. CASE Leave
  <2>1. LoadsSound
    BY <1>3 DEF Leave, ReadInv, ReadTypes, LoadsSound
  <2>2. ReadSound
    BY <1>3, Starts DEF Leave, ReadSound
  <2> QED BY <1>1, <2>1, <2>2, StaySound
<1>4. ASSUME NEW l \in Loads,
             \/ Begin(l) \/ Asked(l)
             \/ ReadLevel(l) \/ ReadRequests(l) \/ ReadFolders(l) \/ ReadMetas(l) \/ ReadFolderMetas(l)
             \/ ReadChangedRequests(l) \/ ReadChangedMetas(l) \/ ReadAddedMetas(l)
             \/ ReadChangedFolderMetas(l)
      PROVE  ReadInv'
  BY <1>1, <1>4, LoadStep, StaySound
<1> QED BY <1>2, <1>3, <1>4 DEF Next, vars

LEMMA ReadInit == Init => ReadInv
<1> SUFFICES ASSUME Init PROVE ReadInv
  OBVIOUS
<1>1. DocsTyped
  <2>1. PICK ids \in SUBSET Ids : docs \in [ids -> [parent : Parents, v : {0}]]
    BY DEF Init, StoreInit
  <2>2. [parent : Parents, v : {0}] \subseteq Doc
    BY DEF Doc
  <2> QED BY <2>1, <2>2 DEF DocsTyped
<1>2. lastRead = NoRead /\ loads = [l \in Loads |-> Idle]
  BY DEF Init
<1>3. Idle.pc = "idle" /\ Idle.read = NoRead
  BY DEF Idle
<1>4. Sound(Idle)
  BY <1>3 DEF Sound, Changing
<1>5. ReadTypes
  BY <1>2, Starts DEF ReadTypes
<1> QED BY <1>1, <1>2, <1>4, <1>5 DEF ReadInv

\* Whatever is written while loads are under way, however they overlap, the docs
\* a read holds are those of the database but for what was written since its stamp.
THEOREM SpecReadInv == Spec => [](LogInv /\ ReadInv)
<1>1. Init => LogInv /\ ReadInv
  BY InitInv, ReadInit
<1>2. LogInv /\ ReadInv /\ [Next]_vars => (LogInv /\ ReadInv)'
  BY StepInv, ReadStep
<1> QED
  BY <1>1, <1>2, PTL DEF Spec

-----------------------------------------------------------------------------
(* What it gives *)

\* A read's stamp is of a version the log has had.
LEMMA ReadTyped ==
  ASSUME LogInv, NEW read \in Read, read = NoRead \/ read.stamp \in 0..version
  PROVE  IsRead(read)
<1>1. version \in Nat
  BY DEF LogInv
<1>2. read.stamp \in -1..version
  <2>1. NoRead.stamp = -1
    BY DEF NoRead
  <2>2. -1 \in -1..version /\ 0..version \subseteq -1..version
    BY <1>1
  <2> QED BY <2>1, <2>2
<1>3. ASSUME NEW type, NEW map \in DocMaps(type) PROVE IsDocMap(map, type)
  BY <1>3, DocMapsAre DEF IsDocMap
<1>4. /\ read.parentIds \subseteq Folders \cup {Workspace}
      /\ read.docs \in DocMaps(Requests) /\ read.folderDocs \in DocMaps(Folders)
      /\ read.metas \in DocMaps(Metas) /\ read.folderMetas \in DocMaps(FolderMetas)
  BY DEF Read
<1>5. /\ IsDocMap(read.docs, Requests) /\ IsDocMap(read.folderDocs, Folders)
      /\ IsDocMap(read.metas, Metas) /\ IsDocMap(read.folderMetas, FolderMetas)
  BY <1>3, <1>4
<1> QED BY <1>2, <1>4, <1>5 DEF IsRead

LEMMA InvTyped == LogInv /\ ReadInv => TypeOK
<1> SUFFICES ASSUME LogInv, ReadInv PROVE TypeOK
  OBVIOUS
<1>1. StoreTypeOK
  BY DEF LogInv, ReadInv, DocsTyped, StoreTypeOK
<1>2. IsRead(lastRead)
  <2>1. PICK read \in Read : lastRead = read /\ (read = NoRead \/ Full(read))
    BY DEF ReadInv, ReadTypes
  <2> QED BY <2>1, ReadTyped DEF Full, Closed
<1>3. ASSUME NEW l \in Loads
      PROVE  /\ loads[l].pc \in Steps /\ IsRead(loads[l].read)
             /\ loads[l].level \subseteq Folders \cup {Workspace}
             /\ loads[l].changes \subseteq Write
             /\ loads[l].added \subseteq Requests
  <2>1. PICK load \in Load : loads[l] = load /\ Sound(load)
    BY DEF ReadInv, ReadTypes
  <2>2. load.read = NoRead \/ load.read.stamp \in 0..version
    BY <2>1 DEF Sound, Full, Closed, Changing, Steps, Load
  <2>3. load.read \in Read
    BY DEF Load
  <2>4. IsRead(load.read)
    BY <2>2, <2>3, ReadTyped
  <2> QED BY <2>1, <2>4 DEF Load
<1> QED BY <1>1, <1>2, <1>3 DEF TypeOK

\* The tree of a full read's folders is the database's, unless one was written.
LEMMA SameTree ==
  ASSUME LogInv, NEW read \in Read, Full(read), \A f \in Folders : Fresh(f, read)
  PROVE  /\ TreeFolders(read.folderDocs) = TreeFolders(OfType(Folders))
         /\ TreeFolders(OfType(Folders)) \subseteq DOMAIN read.folderDocs
         /\ DOMAIN read.folderDocs \cup {Workspace} \subseteq read.parentIds
         /\ \A f \in DOMAIN read.folderDocs : f \in DOMAIN docs /\ read.folderDocs[f] = docs[f]
<1> DEFINE F == read.folderDocs
           D == OfType(Folders)
<1>1. /\ DOMAIN D = DOMAIN docs \cap Folders
      /\ \A f \in DOMAIN D : D[f] = docs[f]
  BY DEF OfType
<1>2. DOMAIN F \subseteq Folders
  BY DocMapsAre DEF Read
<1>3. \A f \in Folders : /\ f \in DOMAIN F <=> f \in DOMAIN docs /\ docs[f].parent \in read.parentIds
                         /\ f \in DOMAIN F => F[f] = docs[f]
  BY DEF Full, FoldersRead, Mirrors
<1>4. /\ Workspace \in read.parentIds
      /\ \A f \in Folders : f \in DOMAIN docs /\ docs[f].parent \in read.parentIds => f \in read.parentIds
  BY DEF Full, Closed
<1>5. DOMAIN F \cup {Workspace} \subseteq read.parentIds
  BY <1>2, <1>3, <1>4
<1>6. \A f \in DOMAIN F : f \in DOMAIN D /\ F[f] = D[f]
  BY <1>1, <1>2, <1>3
<1>7. \A f \in DOMAIN D : D[f].parent \in DOMAIN F \cup {Workspace} => f \in DOMAIN F
  BY <1>1, <1>3, <1>5
<1> HIDE DEF F, D
<1>8. ASSUME NEW f \in TreeFolders(F) PROVE f \in TreeFolders(D)
  <2>1. f \in DOMAIN D
    BY <1>6 DEF TreeFolders
  <2>2. ASSUME NEW S \in SUBSET DOMAIN D, Grown(D, S) PROVE f \in S
    <3>1. Grown(F, S \cap DOMAIN F)
      <4>1. ASSUME NEW g \in DOMAIN F, F[g].parent \in (S \cap DOMAIN F) \cup {Workspace}
            PROVE  g \in S \cap DOMAIN F
        BY <1>6, <2>2, <4>1 DEF Grown
      <4> QED BY <4>1 DEF Grown
    <3> QED BY <3>1 DEF TreeFolders
  <2> QED BY <2>1, <2>2 DEF TreeFolders
<1>9. ASSUME NEW f \in TreeFolders(D) PROVE f \in DOMAIN F /\ f \in TreeFolders(F)
  <2>1. f \in DOMAIN F
    <3>1. DOMAIN F \in SUBSET DOMAIN D /\ Grown(D, DOMAIN F)
      BY <1>6, <1>7 DEF Grown
    <3> QED BY <3>1 DEF TreeFolders
  <2>2. ASSUME NEW S \in SUBSET DOMAIN F, Grown(F, S) PROVE f \in S
    <3>1. Grown(D, S)
      <4>1. ASSUME NEW g \in DOMAIN D, D[g].parent \in S \cup {Workspace}
            PROVE  g \in S
        <5>1. g \in DOMAIN F /\ F[g] = D[g]
          BY <1>6, <1>7, <4>1
        <5> QED BY <2>2, <4>1, <5>1 DEF Grown
      <4> QED BY <4>1 DEF Grown
    <3>2. S \in SUBSET DOMAIN D
      BY <1>6
    <3> QED BY <3>1, <3>2 DEF TreeFolders
  <2> QED BY <2>1, <2>2 DEF TreeFolders
<1>10. TreeFolders(F) = TreeFolders(D) /\ TreeFolders(D) \subseteq DOMAIN F
  BY <1>8, <1>9
<1>11. \A f \in DOMAIN F : f \in DOMAIN docs /\ F[f] = docs[f]
  BY <1>1, <1>6
<1> QED BY <1>5, <1>10, <1>11 DEF F, D

LEMMA InvSuffices == LogInv /\ ReadInv => GivesWhatReadingItAllGives
<1> SUFFICES ASSUME LogInv, ReadInv PROVE GivesWhatReadingItAllGives
  OBVIOUS
<1>1. TypeOK
  BY InvTyped
<1>2. PICK read \in Read : lastRead = read /\ (read = NoRead \/ Full(read))
  BY DEF ReadInv, ReadTypes
<1> DEFINE tree == TreeFolders(OfType(Folders))
           shown == Shown(read.docs, read.folderDocs)
           there == Shown(OfType(Requests), OfType(Folders))
<1>3. ASSUME Full(read), \A f \in Folders : Fresh(f, read)
      PROVE  /\ TreeFolders(read.folderDocs) = tree
             /\ \A f \in tree : read.folderDocs[f] = docs[f]
             /\ \A r \in Requests : Fresh(r, read) => Same(shown, r, there)
             /\ \A m \in Metas : Fresh(m, read) =>
                  \A r \in DOMAIN shown : Fresh(r, read) =>
                    /\ m \in DOMAIN docs /\ docs[m].parent = r => Same(read.metas, m, docs)
                    /\ m \in DOMAIN read.metas /\ read.metas[m].parent = r => Same(read.metas, m, docs)
             /\ \A g \in FolderMetas : Fresh(g, read) =>
                  \A f \in tree :
                    /\ g \in DOMAIN docs /\ docs[g].parent = f => Same(read.folderMetas, g, docs)
                    /\ g \in DOMAIN read.folderMetas /\ read.folderMetas[g].parent = f =>
                         Same(read.folderMetas, g, docs)
  <2>1. /\ TreeFolders(read.folderDocs) = tree /\ tree \subseteq DOMAIN read.folderDocs
        /\ DOMAIN read.folderDocs \cup {Workspace} \subseteq read.parentIds
        /\ \A f \in DOMAIN read.folderDocs : f \in DOMAIN docs /\ read.folderDocs[f] = docs[f]
    BY <1>3, SameTree
  <2>2. /\ \A r : r \in DOMAIN shown <=> r \in DOMAIN read.docs /\ read.docs[r].parent \in {Workspace} \cup tree
        /\ \A r \in DOMAIN shown : shown[r] = read.docs[r]
    BY <2>1 DEF Shown
  <2>3. /\ \A r : r \in DOMAIN there <=>
               r \in Requests /\ r \in DOMAIN docs /\ docs[r].parent \in {Workspace} \cup tree
        /\ \A r \in DOMAIN there : there[r] = docs[r]
    BY DEF Shown, OfType
  <2> HIDE DEF tree, shown, there
  <2>4. \A f \in tree : read.folderDocs[f] = docs[f]
    BY <2>1
  <2>5. ASSUME NEW r \in Requests, Fresh(r, read) PROVE Same(shown, r, there)
    <3>1. /\ r \in DOMAIN read.docs <=> r \in DOMAIN docs /\ docs[r].parent \in read.parentIds
          /\ r \in DOMAIN read.docs => read.docs[r] = docs[r]
      BY <1>3, <2>5 DEF Full, RequestsRead, Mirrors
    <3>2. {Workspace} \cup tree \subseteq read.parentIds
      BY <2>1
    <3> QED BY <2>2, <2>3, <3>1, <3>2 DEF Same
  <2>6. ASSUME NEW m \in Metas, Fresh(m, read), NEW r \in DOMAIN shown
        PROVE  /\ m \in DOMAIN docs /\ docs[m].parent = r => Same(read.metas, m, docs)
               /\ m \in DOMAIN read.metas /\ read.metas[m].parent = r => Same(read.metas, m, docs)
    <3>1. /\ m \in DOMAIN read.metas => m \in DOMAIN docs /\ read.metas[m] = docs[m]
          /\ m \in DOMAIN docs /\ docs[m].parent \in DOMAIN read.docs => m \in DOMAIN read.metas
      BY <1>3, <2>6 DEF Full, MetasRead
    <3>2. r \in DOMAIN read.docs
      BY <2>2
    <3> QED BY <3>1, <3>2 DEF Same
  <2>7. ASSUME NEW g \in FolderMetas, Fresh(g, read), NEW f \in tree
        PROVE  /\ g \in DOMAIN docs /\ docs[g].parent = f => Same(read.folderMetas, g, docs)
               /\ g \in DOMAIN read.folderMetas /\ read.folderMetas[g].parent = f =>
                    Same(read.folderMetas, g, docs)
    <3>1. /\ g \in DOMAIN read.folderMetas <=> g \in DOMAIN docs /\ docs[g].parent \in read.parentIds
          /\ g \in DOMAIN read.folderMetas => read.folderMetas[g] = docs[g]
      BY <1>3, <2>7 DEF Full, FolderMetasRead, Mirrors
    <3>2. f \in read.parentIds
      BY <2>1
    <3> QED BY <3>1, <3>2 DEF Same
  <2> QED BY <2>1, <2>4, <2>5, <2>6, <2>7
<1> QED BY <1>1, <1>2, <1>3 DEF GivesWhatReadingItAllGives, Fresh

\* However many loads overlap, and whatever is written to the database between
\* their queries, what the last one gives is what reading it all gives, but for
\* docs written since it asked or whose removal was rolled back.
THEOREM GivesTheTree == Spec => []GivesWhatReadingItAllGives
<1> QED
  BY SpecReadInv, InvSuffices, PTL

-----------------------------------------------------------------------------
\* The loads under way after an action or a navigation, by their keys.
LoadKeys == Fetchers \cup {Nav}
From(k) == IF k = Nav THEN navigation.from ELSE fetchers[k].from

\* What the window was told of, and shows.
ToShow == {n \in Nat : IsTold(n)}

\* It is among the first m changes.
Covers(m) == \A n \in ToShow : m >= n

Types ==
  /\ fetchers \in [Fetchers -> Fetcher]
  /\ navigation \in Navigation
  /\ revalidation \in Int /\ readUpTo \in Nat
  /\ earlier \in [LoadKeys -> SUBSET LoadKeys]
  /\ pending \in BOOLEAN /\ loadedSince \in BOOLEAN /\ reloaded \in BOOLEAN
  /\ loadingThen \subseteq LoadKeys
  /\ actions \in 0..MaxActions /\ navigations \in 0..MaxNavigations

FeedTyped ==
  /\ announced \in Nat
  /\ waiting \in Seq(1..announced) /\ out \subseteq Seq(1..announced)
  /\ told \in [{Window} -> Seq(1..announced)]

\* The loads under way are in an order, and read no less than those before them.
Ordered ==
  /\ \A k \in LoadKeys : earlier[k] \subseteq UnderWay \ {k}
  /\ \A k \in LoadKeys \ UnderWay : earlier[k] = {}
  /\ \A j, k \in UnderWay : j # k => (j \in earlier[k] <=> k \notin earlier[j])

ReadInOrder ==
  /\ navigation.from <= announced /\ \A f \in Fetchers : fetchers[f].from <= announced
  /\ \A k \in UnderWay : \A j \in earlier[k] : From(j) <= From(k)
  /\ \A f \in Fetchers : fetchers[f].from = None => earlier[f] = {}
  /\ ~navigation.all => earlier[Nav] = {}

Waits ==
  /\ pending => WindowBusy(fetchers, navigation)
  /\ ~pending => loadingThen = {} /\ ~loadedSince /\ ~reloaded
  /\ pending /\ ~loadedSince => ActionLoads(fetchers, navigation) \subseteq loadingThen

\* An action that began alone is alone.
Alone(f) ==
  fetchers[f].alone =>
    /\ fetchers[f].state = "submitting"
    /\ \A g \in Fetchers \ {f} : fetchers[g].state = "idle"
    /\ navigation.state = "idle" /\ revalidation = None
    /\ ~reloaded /\ ~loadedSince

Submitting ==
  \A f \in Fetchers :
    /\ Alone(f) /\ fetchers[f].outrun # "revalidation"
    /\ fetchers[f].state # "loading" => fetchers[f].from = None /\ ~fetchers[f].redirects
    /\ fetchers[f].redirects => fetchers[f].from = None

Idling ==
  /\ navigation.state = "idle" => navigation = IdleNavigation
  /\ navigation.posted => navigation.all

\* A load of what was told is under way, or will be.
Coming(fs, nav) ==
  \/ nav.all /\ Covers(nav.from)
  \/ \E f \in Fetchers : fs[f].state = "loading" /\ Covers(fs[f].from)
  \/ \E f \in Fetchers : fs[f].state = "submitting" /\ fs[f].again /\ fs[f].outrun = "no"

\* What loads loads nothing.
NoneLoads(fs, nav, under) ==
  /\ under = None /\ nav.state = "idle"
  /\ \A f \in Fetchers : fs[f].state = "loading" => fs[f].from = None /\ ~fs[f].redirects

Reading ==
  /\ ~pending => \A n \in ToShow :
       readUpTo >= n \/ revalidation >= n \/ (navigation.all /\ navigation.from >= n)
  /\ pending /\ loadedSince =>
       \/ Covers(readUpTo)
       \/ Coming(fetchers, navigation)
       \/ ~reloaded /\ NoneLoads(fetchers, navigation, revalidation)

Inv == Types /\ FeedTyped /\ Ordered /\ ReadInOrder /\ Waits /\ Submitting /\ Idling /\ Reading

\* What the subscriber does, one variable at a time.
Does(fs, nav, then, new, under) ==
  /\ fetchers' = fs /\ navigation' = nav
  /\ pending' \in BOOLEAN /\ loadedSince' \in BOOLEAN /\ reloaded' \in BOOLEAN
  /\ pending' <=> pending /\ WindowBusy(fs, nav)
  /\ ~pending' => loadingThen' = {} /\ ~loadedSince' /\ ~reloaded'
  /\ pending' => loadingThen' = then
  /\ pending' => (loadedSince' <=> loadedSince \/ ActionLoads(fs, nav) \ then # {})
  /\ pending' => (reloaded' <=> reloaded \/ new)
  /\ ~pending \/ WindowBusy(fs, nav) => revalidation' = under
  /\ revalidation' = announced \/ revalidation' = under
  /\ pending /\ ~WindowBusy(fs, nav) /\ revalidation' # announced =>
       (loadedSince \/ ActionLoads(fs, nav) \ then # {}) /\ (reloaded \/ new)

\* It does that.
LEMMA SubscriberDoes ==
  ASSUME NEW fs, NEW nav, NEW then, NEW new \in BOOLEAN, NEW under, Types,
         Subscriber(fs, nav, then, new, under)
  PROVE  Does(fs, nav, then, new, under)
<1> DEFINE busy == WindowBusy(fs, nav)
           since == loadedSince \/ (pending /\ ActionLoads(fs, nav) \ then # {})
<1>1. /\ fetchers' = fs /\ navigation' = nav
      /\ pending' = (pending /\ busy)
      /\ loadingThen' = IF pending' THEN then ELSE {}
      /\ loadedSince' = (pending' /\ since)
      /\ reloaded' = (pending' /\ (reloaded \/ new))
      /\ revalidation' = IF pending /\ ~busy /\ ~(since /\ (reloaded \/ new)) THEN announced
                                                                             ELSE under
  BY DEF Subscriber
<1>2. pending \in BOOLEAN /\ loadedSince \in BOOLEAN /\ reloaded \in BOOLEAN
  BY DEF Types
<1> HIDE DEF busy
<1>3. pending' \in BOOLEAN /\ loadedSince' \in BOOLEAN /\ reloaded' \in BOOLEAN
  BY <1>1, <1>2
<1>4. /\ pending' <=> pending /\ busy
      /\ ~pending' => loadingThen' = {} /\ ~loadedSince' /\ ~reloaded'
      /\ pending' => loadingThen' = then
      /\ pending' => (loadedSince' <=> loadedSince \/ ActionLoads(fs, nav) \ then # {})
      /\ pending' => (reloaded' <=> reloaded \/ new)
  BY <1>1, <1>2
<1>5. /\ ~pending \/ busy => revalidation' = under
      /\ revalidation' = announced \/ revalidation' = under
      /\ pending /\ ~busy /\ revalidation' # announced =>
           (loadedSince \/ ActionLoads(fs, nav) \ then # {}) /\ (reloaded \/ new)
  BY <1>1, <1>2
<1> QED BY <1>1, <1>3, <1>4, <1>5 DEF busy, Does

LEMMA SubscriberTypes ==
  ASSUME NEW fs, NEW nav, NEW then, NEW new \in BOOLEAN, NEW under, Types, announced \in Nat,
         fs \in [Fetchers -> Fetcher], nav \in Navigation, then \subseteq LoadKeys, under \in Int,
         earlier' \in [LoadKeys -> SUBSET LoadKeys], readUpTo' \in Nat,
         actions' \in 0..MaxActions, navigations' \in 0..MaxNavigations,
         Subscriber(fs, nav, then, new, under)
  PROVE  Types'
<1>0. Does(fs, nav, then, new, under)
  BY SubscriberDoes
<1>1. /\ fetchers' = fs /\ navigation' = nav
      /\ pending' \in BOOLEAN /\ loadedSince' \in BOOLEAN /\ reloaded' \in BOOLEAN
      /\ ~pending' => loadingThen' = {}
      /\ pending' => loadingThen' = then
      /\ revalidation' = announced \/ revalidation' = under
  BY <1>0 DEF Does
<1>2. revalidation' \in Int /\ loadingThen' \subseteq LoadKeys
  BY <1>1
<1> QED BY <1>1, <1>2 DEF Types, LoadKeys

\* The wait is kept by whatever goes through the subscriber.
LEMMA SubscriberWaits ==
  ASSUME NEW fs, NEW nav, NEW then, NEW new \in BOOLEAN, NEW under, Types, Waits,
         Subscriber(fs, nav, then, new, under)
  PROVE  Waits'
<1>0. Does(fs, nav, then, new, under)
  BY SubscriberDoes
<1>1. /\ fetchers' = fs /\ navigation' = nav
      /\ pending' <=> pending /\ WindowBusy(fs, nav)
      /\ ~pending' => loadingThen' = {} /\ ~loadedSince' /\ ~reloaded'
      /\ pending' => loadingThen' = then
      /\ pending' => (loadedSince' <=> loadedSince \/ ActionLoads(fs, nav) \ then # {})
  BY <1>0 DEF Does
<1>2. WindowBusy(fs, nav) => WindowBusy(fetchers, navigation)'
  BY <1>1 DEF WindowBusy
<1>3. ActionLoads(fetchers, navigation)' = ActionLoads(fs, nav)
  BY <1>1 DEF ActionLoads
<1>4. pending' /\ ~loadedSince' => ActionLoads(fs, nav) \subseteq loadingThen'
  BY <1>1
<1> QED BY <1>1, <1>2, <1>3, <1>4 DEF Waits

\* So is the reading, if no load that is relied on goes by what is done first.
LEMMA SubscriberReads ==
  ASSUME NEW fs, NEW nav, NEW then, NEW new \in BOOLEAN, NEW under, Types,
         Subscriber(fs, nav, then, new, under),
         ToShow' = ToShow, Covers(announced), readUpTo' \in Nat,
         nav.state = "idle" => ~nav.all,
         ~pending => \A n \in ToShow :
            readUpTo' >= n \/ under >= n \/ (nav.all /\ nav.from >= n),
         pending /\ (loadedSince \/ ActionLoads(fs, nav) \ then # {}) =>
            \/ Covers(readUpTo')
            \/ Coming(fs, nav)
            \/ ~reloaded /\ ~new /\ NoneLoads(fs, nav, under)
  PROVE  Reading'
<1>0. Does(fs, nav, then, new, under)
  BY SubscriberDoes
<1>1. /\ fetchers' = fs /\ navigation' = nav
      /\ pending' \in BOOLEAN /\ loadedSince' \in BOOLEAN /\ reloaded' \in BOOLEAN
      /\ pending' <=> pending /\ WindowBusy(fs, nav)
      /\ pending' => (loadedSince' <=> loadedSince \/ ActionLoads(fs, nav) \ then # {})
      /\ pending' => (reloaded' <=> reloaded \/ new)
      /\ ~pending \/ WindowBusy(fs, nav) => revalidation' = under
      /\ revalidation' = announced \/ revalidation' = under
      /\ pending /\ ~WindowBusy(fs, nav) /\ revalidation' # announced =>
           (loadedSince \/ ActionLoads(fs, nav) \ then # {}) /\ (reloaded \/ new)
  BY <1>0 DEF Does
<1>2. ASSUME ~pending', NEW n \in ToShow
      PROVE  readUpTo' >= n \/ revalidation' >= n \/ (nav.all /\ nav.from >= n)
  <2>1. CASE ~pending
    BY <1>1, <1>2, <2>1
  <2>2. CASE pending /\ revalidation' = announced
    BY <1>2, <2>2 DEF Covers
  <2>3. CASE pending /\ revalidation' # announced
    <3>1. ~WindowBusy(fs, nav) /\ (loadedSince \/ ActionLoads(fs, nav) \ then # {}) /\ (reloaded \/ new)
      BY <1>1, <1>2, <2>3
    <3>2. nav.state = "idle" /\ \A f \in Fetchers : fs[f].state = "idle"
      BY <3>1 DEF WindowBusy
    <3>3. ~Coming(fs, nav)
      BY <3>2 DEF Coming
    <3>4. Covers(readUpTo')
      BY <2>3, <3>1, <3>3
    <3> QED BY <1>2, <3>4 DEF Covers
  <2> QED BY <2>1, <2>2, <2>3
<1>3. ASSUME pending', loadedSince'
      PROVE  \/ Covers(readUpTo')
             \/ Coming(fs, nav)
             \/ ~reloaded' /\ NoneLoads(fs, nav, revalidation')
  BY <1>1, <1>3
<1>4. Covers(readUpTo') <=> Covers(readUpTo)'
  BY DEF Covers
<1>5. Coming(fs, nav) <=> Coming(fetchers, navigation)'
  BY <1>1 DEF Coming, Covers
<1>6. NoneLoads(fs, nav, revalidation') <=> NoneLoads(fetchers, navigation, revalidation)'
  BY <1>1 DEF NoneLoads
<1> QED BY <1>1, <1>2, <1>3, <1>4, <1>5, <1>6 DEF Reading

LEMMA LoadingType ==
  ASSUME announced \in Nat
  PROVE
  /\ IdleFetcher \in Fetcher /\ IdleNavigation \in Navigation
  /\ Loading(announced) \in Fetcher /\ Loading(None) \in Fetcher
  /\ [Loading(None) EXCEPT !.redirects = TRUE] \in Fetcher
<1>1. None \in Int
  BY DEF None
<1>2. IdleFetcher \in Fetcher /\ IdleNavigation \in Navigation
  BY <1>1 DEF IdleFetcher, Fetcher, IdleNavigation, Navigation
<1>3. ASSUME NEW n \in Int PROVE Loading(n) \in Fetcher
  BY <1>1 DEF IdleFetcher, Loading, Fetcher
<1>4. [Loading(None) EXCEPT !.redirects = TRUE] \in Fetcher
  BY <1>1, <1>3 DEF Fetcher
<1> QED BY <1>1, <1>2, <1>3, <1>4

LEMMA OutrunType ==
  ASSUME NEW fs \in [Fetchers -> Fetcher], NEW by \in {"navigation", "revalidation"}
  PROVE  Outrun(fs, by) \in [Fetchers -> Fetcher]
<1>1. ASSUME NEW f \in Fetchers PROVE [fs[f] EXCEPT !.outrun = by] \in Fetcher
  <2>1. fs[f] \in Fetcher
    BY <1>1
  <2> QED BY <2>1 DEF Fetcher
<1> QED BY <1>1 DEF Outrun

LEMMA UnderWayLoads == UnderWay \subseteq LoadKeys /\ Nav \in LoadKeys /\ Fetchers \subseteq LoadKeys
BY DEF UnderWay, LoadKeys

LEMMA EarlierWithoutType ==
  ASSUME Types, NEW keys PROVE EarlierWithout(keys) \in [LoadKeys -> SUBSET LoadKeys]
BY DEF EarlierWithout, Types, LoadKeys

LEMMA LaterType ==
  ASSUME Types, NEW n \in Int, Later(n)
  PROVE  readUpTo' \in Nat /\ readUpTo' >= readUpTo /\ readUpTo' >= n
BY DEF Later, Types

LEMMA GoTypes ==
  ASSUME Types, announced \in Nat, NEW fs \in [Fetchers -> Fetcher],
         NEW posted \in BOOLEAN, NEW all \in BOOLEAN, Go(fs, posted, all),
         readUpTo' \in Nat, actions' \in 0..MaxActions, navigations' \in 0..MaxNavigations
  PROVE  Types'
<1> DEFINE nav == [state |-> "loading", from |-> announced, posted |-> posted, all |-> all]
<1>1. nav \in Navigation
  BY DEF Navigation
<1>2. Outrun(fs, "navigation") \in [Fetchers -> Fetcher]
  BY OutrunType
<1>3. earlier' \in [LoadKeys -> SUBSET LoadKeys]
  <2>1. earlier' = [EarlierWithout({Nav}) EXCEPT ![Nav] = UnderWay \ {Nav}]
    BY DEF Go
  <2> QED BY <2>1, EarlierWithoutType, UnderWayLoads
<1>4. loadingThen \ {Nav} \subseteq LoadKeys /\ None \in Int
  BY DEF Types, None
<1>5. Subscriber(Outrun(fs, "navigation"), nav, loadingThen \ {Nav}, FALSE, None)
  BY DEF Go
<1> HIDE DEF nav
<1> QED BY <1>1, <1>2, <1>3, <1>4, <1>5, SubscriberTypes

\* What an action makes of its fetcher, and the load that may begin with it.
LEMMA SettleTypes ==
  ASSUME Types, announced \in Nat, NEW f \in Fetchers, NEW v \in Fetcher,
         Subscriber([fetchers EXCEPT ![f] = v], navigation, loadingThen, FALSE, revalidation),
         Begins(f) \/ UNCHANGED earlier, UNCHANGED <<readUpTo, bounds>>
  PROVE  Types'
<1>1. /\ [fetchers EXCEPT ![f] = v] \in [Fetchers -> Fetcher]
      /\ navigation \in Navigation /\ loadingThen \subseteq LoadKeys /\ revalidation \in Int
      /\ readUpTo' \in Nat /\ actions' \in 0..MaxActions /\ navigations' \in 0..MaxNavigations
  BY DEF Types, bounds
<1>2. earlier' \in [LoadKeys -> SUBSET LoadKeys]
  BY UnderWayLoads DEF Begins, Types
<1> QED BY <1>1, <1>2, SubscriberTypes

LEMMA SubmitTypes ==
  ASSUME Types, announced \in Nat, NEW f \in Fetchers, Submit(f)
  PROVE  Types'
<1> DEFINE alone == ~WindowBusy(fetchers, navigation) /\ revalidation = None
           fs == [g \in Fetchers |->
                    IF g = f THEN [IdleFetcher EXCEPT !.state = "submitting", !.alone = alone,
                                                      !.again = fetchers[f].state # "idle"]
                             ELSE [fetchers[g] EXCEPT !.alone = FALSE]]
<1>1. [IdleFetcher EXCEPT !.state = "submitting", !.alone = alone,
                          !.again = fetchers[f].state # "idle"] \in Fetcher
  BY LoadingType DEF Fetcher
<1>2. ASSUME NEW g \in Fetchers PROVE [fetchers[g] EXCEPT !.alone = FALSE] \in Fetcher
  BY DEF Fetcher, Types
<1>3. fs \in [Fetchers -> Fetcher]
  BY <1>1, <1>2
<1>4. Subscriber(fs, navigation, loadingThen, FALSE, revalidation)
  BY DEF Submit
<1>5. /\ navigation \in Navigation /\ loadingThen \subseteq LoadKeys /\ revalidation \in Int
      /\ readUpTo' \in Nat /\ navigations' \in 0..MaxNavigations
      /\ earlier' \in [LoadKeys -> SUBSET LoadKeys]
  BY EarlierWithoutType DEF Types, Submit
<1>6. actions' \in 0..MaxActions
  BY BoundsAssumption DEF Types, Submit
<1> HIDE DEF fs
<1> QED BY <1>3, <1>4, <1>5, <1>6, SubscriberTypes

LEMMA EndedType ==
  ASSUME Types, announced \in Nat, NEW keys PROVE Ended(fetchers, keys) \in [Fetchers -> Fetcher]
BY LoadingType DEF Ended, Types

LEMMA FetcherLoadedTypes ==
  ASSUME Types, announced \in Nat, NEW f \in Fetchers, FetcherLoaded(f)
  PROVE  Types'
<1> DEFINE gone == earlier[f] \cup {f}
           redirected == {g \in Fetchers : Nav \in gone /\ fetchers[g].redirects}
           nav == IF Nav \in gone THEN IdleNavigation ELSE navigation
           then == IF Nav \in gone THEN loadingThen \ {Nav} ELSE loadingThen
           fs == Ended(fetchers, gone \cup redirected)
           new == fetchers[f].from # None
<1>1. fs \in [Fetchers -> Fetcher]
  BY EndedType
<1>2. nav \in Navigation /\ then \subseteq LoadKeys /\ new \in BOOLEAN /\ revalidation \in Int
  BY LoadingType DEF Types
<1>3. earlier' = EarlierWithout(gone) /\ Later(fetchers[f].from)
      /\ Subscriber(fs, nav, then, new, revalidation)
      /\ UNCHANGED <<feed, bounds>>
  BY DEF FetcherLoaded
<1>4. fetchers[f].from \in Int
  BY DEF Types, Fetcher
<1>5. readUpTo' \in Nat
  BY <1>3, <1>4, LaterType
<1>6. earlier' \in [LoadKeys -> SUBSET LoadKeys]
  BY <1>3, EarlierWithoutType
<1>7. actions' \in 0..MaxActions /\ navigations' \in 0..MaxNavigations
  BY <1>3 DEF Types, bounds
<1> HIDE DEF fs, nav, then, new
<1> QED BY <1>1, <1>2, <1>3, <1>5, <1>6, <1>7, SubscriberTypes

LEMMA NavigationLoadedTypes ==
  ASSUME Types, announced \in Nat, NavigationLoaded
  PROVE  Types'
<1> DEFINE gone == earlier[Nav] \cup {f \in Fetchers : fetchers[f].redirects}
           n == IF navigation.all THEN navigation.from ELSE 0
<1>1. PICK new \in BOOLEAN :
        Subscriber(Ended(fetchers, gone), IdleNavigation, loadingThen \ {Nav}, new, revalidation)
  BY DEF NavigationLoaded
<1>2. earlier' = EarlierWithout(gone \cup {Nav}) /\ Later(n) /\ UNCHANGED <<feed, bounds>>
  BY DEF NavigationLoaded
<1>3. n \in Int
  BY DEF Types, Navigation
<1>4. readUpTo' \in Nat
  BY <1>2, <1>3, LaterType
<1>5. earlier' \in [LoadKeys -> SUBSET LoadKeys]
  BY <1>2, EarlierWithoutType
<1>6. actions' \in 0..MaxActions /\ navigations' \in 0..MaxNavigations
  BY <1>2 DEF Types, bounds
<1>7. loadingThen \ {Nav} \subseteq LoadKeys /\ revalidation \in Int
  BY DEF Types
<1>8. Ended(fetchers, gone) \in [Fetchers -> Fetcher] /\ IdleNavigation \in Navigation
  BY EndedType, LoadingType
<1> HIDE DEF gone
<1> QED BY <1>1, <1>4, <1>5, <1>6, <1>7, <1>8, SubscriberTypes

LEMMA RevalidatedTypes ==
  ASSUME Types, announced \in Nat, Revalidated
  PROVE  Types'
<1>1. readUpTo' \in Nat
  BY LaterType DEF Revalidated, Types
<1>2. /\ fetchers \in [Fetchers -> Fetcher] /\ navigation \in Navigation
      /\ loadingThen \subseteq LoadKeys /\ None \in Int
      /\ earlier' \in [LoadKeys -> SUBSET LoadKeys]
      /\ actions' \in 0..MaxActions /\ navigations' \in 0..MaxNavigations
  BY DEF Types, None, Revalidated, bounds
<1>3. Subscriber(fetchers, navigation, loadingThen, TRUE, None)
  BY DEF Revalidated
<1> QED BY <1>1, <1>2, <1>3, SubscriberTypes

LEMMA ToldTypes ==
  ASSUME Types, announced \in Nat, NEW batch, Told(batch)
  PROVE  Types'
<1>1. Listener(batch) /\ UNCHANGED <<readUpTo, bounds>>
  BY DEF Told
<1>2. CASE UNCHANGED <<router, waits>>
  BY <1>1, <1>2 DEF Types, router, waits, bounds
<1>3. CASE /\ pending' = TRUE /\ loadedSince' = FALSE /\ reloaded' = FALSE
           /\ loadingThen' = ActionLoads(fetchers, navigation) /\ UNCHANGED router
  <2>1. loadingThen' \subseteq LoadKeys
    BY <1>3 DEF ActionLoads, LoadKeys
  <2> QED BY <1>1, <1>3, <2>1 DEF Types, router, bounds
<1>4. CASE Revalidate /\ UNCHANGED <<navigation, earlier, waits>>
  <2>1. fetchers' \in [Fetchers -> Fetcher]
    BY <1>4, OutrunType DEF Revalidate, Types
  <2> QED BY <1>1, <1>4, <2>1 DEF Types, Revalidate, waits, bounds
<1> QED BY <1>1, <1>2, <1>3, <1>4 DEF Listener

LEMMA NavigateTypes ==
  ASSUME Types, announced \in Nat, NEW all \in BOOLEAN, Navigate(all)
  PROVE  Types'
<1>1. ASSUME NEW f \in Fetchers PROVE [fetchers[f] EXCEPT !.alone = FALSE] \in Fetcher
  BY DEF Types, Fetcher
<1>2. [f \in Fetchers |-> [fetchers[f] EXCEPT !.alone = FALSE]] \in [Fetchers -> Fetcher]
  BY <1>1
<1>3. readUpTo' \in Nat /\ actions' \in 0..MaxActions /\ navigations' \in 0..MaxNavigations
  BY BoundsAssumption DEF Types, Navigate
<1> QED BY <1>2, <1>3, GoTypes DEF Navigate

LEMMA SettlesTypes ==
  ASSUME Types, announced \in Nat, NEW f \in Fetchers, Settles(f)
  PROVE  Types'
<1>1. CASE ActionDone(f)
  BY <1>1, LoadingType, SettleTypes DEF ActionDone
<1>2. CASE ActionRefused(f)
  <2>1. Loading(None) \in Fetcher
    BY LoadingType
  <2> QED BY <1>2, <2>1, SettleTypes DEF ActionRefused
<1>3. CASE ActionThrows(f)
  BY <1>3, LoadingType, SettleTypes DEF ActionThrows, bounds
<1>4. CASE ActionRedirects(f)
  <2>1. CASE fetchers[f].outrun = "no"
    <3>1. [Loading(None) EXCEPT !.redirects = TRUE] \in Fetcher
      BY LoadingType
    <3>2. [fetchers EXCEPT ![f] = [Loading(None) EXCEPT !.redirects = TRUE]]
            \in [Fetchers -> Fetcher]
      BY <3>1 DEF Types
    <3>3. /\ Go([fetchers EXCEPT ![f] = [Loading(None) EXCEPT !.redirects = TRUE]], TRUE, TRUE)
          /\ readUpTo' \in Nat /\ actions' \in 0..MaxActions /\ navigations' \in 0..MaxNavigations
      BY <1>4, <2>1 DEF ActionRedirects, Types, bounds
    <3> QED BY <3>2, <3>3, GoTypes
  <2>2. CASE fetchers[f].outrun # "no"
    BY <1>4, <2>2, LoadingType, SettleTypes DEF ActionRedirects
  <2> QED BY <2>1, <2>2
<1> QED BY <1>1, <1>2, <1>3, <1>4 DEF Settles

\* Every step keeps the types.
LEMMA TypesStep ==
  ASSUME Types, announced \in Nat, [WindowNext]_windowVars
  PROVE  Types'
<1>1. CASE Changes
  BY <1>1 DEF Changes, Types, router, waits, bounds
<1>2. CASE UNCHANGED windowVars
  BY <1>2 DEF Types, windowVars, router, waits, bounds
<1> QED
  BY <1>1, <1>2, ToldTypes, SubmitTypes, NavigateTypes, SettlesTypes, FetcherLoadedTypes,
     NavigationLoadedTypes, RevalidatedTypes DEF WindowNext, GoesOn

-----------------------------------------------------------------------------
LEMMA LongerSeq ==
  ASSUME NEW m \in Nat, NEW n \in Nat, m <= n
  PROVE  \A s \in Seq(1..m) : s \in Seq(1..n)
<1> TAKE s \in Seq(1..m)
<1>1. s \in [1..Len(s) -> 1..m] /\ Len(s) \in Nat
  OBVIOUS
<1>2. s \in [1..Len(s) -> 1..n]
  BY <1>1
<1> QED BY <1>1, <1>2

LEMMA InSeq ==
  ASSUME NEW S
  PROVE  /\ \A s \in Seq(S) : \A i \in 1..Len(s) : s[i] \in S
         /\ \A k \in Nat : \A s \in [1..k -> S] : s \in Seq(S)
OBVIOUS

\* What the feed holds and tells are changes that were made.
LEMMA FeedStep ==
  ASSUME FeedTyped, Types, [WindowNext]_windowVars
  PROVE  FeedTyped' /\ announced' >= announced
<1> USE DEF FeedTyped
<1>1. ASSUME NEW k \in 1..2, Feed!Announce(k) \/ Feed!AnnounceAtOnce(k)
      PROVE  FeedTyped' /\ announced' >= announced
  <2>1. announced' = announced + k /\ told' = told
    BY <1>1 DEF Feed!Announce, Feed!AnnounceAtOnce
  <2>2. announced' \in Nat /\ announced' >= announced
    BY <2>1
  <2>3. /\ waiting \in Seq(1..announced') /\ out \subseteq Seq(1..announced')
        /\ told' \in [{Window} -> Seq(1..announced')]
    BY <2>1, <2>2, LongerSeq
  <2>4. CASE Feed!Announce(k)
    <3>1. Feed!New(k) \in Seq(1..announced')
      <4>1. Feed!New(k) \in [1..k -> 1..announced']
        BY <2>1 DEF Feed!New
      <4>2. k \in Nat
        OBVIOUS
      <4> QED BY <4>1, <4>2, InSeq
    <3>2. waiting' = waiting \o Feed!New(k) /\ out' = out
      BY <2>4 DEF Feed!Announce
    <3>3. waiting' \in Seq(1..announced')
      BY <2>3, <3>1, <3>2
    <3> QED BY <2>2, <2>3, <3>2, <3>3
  <2>5. CASE Feed!AnnounceAtOnce(k)
    <3>1. /\ waiting' = <<>>
          /\ out' = out \cup {Append(waiting, announced + 1)} \cup {<<announced + i>> : i \in 2..k}
      BY <2>5 DEF Feed!AnnounceAtOnce
    <3>2. announced + 1 \in 1..announced' /\ \A i \in 2..k : announced + i \in 1..announced'
      BY <2>1
    <3>3. Append(waiting, announced + 1) \in Seq(1..announced')
      BY <2>3, <3>2
    <3>4. \A i \in 2..k : <<announced + i>> \in Seq(1..announced')
      BY <3>2
    <3>5. out' \subseteq Seq(1..announced')
      BY <2>3, <3>1, <3>3, <3>4
    <3>6. waiting' \in Seq(1..announced')
      BY <3>1
    <3> QED BY <2>2, <2>3, <3>5, <3>6
  <2> QED BY <1>1, <2>4, <2>5
<1>2. ASSUME Feed!SendOut PROVE FeedTyped' /\ announced' >= announced
  BY <1>2 DEF Feed!SendOut
<1>3. ASSUME NEW batch \in out, Feed!Lose(batch) PROVE FeedTyped' /\ announced' >= announced
  BY <1>3 DEF Feed!Lose
<1>4. ASSUME NEW batch \in out, Feed!Tell(batch) PROVE FeedTyped' /\ announced' >= announced
  <2>1. /\ out' = out \ {batch} /\ announced' = announced /\ waiting' = waiting
        /\ told' = [w \in {Window} |-> told[w] \o batch]
    BY <1>4 DEF Feed!Tell
  <2>2. told[Window] \o batch \in Seq(1..announced)
    BY <1>4
  <2> QED BY <2>1, <2>2
<1>5. ASSUME UNCHANGED feed PROVE FeedTyped' /\ announced' >= announced
  BY <1>5 DEF feed
<1>6. WindowNext => Changes \/ (\E batch \in out : Feed!Tell(batch)) \/ UNCHANGED feed
  BY DEF WindowNext, GoesOn, Told, Submit, Navigate, Settles, ActionDone, ActionRefused, ActionThrows,
         ActionRedirects, FetcherLoaded, NavigationLoaded, Revalidated
<1>7. CASE Changes
  BY <1>1, <1>2, <1>3, <1>7 DEF Changes
<1> QED BY <1>4, <1>5, <1>6, <1>7 DEF windowVars

\* What the window was told of was announced.
LEMMA AnnouncedCovers ==
  ASSUME FeedTyped PROVE Covers(announced)
<1>1. ASSUME NEW n \in ToShow PROVE announced >= n
  <2>1. PICK i \in 1..Len(told[Window]) : told[Window][i] = n
    BY DEF ToShow, IsTold
  <2>2. told[Window] \in Seq(1..announced)
    BY DEF FeedTyped
  <2>3. told[Window][i] \in 1..announced
    BY <2>2, InSeq
  <2> QED BY <2>1, <2>3 DEF FeedTyped
<1> QED BY <1>1 DEF Covers

-----------------------------------------------------------------------------
\* Of two fetchers, the same but for what the third argument says.
SameBut(v, u, but) ==
  /\ v.state = u.state /\ v.from = u.from /\ v.redirects = u.redirects /\ v.again = u.again
  /\ "outrun" \notin but => v.outrun = u.outrun
  /\ "alone" \notin but => v.alone = u.alone

LEMMA IdleFields ==
  /\ IdleFetcher.state = "idle" /\ IdleFetcher.from = None /\ ~IdleFetcher.redirects
  /\ IdleFetcher.outrun = "no" /\ ~IdleFetcher.alone /\ ~IdleFetcher.again
  /\ IdleNavigation.state = "idle" /\ IdleNavigation.from = None
  /\ ~IdleNavigation.posted /\ ~IdleNavigation.all
BY DEF IdleFetcher, IdleNavigation

LEMMA LoadingFields ==
  ASSUME NEW n
  PROVE  /\ Loading(n).state = "loading" /\ Loading(n).from = n /\ ~Loading(n).redirects
         /\ Loading(n).outrun = "no" /\ ~Loading(n).alone /\ ~Loading(n).again
BY DEF IdleFetcher, Loading

\* A submitted action: its fetcher, and the others.
LEMMA SubmitDoes ==
  ASSUME Types, NEW f \in Fetchers, Submit(f)
  PROVE  \E fs \in [Fetchers -> Fetcher] :
           /\ fs[f].state = "submitting" /\ fs[f].from = None /\ ~fs[f].redirects
           /\ fs[f].outrun = "no" /\ (fetchers[f].state # "idle" => fs[f].again)
           /\ fs[f].alone => ~WindowBusy(fetchers, navigation) /\ revalidation = None
           /\ \A g \in Fetchers \ {f} : SameBut(fs[g], fetchers[g], {"alone"}) /\ ~fs[g].alone
           /\ Subscriber(fs, navigation, loadingThen, FALSE, revalidation)
           /\ fetchers' = fs /\ navigation' = navigation
           /\ earlier' = EarlierWithout({f}) /\ UNCHANGED <<feed, readUpTo>>
<1> DEFINE alone == ~WindowBusy(fetchers, navigation) /\ revalidation = None
           mine == [IdleFetcher EXCEPT !.state = "submitting", !.alone = alone,
                                       !.again = fetchers[f].state # "idle"]
           fs == [g \in Fetchers |-> IF g = f THEN mine ELSE [fetchers[g] EXCEPT !.alone = FALSE]]
<1>1. Subscriber(fs, navigation, loadingThen, FALSE, revalidation)
      /\ earlier' = EarlierWithout({f}) /\ UNCHANGED <<feed, readUpTo>>
  BY DEF Submit
<1>2. fetchers' = fs /\ navigation' = navigation
  BY <1>1 DEF Subscriber
<1>3. alone \in BOOLEAN /\ (fetchers[f].state # "idle") \in BOOLEAN
  OBVIOUS
<1>4. mine \in Fetcher
  <2> HIDE DEF alone
  <2>1. IdleFetcher \in Fetcher
    BY DEF IdleFetcher, Fetcher, None
  <2> QED BY <1>3, <2>1 DEF Fetcher
<1>5. /\ mine.state = "submitting" /\ mine.from = None /\ ~mine.redirects /\ mine.outrun = "no"
      /\ mine.alone = alone /\ mine.again = (fetchers[f].state # "idle")
  <2> HIDE DEF alone
  <2> QED BY <1>3 DEF IdleFetcher
<1>6. ASSUME NEW g \in Fetchers \ {f}
      PROVE  /\ fs[g] \in Fetcher
             /\ SameBut(fs[g], fetchers[g], {"alone"}) /\ ~fs[g].alone
  <2>1. fs[g] = [fetchers[g] EXCEPT !.alone = FALSE] /\ fetchers[g] \in Fetcher
    BY DEF Types
  <2> QED BY <2>1 DEF Fetcher, SameBut
<1>7. fs[f] = mine /\ fs \in [Fetchers -> Fetcher]
  BY <1>4, <1>6
<1> HIDE DEF fs, mine
<1>8. fs[f].alone => ~WindowBusy(fetchers, navigation) /\ revalidation = None
  BY <1>5, <1>7
<1>9. fetchers[f].state # "idle" => fs[f].again
  BY <1>5, <1>7
<1> QED BY <1>1, <1>2, <1>5, <1>6, <1>7, <1>8, <1>9

\* A settled action: what becomes of its fetcher.
Settled(f, v) ==
  /\ Subscriber([fetchers EXCEPT ![f] = v], navigation, loadingThen, FALSE, revalidation)
  /\ fetchers'[f] = v /\ fetchers' \in [Fetchers -> Fetcher]
  /\ \A g \in Fetchers \ {f} : fetchers'[g] = fetchers[g]
  /\ navigation' = navigation /\ readUpTo' = readUpTo /\ announced' = announced /\ told' = told
  /\ fetchers[f].state = "submitting"

\* A navigation that begins.
Gone(fs, posted, all) ==
  /\ fetchers' \in [Fetchers -> Fetcher]
  /\ \A g \in Fetchers : SameBut(fetchers'[g], fs[g], {"outrun"})
  /\ \A g \in Fetchers : IF fs[g].state = "submitting" THEN fetchers'[g].outrun = "navigation"
                         ELSE fetchers'[g].outrun = fs[g].outrun
  /\ navigation' \in Navigation /\ navigation'.state = "loading" /\ navigation'.from = announced
  /\ navigation'.posted = posted /\ navigation'.all = all
  /\ earlier'[Nav] = UnderWay \ {Nav}
  /\ \A k \in Fetchers : earlier'[k] = earlier[k] \ {Nav}
  /\ Subscriber(fetchers', navigation', loadingThen \ {Nav}, FALSE, None)

LEMMA GoDoes ==
  ASSUME Types, announced \in Nat, NEW fs \in [Fetchers -> Fetcher], NEW posted \in BOOLEAN,
         NEW all \in BOOLEAN, Go(fs, posted, all)
  PROVE  Gone(fs, posted, all)
<1> DEFINE nav == [state |-> "loading", from |-> announced, posted |-> posted, all |-> all]
           os == Outrun(fs, "navigation")
<1>1. /\ earlier' = [EarlierWithout({Nav}) EXCEPT ![Nav] = UnderWay \ {Nav}]
      /\ Subscriber(os, nav, loadingThen \ {Nav}, FALSE, None)
  BY DEF Go
<1>2. fetchers' = os /\ navigation' = nav
  BY <1>1 DEF Subscriber
<1>3. os \in [Fetchers -> Fetcher]
  BY OutrunType
<1>4. ASSUME NEW g \in Fetchers
      PROVE  /\ SameBut(os[g], fs[g], {"outrun"})
             /\ IF fs[g].state = "submitting" THEN os[g].outrun = "navigation"
                ELSE os[g].outrun = fs[g].outrun
  <2>1. os[g] = IF fs[g].state = "submitting" THEN [fs[g] EXCEPT !.outrun = "navigation"] ELSE fs[g]
    BY DEF Outrun
  <2>2. fs[g] \in Fetcher
    BY <1>4
  <2> QED BY <2>1, <2>2 DEF Fetcher, SameBut
<1>5. /\ earlier'[Nav] = UnderWay \ {Nav}
      /\ \A k \in Fetchers : earlier'[k] = earlier[k] \ {Nav}
  BY <1>1, FetchersAssumption DEF EarlierWithout
<1>6. /\ nav \in Navigation /\ nav.state = "loading" /\ nav.from = announced
      /\ nav.posted = posted /\ nav.all = all
  BY DEF Navigation
<1> HIDE DEF nav, os
<1> QED BY <1>1, <1>2, <1>3, <1>4, <1>5, <1>6 DEF Gone

LEMMA SettlesDoes ==
  ASSUME Types, announced \in Nat, NEW f \in Fetchers, Settles(f)
  PROVE  \/ ActionDone(f) /\ Settled(f, Loading(announced)) /\ Begins(f)
         \/ /\ ActionRefused(f) /\ Settled(f, Loading(None)) /\ Begins(f)
            /\ fetchers[f].alone \/ FailuresOverlap
         \/ /\ ActionThrows(f) /\ Settled(f, IdleFetcher) /\ UNCHANGED earlier
            /\ ~fetchers[f].again \/ FailuresOverlap
         \/ /\ ActionRedirects(f) /\ fetchers[f].outrun # "no"
            /\ Settled(f, IdleFetcher) /\ UNCHANGED earlier
         \/ /\ ActionRedirects(f) /\ fetchers[f].outrun = "no" /\ fetchers[f].state = "submitting"
            /\ Gone([fetchers EXCEPT ![f] = [Loading(None) EXCEPT !.redirects = TRUE]], TRUE, TRUE)
            /\ UNCHANGED <<feed, readUpTo>>
<1>1. ASSUME NEW v \in Fetcher, fetchers[f].state = "submitting", UNCHANGED <<feed, readUpTo>>,
             Subscriber([fetchers EXCEPT ![f] = v], navigation, loadingThen, FALSE, revalidation)
      PROVE  Settled(f, v)
  BY <1>1 DEF Settled, Subscriber, Types, feed
<1>2. /\ IdleFetcher \in Fetcher /\ Loading(announced) \in Fetcher /\ Loading(None) \in Fetcher
      /\ [Loading(None) EXCEPT !.redirects = TRUE] \in Fetcher
  BY LoadingType
<1>3. CASE ActionDone(f)
  BY <1>1, <1>2, <1>3 DEF ActionDone
<1>4. CASE ActionRefused(f)
  BY <1>1, <1>2, <1>4 DEF ActionRefused
<1>5. CASE ActionThrows(f)
  BY <1>1, <1>2, <1>5 DEF ActionThrows
<1>6. CASE ActionRedirects(f) /\ fetchers[f].outrun # "no"
  BY <1>1, <1>2, <1>6 DEF ActionRedirects
<1>7. CASE ActionRedirects(f) /\ fetchers[f].outrun = "no"
  <2> DEFINE fs == [fetchers EXCEPT ![f] = [Loading(None) EXCEPT !.redirects = TRUE]]
  <2>1. fs \in [Fetchers -> Fetcher]
    BY <1>2 DEF Types
  <2>2. /\ Go(fs, TRUE, TRUE) /\ fetchers[f].state = "submitting"
        /\ UNCHANGED <<feed, readUpTo>>
    BY <1>7 DEF ActionRedirects
  <2> HIDE DEF fs
  <2>3. Gone(fs, TRUE, TRUE)
    BY <2>1, <2>2, GoDoes
  <2> QED BY <1>7, <2>2, <2>3 DEF fs
<1> QED BY <1>3, <1>4, <1>5, <1>6, <1>7 DEF Settles

LEMMA NavigateDoes ==
  ASSUME Types, announced \in Nat, NEW all \in BOOLEAN, Navigate(all)
  PROVE  \E fs \in [Fetchers -> Fetcher] :
           /\ \A g \in Fetchers : SameBut(fs[g], fetchers[g], {"alone"}) /\ ~fs[g].alone
           /\ Gone(fs, FALSE, all)
           /\ ~all => /\ revalidation = None /\ ~navigation.all
                      /\ \A g \in Fetchers : fetchers[g].state = "idle"
           /\ UNCHANGED <<feed, readUpTo>>
<1> DEFINE fs == [f \in Fetchers |-> [fetchers[f] EXCEPT !.alone = FALSE]]
<1>1. ASSUME NEW g \in Fetchers
      PROVE  fs[g] \in Fetcher /\ SameBut(fs[g], fetchers[g], {"alone"}) /\ ~fs[g].alone
  <2>1. fs[g] = [fetchers[g] EXCEPT !.alone = FALSE] /\ fetchers[g] \in Fetcher
    BY DEF Types
  <2> QED BY <2>1 DEF Fetcher, SameBut
<1>2. fs \in [Fetchers -> Fetcher]
  BY <1>1
<1>3. /\ Go(fs, FALSE, all) /\ UNCHANGED <<feed, readUpTo>>
      /\ ~all => /\ revalidation = None /\ ~navigation.all
                 /\ \A g \in Fetchers : fetchers[g].state = "idle"
  BY DEF Navigate
<1> HIDE DEF fs
<1>4. Gone(fs, FALSE, all)
  BY <1>2, <1>3, GoDoes
<1> QED BY <1>1, <1>2, <1>3, <1>4

\* The fetchers when a load of every route has ended.
LEMMA EndedDoes ==
  ASSUME NEW keys
  PROVE  \A g \in Fetchers : Ended(fetchers, keys)[g] = IF g \in keys THEN IdleFetcher ELSE fetchers[g]
BY DEF Ended

\* The end of a fetcher's load, and of a navigation's.
LEMMA FetcherLoadedDoes ==
  ASSUME Types, NEW f \in Fetchers, FetcherLoaded(f), NEW gone, gone = earlier[f] \cup {f}
  PROVE  /\ fetchers[f].state = "loading" /\ ~fetchers[f].redirects
         /\ \A g \in Fetchers : fetchers'[g] =
              IF g \in gone \/ (Nav \in gone /\ fetchers[g].redirects) THEN IdleFetcher
                                                                       ELSE fetchers[g]
         /\ navigation' = IF Nav \in gone THEN IdleNavigation ELSE navigation
         /\ earlier' = EarlierWithout(gone) /\ Later(fetchers[f].from) /\ UNCHANGED feed
         /\ \E new \in BOOLEAN :
              /\ new <=> fetchers[f].from # None
              /\ Subscriber(fetchers', navigation',
                            IF Nav \in gone THEN loadingThen \ {Nav} ELSE loadingThen, new,
                            revalidation)
<1> DEFINE redirected == {g \in Fetchers : Nav \in gone /\ fetchers[g].redirects}
           fs == Ended(fetchers, gone \cup redirected)
           nav == IF Nav \in gone THEN IdleNavigation ELSE navigation
           then == IF Nav \in gone THEN loadingThen \ {Nav} ELSE loadingThen
           new == fetchers[f].from # None
<1>1. /\ Subscriber(fs, nav, then, new, revalidation)
      /\ fetchers[f].state = "loading" /\ ~fetchers[f].redirects
      /\ earlier' = EarlierWithout(gone) /\ Later(fetchers[f].from) /\ UNCHANGED feed
  BY DEF FetcherLoaded
<1>2. fetchers' = fs /\ navigation' = nav
  BY <1>1 DEF Subscriber
<1>3. \A g \in Fetchers : fs[g] =
        IF g \in gone \/ (Nav \in gone /\ fetchers[g].redirects) THEN IdleFetcher
                                                                 ELSE fetchers[g]
  BY DEF Ended
<1>4. new \in BOOLEAN /\ (new <=> fetchers[f].from # None)
  OBVIOUS
<1> HIDE DEF fs, new
<1> QED BY <1>1, <1>2, <1>3, <1>4

LEMMA NavigationLoadedDoes ==
  ASSUME Types, NavigationLoaded
  PROVE  /\ navigation.state = "loading"
         /\ \A g \in Fetchers : fetchers'[g] =
              IF g \in earlier[Nav] \/ fetchers[g].redirects THEN IdleFetcher ELSE fetchers[g]
         /\ navigation' = IdleNavigation
         /\ earlier' = EarlierWithout(earlier[Nav] \cup {f \in Fetchers : fetchers[f].redirects} \cup {Nav})
         /\ Later(IF navigation.all THEN navigation.from ELSE 0) /\ UNCHANGED feed
         /\ \E new \in BOOLEAN :
              Subscriber(fetchers', IdleNavigation, loadingThen \ {Nav}, new, revalidation)
<1> DEFINE gone == earlier[Nav] \cup {f \in Fetchers : fetchers[f].redirects}
           fs == Ended(fetchers, gone)
<1>1. PICK new \in BOOLEAN :
        Subscriber(fs, IdleNavigation, loadingThen \ {Nav}, new, revalidation)
  BY DEF NavigationLoaded
<1>2. fetchers' = fs /\ navigation' = IdleNavigation
  BY <1>1 DEF Subscriber
<1>3. \A g \in Fetchers : fs[g] =
        IF g \in earlier[Nav] \/ fetchers[g].redirects THEN IdleFetcher ELSE fetchers[g]
  BY DEF Ended
<1>4. /\ earlier' = EarlierWithout(earlier[Nav] \cup {f \in Fetchers : fetchers[f].redirects} \cup {Nav})
      /\ Later(IF navigation.all THEN navigation.from ELSE 0) /\ UNCHANGED feed
      /\ navigation.state = "loading"
  BY DEF NavigationLoaded
<1> HIDE DEF fs
<1> QED BY <1>1, <1>2, <1>3, <1>4

\* The listener called while the window is idle: no action is submitting that
\* would give way to the revalidation.
LEMMA ToldDoes ==
  ASSUME Types, NEW batch, Told(batch)
  PROVE  /\ fetchers' = fetchers /\ navigation' = navigation /\ earlier' = earlier
         /\ readUpTo' = readUpTo
         /\ \/ (\A i \in 1..Len(batch) : batch[i] \in Hidden) /\ UNCHANGED <<router, waits>>
            \/ /\ WindowBusy(fetchers, navigation) /\ pending' /\ ~loadedSince' /\ ~reloaded'
               /\ pending' \in BOOLEAN
               /\ loadingThen' = ActionLoads(fetchers, navigation) /\ revalidation' = revalidation
            \/ /\ ~WindowBusy(fetchers, navigation) /\ revalidation' = announced /\ UNCHANGED waits
<1>1. Listener(batch) /\ readUpTo' = readUpTo
  BY DEF Told
<1>2. CASE (\A i \in 1..Len(batch) : batch[i] \in Hidden) /\ UNCHANGED <<router, waits>>
  BY <1>1, <1>2 DEF router
<1>3. CASE /\ WindowBusy(fetchers, navigation)
           /\ pending' = TRUE /\ loadedSince' = FALSE /\ reloaded' = FALSE
           /\ loadingThen' = ActionLoads(fetchers, navigation) /\ UNCHANGED router
  BY <1>1, <1>3 DEF router
<1>4. CASE /\ ~WindowBusy(fetchers, navigation) /\ Revalidate
           /\ UNCHANGED <<navigation, earlier, waits>>
  <2>1. \A f \in Fetchers : fetchers[f].state # "submitting"
    BY <1>4 DEF WindowBusy
  <2>2. Outrun(fetchers, "revalidation") = fetchers
    BY <2>1 DEF Outrun, Types
  <2> QED BY <1>1, <1>4, <2>2 DEF Revalidate
<1> QED BY <1>1, <1>2, <1>3, <1>4 DEF Listener

LEMMA NobodyAlone ==
  ASSUME Types, Submitting
  PROVE  /\ \A f, g \in Fetchers : fetchers[f].state # "idle" /\ f # g => ~fetchers[g].alone
         /\ \A f \in Fetchers : fetchers[f].state = "loading" => ~fetchers[f].alone
         /\ navigation.state # "idle" => \A g \in Fetchers : ~fetchers[g].alone
         /\ revalidation # None => \A g \in Fetchers : ~fetchers[g].alone
BY DEF Submitting, Alone

LEMMA SubmittingHolds ==
  ASSUME \A g \in Fetchers : ~fetchers'[g].alone,
         \A g \in Fetchers :
            /\ fetchers'[g].outrun # "revalidation"
            /\ fetchers'[g].state # "loading" => fetchers'[g].from = None /\ ~fetchers'[g].redirects
            /\ fetchers'[g].redirects => fetchers'[g].from = None
  PROVE  Submitting'
BY DEF Submitting, Alone

LEMMA SettlesSubmitting ==
  ASSUME Types, announced \in Nat, Submitting, NEW f \in Fetchers, Settles(f)
  PROVE  Submitting'
<1>1. \A g \in Fetchers \ {f} : fetchers[f].state = "submitting" => ~fetchers[g].alone
  BY NobodyAlone
<1>2. ASSUME NEW v, Settled(f, v), ~v.alone, v.outrun = "no", v.state # "submitting",
             v.state # "loading" => v.from = None, ~v.redirects
      PROVE  Submitting'
  <2>1. fetchers'[f] = v /\ \A g \in Fetchers \ {f} : fetchers'[g] = fetchers[g] /\ ~fetchers[g].alone
    BY <1>1, <1>2 DEF Settled
  <2>2. \A g \in Fetchers : ~fetchers'[g].alone
    BY <1>2, <2>1
  <2>3. \A g \in Fetchers :
            /\ fetchers'[g].outrun # "revalidation"
            /\ fetchers'[g].state # "loading" => fetchers'[g].from = None /\ ~fetchers'[g].redirects
            /\ fetchers'[g].redirects => fetchers'[g].from = None
    BY <1>2, <2>1 DEF Submitting
  <2> QED BY <2>2, <2>3, SubmittingHolds
<1>3. CASE /\ fetchers[f].state = "submitting"
           /\ Gone([fetchers EXCEPT ![f] = [Loading(None) EXCEPT !.redirects = TRUE]], TRUE, TRUE)
  <2> DEFINE fs == [fetchers EXCEPT ![f] = [Loading(None) EXCEPT !.redirects = TRUE]]
  <2>1. fs[f].state = "loading" /\ fs[f].from = None /\ ~fs[f].alone /\ fs[f].outrun = "no"
    BY LoadingFields DEF Types, IdleFetcher, Loading
  <2>2. \A g \in Fetchers \ {f} : fs[g] = fetchers[g] /\ ~fetchers[g].alone
    BY <1>1, <1>3 DEF Types
  <2> HIDE DEF fs
  <2>3. Gone(fs, TRUE, TRUE)
    BY <1>3 DEF fs
  <2>4. \A g \in Fetchers : ~fetchers'[g].alone
    BY <2>1, <2>2, <2>3 DEF Gone, SameBut
  <2>5. ASSUME NEW g \in Fetchers
        PROVE  /\ fetchers'[g].outrun # "revalidation"
               /\ fetchers'[g].state # "loading" => fetchers'[g].from = None /\ ~fetchers'[g].redirects
               /\ fetchers'[g].redirects => fetchers'[g].from = None
    <3>1. CASE g = f
      BY <2>1, <2>3, <3>1 DEF Gone, SameBut
    <3>2. CASE g # f
      BY <2>2, <2>3, <3>2 DEF Gone, SameBut, Submitting
    <3> QED BY <3>1, <3>2
  <2> QED BY <2>4, <2>5, SubmittingHolds
<1>4. /\ ~IdleFetcher.alone /\ IdleFetcher.outrun = "no" /\ IdleFetcher.state = "idle"
      /\ IdleFetcher.from = None /\ ~IdleFetcher.redirects
  BY IdleFields
<1> QED BY <1>2, <1>3, <1>4, SettlesDoes, LoadingFields

LEMMA SubmitSubmitting ==
  ASSUME Types, announced \in Nat, Submitting, Waits, NEW f \in Fetchers, Submit(f)
  PROVE  Submitting'
<1>1. PICK fs \in [Fetchers -> Fetcher] :
           /\ fs[f].state = "submitting" /\ fs[f].from = None /\ ~fs[f].redirects
           /\ fs[f].outrun = "no"
           /\ fs[f].alone => ~WindowBusy(fetchers, navigation) /\ revalidation = None
           /\ \A g \in Fetchers \ {f} : SameBut(fs[g], fetchers[g], {"alone"}) /\ ~fs[g].alone
           /\ Subscriber(fs, navigation, loadingThen, FALSE, revalidation)
           /\ fetchers' = fs /\ navigation' = navigation
  BY SubmitDoes
<1>2. Does(fs, navigation, loadingThen, FALSE, revalidation)
  BY <1>1, SubscriberDoes
<1>3. ASSUME NEW g \in Fetchers, fetchers'[g].alone PROVE Alone(g)'
  <2>1. g = f /\ ~WindowBusy(fetchers, navigation) /\ revalidation = None
    BY <1>1, <1>3
  <2>2. ~pending
    BY <2>1 DEF Waits
  <2>3. ~pending' /\ ~loadedSince' /\ ~reloaded' /\ revalidation' = None
    BY <1>2, <2>1, <2>2 DEF Does
  <2>4. navigation.state = "idle" /\ \A h \in Fetchers : fetchers[h].state = "idle"
    BY <2>1 DEF WindowBusy
  <2> QED BY <1>1, <2>1, <2>3, <2>4 DEF Alone, SameBut
<1>4. ASSUME NEW g \in Fetchers
      PROVE  /\ fetchers'[g].outrun # "revalidation"
             /\ fetchers'[g].state # "loading" => fetchers'[g].from = None /\ ~fetchers'[g].redirects
             /\ fetchers'[g].redirects => fetchers'[g].from = None
  <2>1. CASE g = f
    BY <1>1, <2>1
  <2>2. CASE g # f
    BY <1>1, <2>2 DEF SameBut, Submitting
  <2> QED BY <2>1, <2>2
<1>5. \A g \in Fetchers : Alone(g)'
  BY <1>3 DEF Alone
<1> QED BY <1>4, <1>5 DEF Submitting

LEMMA NavigateSubmitting ==
  ASSUME Types, announced \in Nat, Submitting, NEW all \in BOOLEAN, Navigate(all)
  PROVE  Submitting'
<1>1. PICK fs \in [Fetchers -> Fetcher] :
        /\ \A g \in Fetchers : SameBut(fs[g], fetchers[g], {"alone"}) /\ ~fs[g].alone
        /\ Gone(fs, FALSE, all)
  BY NavigateDoes
<1>2. \A g \in Fetchers : ~fetchers'[g].alone
  BY <1>1 DEF Gone, SameBut
<1>3. ASSUME NEW g \in Fetchers
      PROVE  /\ fetchers'[g].outrun # "revalidation"
             /\ fetchers'[g].state # "loading" => fetchers'[g].from = None /\ ~fetchers'[g].redirects
             /\ fetchers'[g].redirects => fetchers'[g].from = None
  BY <1>1 DEF Gone, SameBut, Submitting
<1> QED BY <1>2, <1>3, SubmittingHolds

\* Only an action that began alone is called that, and no redirect gives way to
\* a revalidation.
LEMMA SubmittingStep ==
  ASSUME Types, announced \in Nat, Submitting, Waits, [WindowNext]_windowVars
  PROVE  Submitting'
<1>1. CASE Changes
  BY <1>1 DEF Changes, Submitting, Alone, router, waits
<1>2. CASE UNCHANGED windowVars
  BY <1>2 DEF windowVars, Submitting, Alone, router, waits
<1>3. ASSUME NEW batch, Told(batch) PROVE Submitting'
  <2>1. fetchers' = fetchers /\ navigation' = navigation
    BY <1>3, ToldDoes
  <2>2. CASE UNCHANGED <<router, waits>>
    BY <2>2 DEF Submitting, Alone, router, waits
  <2>3. CASE ~loadedSince' /\ ~reloaded' /\ revalidation' = revalidation
    BY <2>1, <2>3 DEF Submitting, Alone
  <2>4. CASE ~WindowBusy(fetchers, navigation)
    <3>1. \A g \in Fetchers : ~fetchers'[g].alone
      BY <2>1, <2>4 DEF WindowBusy, Submitting, Alone
    <3> QED BY <2>1, <3>1, SubmittingHolds DEF Submitting
  <2> QED BY <1>3, <2>2, <2>3, <2>4, ToldDoes
<1>4. ASSUME NEW f \in Fetchers, FetcherLoaded(f) PROVE Submitting'
  <2>1. /\ fetchers[f].state = "loading"
        /\ \A g \in Fetchers : fetchers'[g] = IdleFetcher \/ fetchers'[g] = fetchers[g]
    BY <1>4, FetcherLoadedDoes
  <2>2. \A g \in Fetchers : ~fetchers[g].alone
    BY <2>1, NobodyAlone
  <2> QED BY <2>1, <2>2, IdleFields, SubmittingHolds DEF Submitting
<1>5. CASE NavigationLoaded
  <2>1. /\ navigation.state # "idle"
        /\ \A g \in Fetchers : fetchers'[g] = IdleFetcher \/ fetchers'[g] = fetchers[g]
    BY <1>5, NavigationLoadedDoes
  <2>2. \A g \in Fetchers : ~fetchers[g].alone
    BY <2>1, NobodyAlone
  <2> QED BY <2>1, <2>2, IdleFields, SubmittingHolds DEF Submitting
<1>6. CASE Revalidated
  <2>1. revalidation # None /\ fetchers' = fetchers
    BY <1>6 DEF Revalidated, Subscriber
  <2>2. \A g \in Fetchers : ~fetchers[g].alone
    BY <2>1, NobodyAlone
  <2> QED BY <2>1, <2>2, SubmittingHolds DEF Submitting
<1> QED
  BY <1>1, <1>2, <1>3, <1>4, <1>5, <1>6, SubmitSubmitting, NavigateSubmitting, SettlesSubmitting
  DEF WindowNext, GoesOn

\* A navigation that is over is none, and one that follows an action loads all.
LEMMA IdlingStep ==
  ASSUME Types, announced \in Nat, Idling, [WindowNext]_windowVars
  PROVE  Idling'
<1>1. CASE navigation' = navigation
  BY <1>1 DEF Idling
<1>2. CASE navigation' = IdleNavigation
  BY <1>2, IdleFields DEF Idling
<1>3. ASSUME NEW fs, NEW posted, NEW all, Gone(fs, posted, all), posted => all
      PROVE  Idling'
  BY <1>3 DEF Gone, Idling
<1>4. ASSUME NEW f \in Fetchers, Settles(f) PROVE Idling'
  BY <1>1, <1>3, <1>4, SettlesDoes DEF Settled
<1>5. ASSUME NEW all \in BOOLEAN, Navigate(all) PROVE Idling'
  BY <1>3, <1>5, NavigateDoes
<1>6. ASSUME NEW f \in Fetchers, FetcherLoaded(f) PROVE Idling'
  BY <1>1, <1>2, <1>6, FetcherLoadedDoes
<1>7. CASE NavigationLoaded
  BY <1>2, <1>7, NavigationLoadedDoes
<1>8. ASSUME NEW f \in Fetchers, Submit(f) PROVE Idling'
  BY <1>1, <1>8, SubmitDoes
<1>9. ASSUME NEW batch, Told(batch) PROVE Idling'
  BY <1>1, <1>9, ToldDoes
<1>10. Revalidated => navigation' = navigation
  BY DEF Revalidated, Subscriber
<1>11. Changes \/ UNCHANGED windowVars => navigation' = navigation
  BY DEF Changes, windowVars, router
<1> QED
  BY <1>1, <1>4, <1>5, <1>6, <1>7, <1>8, <1>9, <1>10, <1>11 DEF WindowNext, GoesOn

-----------------------------------------------------------------------------
LEMMA InUnderWay ==
  /\ \A k : k \in UnderWay <=>
       \/ k \in Fetchers /\ fetchers[k].state = "loading" /\ ~fetchers[k].redirects
       \/ k = Nav /\ navigation.state = "loading"
  /\ \A k : k \in UnderWay' <=>
       \/ k \in Fetchers /\ fetchers'[k].state = "loading" /\ ~fetchers'[k].redirects
       \/ k = Nav /\ navigation'.state = "loading"
BY DEF UnderWay

\* The order of the loads under way, when some end and when one begins.
LEMMA LoadsEnd ==
  ASSUME Types, Ordered, NEW keys, earlier' = EarlierWithout(keys), UnderWay' = UnderWay \ keys
  PROVE  Ordered'
<1>1. \A k \in LoadKeys : earlier'[k] = IF k \in keys THEN {} ELSE earlier[k] \ keys
  BY DEF EarlierWithout, LoadKeys
<1>2. ASSUME NEW k \in LoadKeys
      PROVE  earlier'[k] \subseteq UnderWay' \ {k} /\ (k \notin UnderWay' => earlier'[k] = {})
  <2>1. earlier[k] \subseteq UnderWay \ {k} /\ (k \notin UnderWay => earlier[k] = {})
    BY DEF Ordered
  <2>2. CASE k \in keys
    BY <1>1, <2>2
  <2>3. CASE k \notin keys
    BY <1>1, <2>1, <2>3
  <2> QED BY <2>2, <2>3
<1>3. ASSUME NEW j \in UnderWay', NEW k \in UnderWay', j # k
      PROVE  j \in earlier'[k] <=> k \notin earlier'[j]
  <2>1. j \in UnderWay /\ k \in UnderWay /\ j \notin keys /\ k \notin keys /\ j \in LoadKeys /\ k \in LoadKeys
    BY <1>3, UnderWayLoads
  <2>2. earlier'[k] = earlier[k] \ keys /\ earlier'[j] = earlier[j] \ keys
    BY <1>1, <2>1
  <2>3. j \in earlier[k] <=> k \notin earlier[j]
    BY <1>3, <2>1 DEF Ordered
  <2> QED BY <2>1, <2>2, <2>3
<1> QED BY <1>2, <1>3 DEF Ordered, LoadKeys

LEMMA LoadBegins ==
  ASSUME Types, Ordered, NEW k \in LoadKeys, UnderWay' = UnderWay \cup {k},
         earlier'[k] = UnderWay \ {k}, \A j \in LoadKeys \ {k} : earlier'[j] = earlier[j] \ {k}
  PROVE  Ordered'
<1>1. /\ \A j \in LoadKeys : earlier'[j] \subseteq UnderWay' \ {j}
      /\ \A j \in LoadKeys \ UnderWay' : earlier'[j] = {}
  BY DEF Ordered
<1>2. ASSUME NEW i \in UnderWay', NEW j \in UnderWay', i # j
      PROVE  i \in earlier'[j] <=> j \notin earlier'[i]
  <2>1. i \in LoadKeys /\ j \in LoadKeys
    BY UnderWayLoads
  <2>2. CASE i = k
    BY <1>2, <2>1, <2>2
  <2>3. CASE j = k
    BY <1>2, <2>1, <2>3
  <2>4. CASE i # k /\ j # k
    BY <1>2, <2>1, <2>4 DEF Ordered
  <2> QED BY <2>2, <2>3, <2>4
<1> QED BY <1>1, <1>2 DEF Ordered, LoadKeys

LEMMA LoadsStay ==
  ASSUME Ordered, earlier' = earlier, UnderWay' = UnderWay
  PROVE  Ordered'
BY DEF Ordered, LoadKeys

\* And what they read.
LEMMA ReadsEnd ==
  ASSUME Types, Ordered, ReadInOrder, announced \in Nat, announced' = announced,
         NEW keys, earlier' = EarlierWithout(keys), UnderWay' = UnderWay \ keys,
         \A f \in Fetchers : f \notin keys => fetchers'[f].from = fetchers[f].from,
         \A f \in Fetchers : f \in keys => fetchers'[f].from = None,
         navigation' = IF Nav \in keys THEN IdleNavigation ELSE navigation
  PROVE  ReadInOrder'
<1>1. \A k \in LoadKeys : earlier'[k] = IF k \in keys THEN {} ELSE earlier[k] \ keys
  BY DEF EarlierWithout, LoadKeys
<1>2. None <= announced
  BY DEF None
<1>3. navigation'.from <= announced' /\ \A f \in Fetchers : fetchers'[f].from <= announced'
  BY <1>2, IdleFields DEF ReadInOrder
<1>4. \A k \in LoadKeys : k \notin keys => From(k)' = From(k)
  BY FetchersAssumption DEF From, LoadKeys
<1>5. ASSUME NEW k \in UnderWay', NEW j \in earlier'[k] PROVE From(j)' <= From(k)'
  <2>1. k \in UnderWay /\ k \notin keys /\ k \in LoadKeys
    BY <1>5, UnderWayLoads
  <2>2. j \in earlier[k] \ keys
    BY <1>1, <1>5, <2>1
  <2>4. j \in LoadKeys
    BY <2>1, <2>2, UnderWayLoads DEF Ordered
  <2>3. From(j) <= From(k)
    BY <2>1, <2>2 DEF ReadInOrder
  <2> QED BY <1>4, <2>1, <2>2, <2>3, <2>4
<1>6. ASSUME NEW f \in Fetchers, fetchers'[f].from = None PROVE earlier'[f] = {}
  BY <1>1, <1>6, UnderWayLoads DEF ReadInOrder
<1>7. ~navigation'.all => earlier'[Nav] = {}
  BY <1>1, UnderWayLoads DEF ReadInOrder
<1> QED BY <1>3, <1>5, <1>6, <1>7 DEF ReadInOrder

LEMMA ReadBegins ==
  ASSUME Types, Ordered, ReadInOrder, announced \in Nat, announced' = announced,
         NEW k \in LoadKeys, UnderWay' = UnderWay \cup {k},
         earlier'[k] = UnderWay \ {k}, \A j \in LoadKeys \ {k} : earlier'[j] = earlier[j] \ {k},
         \A f \in Fetchers \ {k} : fetchers'[f].from = fetchers[f].from,
         k # Nav => navigation' = navigation,
         From(k)' = announced \/ (From(k)' = None /\ UnderWay \ {k} = {}),
         k = Nav => navigation'.all \/ UnderWay \ {k} = {}
  PROVE  ReadInOrder'
<1>1. None <= announced /\ None # announced
  BY DEF None
<1>2. /\ k = Nav => From(k)' = navigation'.from
      /\ k # Nav => k \in Fetchers /\ From(k)' = fetchers'[k].from
  BY DEF From, LoadKeys
<1>3. navigation'.from <= announced' /\ \A f \in Fetchers : fetchers'[f].from <= announced'
  <2>1. From(k)' <= announced
    BY <1>1
  <2>2. navigation'.from <= announced'
    BY <1>2, <2>1 DEF ReadInOrder
  <2>3. ASSUME NEW f \in Fetchers PROVE fetchers'[f].from <= announced'
    <3>1. CASE f = k
      BY <1>2, <2>1, <3>1, FetchersAssumption
    <3>2. CASE f # k
      BY <3>2 DEF ReadInOrder
    <3> QED BY <3>1, <3>2
  <2> QED BY <2>2, <2>3
<1>4. \A j \in LoadKeys \ {k} : From(j)' = From(j)
  BY FetchersAssumption DEF From, LoadKeys
<1>5. \A j \in UnderWay : From(j) <= announced
  BY UnderWayLoads DEF From, LoadKeys, ReadInOrder
<1>6. ASSUME NEW i \in UnderWay', NEW j \in earlier'[i] PROVE From(j)' <= From(i)'
  <2>1. i \in LoadKeys
    BY UnderWayLoads
  <2>2. CASE i = k
    <3>1. j \in UnderWay \ {k} /\ j \in LoadKeys /\ From(i)' = announced
      BY <1>6, <2>2, UnderWayLoads
    <3> QED BY <1>4, <1>5, <3>1
  <2>3. CASE i # k
    <3>1. j \in earlier[i] /\ j # k /\ i \in UnderWay /\ j \in LoadKeys
      BY <1>6, <2>1, <2>3, UnderWayLoads DEF Ordered
    <3>2. From(j) <= From(i)
      BY <3>1 DEF ReadInOrder
    <3> QED BY <1>4, <2>1, <2>3, <3>1, <3>2
  <2> QED BY <2>2, <2>3
<1>7. ASSUME NEW f \in Fetchers, fetchers'[f].from = None PROVE earlier'[f] = {}
  <2>1. f \in LoadKeys
    BY UnderWayLoads
  <2>2. CASE f = k
    BY <1>1, <1>2, <1>7, <2>2, FetchersAssumption
  <2>3. CASE f # k
    BY <1>7, <2>1, <2>3 DEF ReadInOrder
  <2> QED BY <2>2, <2>3
<1>8. ~navigation'.all => earlier'[Nav] = {}
  BY UnderWayLoads DEF ReadInOrder
<1> QED BY <1>3, <1>6, <1>7, <1>8 DEF ReadInOrder

LEMMA ReadsStay ==
  ASSUME ReadInOrder, Types, announced \in Nat, announced' \in Nat, announced' >= announced,
         earlier' = earlier, UnderWay' = UnderWay, navigation' = navigation,
         \A f \in Fetchers : fetchers'[f].from = fetchers[f].from, Ordered
  PROVE  ReadInOrder'
<1>1. /\ navigation.from \in Int /\ \A f \in Fetchers : fetchers[f].from \in Int
  BY DEF Types, Navigation, Fetcher
<1>2. navigation'.from <= announced'
  BY <1>1 DEF ReadInOrder
<1>5. ASSUME NEW f \in Fetchers PROVE fetchers'[f].from <= announced'
  BY <1>1 DEF ReadInOrder
<1>3. \A k \in LoadKeys : From(k)' = From(k)
  BY DEF From, LoadKeys
<1>4. ASSUME NEW k \in UnderWay', NEW j \in earlier'[k] PROVE From(j)' <= From(k)'
  <2>1. k \in LoadKeys /\ j \in LoadKeys
    BY <1>4, UnderWayLoads DEF Ordered
  <2> QED BY <1>3, <1>4, <2>1 DEF ReadInOrder
<1> QED BY <1>2, <1>4, <1>5 DEF ReadInOrder

-----------------------------------------------------------------------------
\* The loads under way are in order, and each reads what those before it read.
LoadsInOrder == Ordered /\ ReadInOrder

LEMMA OrderStays ==
  ASSUME Types, announced \in Nat, announced' \in Nat, announced' >= announced, LoadsInOrder,
         earlier' = earlier, navigation' = navigation,
         \A g \in Fetchers : fetchers'[g].from = fetchers[g].from,
         \A g \in Fetchers : (fetchers'[g].state = "loading" /\ ~fetchers'[g].redirects) <=>
                             (fetchers[g].state = "loading" /\ ~fetchers[g].redirects)
  PROVE  LoadsInOrder'
<1>1. UnderWay' = UnderWay
  BY InUnderWay
<1> QED BY <1>1, LoadsStay, ReadsStay DEF LoadsInOrder

LEMMA OrderEnds ==
  ASSUME Types, announced \in Nat, announced' = announced, LoadsInOrder, NEW keys,
         earlier' = EarlierWithout(keys),
         \A g \in Fetchers : g \notin keys =>
            /\ fetchers'[g].from = fetchers[g].from
            /\ (fetchers'[g].state = "loading" /\ ~fetchers'[g].redirects) <=>
               (fetchers[g].state = "loading" /\ ~fetchers[g].redirects),
         \A g \in Fetchers : g \in keys =>
            fetchers'[g].from = None /\ fetchers'[g].state # "loading",
         navigation' = IF Nav \in keys THEN IdleNavigation ELSE navigation
  PROVE  LoadsInOrder'
<1>1. \A k : k \in UnderWay' <=> k \in UnderWay /\ k \notin keys
  BY InUnderWay, IdleFields, FetchersAssumption
<1>2. UnderWay' = UnderWay \ keys
  BY <1>1
<1> QED BY <1>2, LoadsEnd, ReadsEnd DEF LoadsInOrder

LEMMA OrderGone ==
  ASSUME Types, announced \in Nat, announced' = announced, LoadsInOrder,
         NEW fs, NEW posted, NEW all, Gone(fs, posted, all),
         \A g \in Fetchers :
            /\ fs[g].from = fetchers[g].from
            /\ (fs[g].state = "loading" /\ ~fs[g].redirects) <=>
               (fetchers[g].state = "loading" /\ ~fetchers[g].redirects),
         all \/ \A g \in Fetchers : fetchers[g].state = "idle"
  PROVE  LoadsInOrder'
<1>1. /\ \A g \in Fetchers : SameBut(fetchers'[g], fs[g], {"outrun"})
      /\ navigation'.state = "loading" /\ navigation'.from = announced /\ navigation'.all = all
      /\ earlier'[Nav] = UnderWay \ {Nav}
      /\ \A k \in Fetchers : earlier'[k] = earlier[k] \ {Nav}
  BY DEF Gone
<1>2. \A k : k \in UnderWay' <=> k \in UnderWay \/ k = Nav
  BY <1>1, InUnderWay, FetchersAssumption DEF SameBut
<1>3. UnderWay' = UnderWay \cup {Nav}
  BY <1>2
<1>4. \A g \in Fetchers : fetchers'[g].from = fetchers[g].from
  BY <1>1 DEF SameBut
<1>5. Nav \in LoadKeys /\ From(Nav)' = announced /\ \A j \in LoadKeys \ {Nav} : earlier'[j] = earlier[j] \ {Nav}
  BY <1>1 DEF From, LoadKeys
<1>6. navigation'.all \/ UnderWay \ {Nav} = {}
  BY <1>1, InUnderWay
<1> QED BY <1>1, <1>3, <1>4, <1>5, <1>6, LoadBegins, ReadBegins DEF LoadsInOrder

LEMMA OrderLoading ==
  ASSUME Types, announced \in Nat, LoadsInOrder, Submitting, NEW f \in Fetchers, NEW n,
         Settled(f, Loading(n)), Begins(f),
         n = announced \/ (n = None /\ fetchers[f].alone)
  PROVE  LoadsInOrder'
<1>1. /\ fetchers'[f] = Loading(n)
      /\ \A g \in Fetchers \ {f} : fetchers'[g] = fetchers[g]
      /\ navigation' = navigation /\ announced' = announced
      /\ fetchers[f].state = "submitting"
  BY DEF Settled
<1>2. /\ fetchers'[f].state = "loading" /\ fetchers'[f].from = n /\ ~fetchers'[f].redirects
  BY <1>1, LoadingFields
<1>3. \A k : k \in UnderWay' <=> k \in UnderWay \/ k = f
  BY <1>1, <1>2, InUnderWay, FetchersAssumption
<1>4. UnderWay' = UnderWay \cup {f}
  BY <1>3
<1>5. f \notin UnderWay /\ f # Nav /\ f \in LoadKeys
  BY <1>1, InUnderWay, FetchersAssumption, UnderWayLoads
<1>6. earlier'[f] = UnderWay \ {f}
  BY <1>5 DEF Begins, Types, LoadKeys
<1>7. ASSUME NEW j \in LoadKeys \ {f} PROVE earlier'[j] = earlier[j] \ {f}
  <2>1. earlier'[j] = earlier[j]
    BY DEF Begins, Types, LoadKeys
  <2> QED BY <1>5, <2>1 DEF LoadsInOrder, Ordered
<1>8. From(f)' = n
  BY <1>2, <1>5 DEF From
<1>9. fetchers[f].alone => UnderWay = {}
  BY <1>1, InUnderWay DEF Submitting, Alone
<1> QED BY <1>1, <1>4, <1>5, <1>6, <1>7, <1>8, <1>9, LoadBegins, ReadBegins DEF LoadsInOrder

LEMMA SettlesOrder ==
  ASSUME Types, announced \in Nat, LoadsInOrder, Submitting, NEW f \in Fetchers, Settles(f),
         FailuresOverlap = FALSE
  PROVE  LoadsInOrder'
<1>1. fetchers[f].state = "submitting" => fetchers[f].from = None
  BY DEF Submitting
<1>2. ASSUME Settled(f, IdleFetcher), UNCHANGED earlier
      PROVE  LoadsInOrder'
  <2>1. /\ fetchers'[f] = IdleFetcher
        /\ \A g \in Fetchers \ {f} : fetchers'[g] = fetchers[g]
        /\ navigation' = navigation /\ announced' = announced
        /\ fetchers[f].state = "submitting"
    BY <1>2 DEF Settled
  <2>2. \A g \in Fetchers : fetchers'[g].from = fetchers[g].from
    BY <1>1, <2>1, IdleFields
  <2>3. \A g \in Fetchers : (fetchers'[g].state = "loading" /\ ~fetchers'[g].redirects) <=>
                            (fetchers[g].state = "loading" /\ ~fetchers[g].redirects)
    BY <2>1, IdleFields
  <2> QED BY <1>2, <2>1, <2>2, <2>3, OrderStays
<1>3. ASSUME fetchers[f].state = "submitting", announced' = announced,
             Gone([fetchers EXCEPT ![f] = [Loading(None) EXCEPT !.redirects = TRUE]], TRUE, TRUE)
      PROVE  LoadsInOrder'
  <2> DEFINE fs == [fetchers EXCEPT ![f] = [Loading(None) EXCEPT !.redirects = TRUE]]
  <2>1. fs[f].from = None /\ fs[f].redirects
    BY DEF Types, IdleFetcher, Loading
  <2>2. \A g \in Fetchers \ {f} : fs[g] = fetchers[g]
    BY DEF Types
  <2> HIDE DEF fs
  <2>3. Gone(fs, TRUE, TRUE)
    BY <1>3 DEF fs
  <2>4. \A g \in Fetchers :
            /\ fs[g].from = fetchers[g].from
            /\ (fs[g].state = "loading" /\ ~fs[g].redirects) <=>
               (fetchers[g].state = "loading" /\ ~fetchers[g].redirects)
    BY <1>1, <1>3, <2>1, <2>2
  <2> QED BY <1>3, <2>3, <2>4, OrderGone
<1> QED BY <1>2, <1>3, SettlesDoes, OrderLoading DEF feed

\* Every step keeps them so.
LEMMA OrderStep ==
  ASSUME Types, FeedTyped, LoadsInOrder, Submitting, [WindowNext]_windowVars, FailuresOverlap = FALSE
  PROVE  LoadsInOrder'
<1>1. announced \in Nat /\ announced' \in Nat /\ announced' >= announced
  BY FeedStep DEF FeedTyped
<1>2. CASE Changes \/ UNCHANGED windowVars
  <2>1. fetchers' = fetchers /\ navigation' = navigation /\ earlier' = earlier
    BY <1>2 DEF Changes, windowVars, router
  <2> QED BY <1>1, <2>1, OrderStays
<1>3. ASSUME NEW batch, Told(batch) PROVE LoadsInOrder'
  BY <1>1, <1>3, ToldDoes, OrderStays
<1>4. ASSUME NEW f \in Fetchers, Submit(f) PROVE LoadsInOrder'
  <2>1. PICK fs \in [Fetchers -> Fetcher] :
          /\ fs[f].state = "submitting" /\ fs[f].from = None
          /\ \A g \in Fetchers \ {f} : SameBut(fs[g], fetchers[g], {"alone"})
          /\ fetchers' = fs /\ navigation' = navigation
          /\ earlier' = EarlierWithout({f}) /\ UNCHANGED <<feed, readUpTo>>
    BY <1>4, SubmitDoes
  <2>2. /\ Nav \notin {f} /\ announced' = announced
        /\ \A g \in Fetchers : g \notin {f} =>
              /\ fetchers'[g].from = fetchers[g].from
              /\ (fetchers'[g].state = "loading" /\ ~fetchers'[g].redirects) <=>
                 (fetchers[g].state = "loading" /\ ~fetchers[g].redirects)
        /\ \A g \in Fetchers : g \in {f} =>
              fetchers'[g].from = None /\ fetchers'[g].state # "loading"
    BY <2>1, FetchersAssumption DEF SameBut, feed
  <2> DEFINE keys == {f}
  <2>3. Nav \notin keys /\ earlier' = EarlierWithout(keys)
    BY <2>1, <2>2
  <2> QED BY <1>1, <2>1, <2>2, <2>3, OrderEnds
<1>5. ASSUME NEW all \in BOOLEAN, Navigate(all) PROVE LoadsInOrder'
  <2>1. PICK fs \in [Fetchers -> Fetcher] :
          /\ \A g \in Fetchers : SameBut(fs[g], fetchers[g], {"alone"})
          /\ Gone(fs, FALSE, all)
          /\ ~all => \A g \in Fetchers : fetchers[g].state = "idle"
          /\ UNCHANGED feed
    BY <1>1, <1>5, NavigateDoes
  <2>2. \A g \in Fetchers :
            /\ fs[g].from = fetchers[g].from
            /\ (fs[g].state = "loading" /\ ~fs[g].redirects) <=>
               (fetchers[g].state = "loading" /\ ~fetchers[g].redirects)
    BY <2>1 DEF SameBut
  <2>3. announced' = announced /\ (all \/ \A g \in Fetchers : fetchers[g].state = "idle")
    BY <2>1 DEF feed
  <2> QED BY <1>1, <2>1, <2>2, <2>3, OrderGone
<1>6. ASSUME NEW f \in Fetchers, FetcherLoaded(f) PROVE LoadsInOrder'
  <2> DEFINE keys == earlier[f] \cup {f}
  <2>1. /\ \A g \in Fetchers : fetchers'[g] =
              IF g \in keys \/ (Nav \in keys /\ fetchers[g].redirects) THEN IdleFetcher
                                                                       ELSE fetchers[g]
        /\ navigation' = IF Nav \in keys THEN IdleNavigation ELSE navigation
        /\ earlier' = EarlierWithout(keys) /\ announced' = announced
    BY <1>6, FetcherLoadedDoes DEF feed
  <2> HIDE DEF keys
  <2>2. ASSUME NEW g \in Fetchers, g \notin keys
        PROVE  /\ fetchers'[g].from = fetchers[g].from
               /\ (fetchers'[g].state = "loading" /\ ~fetchers'[g].redirects) <=>
                  (fetchers[g].state = "loading" /\ ~fetchers[g].redirects)
    BY <2>1, <2>2, IdleFields DEF Submitting
  <2>3. \A g \in Fetchers : g \in keys =>
            fetchers'[g].from = None /\ fetchers'[g].state # "loading"
    BY <2>1, IdleFields
  <2> QED BY <1>1, <2>1, <2>2, <2>3, OrderEnds
<1>7. ASSUME NavigationLoaded PROVE LoadsInOrder'
  <2> DEFINE keys == earlier[Nav] \cup {f \in Fetchers : fetchers[f].redirects} \cup {Nav}
  <2>1. /\ \A g \in Fetchers : fetchers'[g] =
              IF g \in earlier[Nav] \/ fetchers[g].redirects THEN IdleFetcher ELSE fetchers[g]
        /\ navigation' = IdleNavigation
        /\ earlier' = EarlierWithout(keys) /\ announced' = announced
    BY <1>7, NavigationLoadedDoes DEF feed
  <2>2. Nav \in keys /\ \A g \in Fetchers : g \in keys <=> g \in earlier[Nav] \/ fetchers[g].redirects
    BY FetchersAssumption
  <2> HIDE DEF keys
  <2>3. \A g \in Fetchers : g \notin keys => fetchers'[g] = fetchers[g]
    BY <2>1, <2>2
  <2>4. \A g \in Fetchers : g \in keys =>
            fetchers'[g].from = None /\ fetchers'[g].state # "loading"
    BY <2>1, <2>2, IdleFields
  <2>5. navigation' = IF Nav \in keys THEN IdleNavigation ELSE navigation
    BY <2>1, <2>2
  <2> QED BY <1>1, <2>1, <2>3, <2>4, <2>5, OrderEnds
<1>8. ASSUME Revalidated PROVE LoadsInOrder'
  <2>1. fetchers' = fetchers /\ navigation' = navigation /\ earlier' = earlier
    BY <1>8 DEF Revalidated, Subscriber
  <2> QED BY <1>1, <2>1, OrderStays
<1> QED
  BY <1>1, <1>2, <1>3, <1>4, <1>5, <1>6, <1>7, <1>8, SettlesOrder DEF WindowNext, GoesOn

-----------------------------------------------------------------------------
LEMMA InActionLoads ==
  ASSUME NEW fs, NEW nav
  PROVE  \A k : k \in ActionLoads(fs, nav) <=>
            \/ k \in Fetchers /\ fs[k].state = "loading"
            \/ k = Nav /\ nav.state = "loading" /\ nav.posted
BY DEF ActionLoads

LEMMA CoversMore ==
  ASSUME NEW m \in Int, NEW n \in Int, n >= m, Covers(m)
  PROVE  Covers(n)
<1>1. \A i \in ToShow : i \in Nat
  BY DEF ToShow
<1> QED BY <1>1 DEF Covers

\* Where nothing shows, anything covers it.
LEMMA NothingToShow ==
  ASSUME Covers(None), NEW n \in Int PROVE Covers(n)
<1>1. \A i \in ToShow : i \in Nat /\ None >= i
  BY DEF ToShow, Covers
<1>2. None \in Int /\ None < 0
  BY DEF None
<1> QED BY <1>1, <1>2 DEF Covers

\* A load is waited for that the last change was to be read by, if none has begun.
LEMMA NoNewLoad ==
  ASSUME Types, Waits, Reading, NEW fs, NEW nav, NEW then, pending,
         loadedSince \/ ActionLoads(fs, nav) \ then # {},
         \A k \in ActionLoads(fs, nav) :
            k \in ActionLoads(fetchers, navigation) /\ (k \in loadingThen => k \in then)
  PROVE  \/ Covers(readUpTo)
         \/ Coming(fetchers, navigation)
         \/ ~reloaded /\ NoneLoads(fetchers, navigation, revalidation)
<1>1. ~loadedSince => ActionLoads(fetchers, navigation) \subseteq loadingThen
  BY DEF Waits
<1>2. loadedSince
  BY <1>1
<1> QED BY <1>2 DEF Reading

LEMMA SettlesReading ==
  ASSUME Types, FeedTyped, Waits, Submitting, Idling, Reading, NEW f \in Fetchers, Settles(f),
         ToShow' = ToShow, FailuresOverlap = FALSE
  PROVE  Reading'
<1>1. announced \in Nat /\ Covers(announced) /\ readUpTo \in Nat
  BY AnnouncedCovers DEF FeedTyped, Types
<1>2. navigation.state = "idle" => ~navigation.all
  BY IdleFields DEF Idling
<1>3. ASSUME NEW v, Settled(f, v),
             v.state = "loading" => v.from = announced \/ (v.from = None /\ fetchers[f].alone),
             ~v.redirects,
             v.state = "idle" => ~fetchers[f].again \/ fetchers[f].outrun # "no",
             v.state \in {"idle", "loading"}
      PROVE  Reading'
  <2> DEFINE fs == [fetchers EXCEPT ![f] = v]
  <2>1. /\ Subscriber(fs, navigation, loadingThen, FALSE, revalidation)
        /\ readUpTo' = readUpTo /\ fetchers[f].state = "submitting"
    BY <1>3 DEF Settled
  <2>2. fs[f] = v /\ \A g \in Fetchers \ {f} : fs[g] = fetchers[g]
    BY DEF Types
  <2> HIDE DEF fs
  <2>3. ~pending => \A n \in ToShow :
           readUpTo' >= n \/ revalidation >= n \/ (navigation.all /\ navigation.from >= n)
    BY <2>1 DEF Reading
  <2>4. ASSUME pending, loadedSince \/ ActionLoads(fs, navigation) \ loadingThen # {}
        PROVE  \/ Covers(readUpTo')
               \/ Coming(fs, navigation)
               \/ ~reloaded /\ NoneLoads(fs, navigation, revalidation)
    <3>1. CASE v.state = "loading" /\ v.from = announced
      BY <1>1, <2>2, <3>1 DEF Coming
    <3>2. CASE v.state = "loading" /\ v.from = None /\ fetchers[f].alone
      BY <1>3, <2>2, <3>2 DEF NoneLoads, Submitting, Alone
    <3>3. CASE v.state = "idle"
      <4>1. \A k \in ActionLoads(fs, navigation) : k \in ActionLoads(fetchers, navigation)
        BY <2>2, <3>3, InActionLoads
      <4>2. \/ Covers(readUpTo)
            \/ Coming(fetchers, navigation)
            \/ ~reloaded /\ NoneLoads(fetchers, navigation, revalidation)
        BY <2>4, <4>1, NoNewLoad
      <4>3. Coming(fetchers, navigation) => Coming(fs, navigation)
        BY <1>3, <2>1, <2>2, <3>3 DEF Coming
      <4>4. NoneLoads(fetchers, navigation, revalidation) => NoneLoads(fs, navigation, revalidation)
        BY <2>2, <3>3 DEF NoneLoads
      <4> QED BY <2>1, <4>2, <4>3, <4>4
    <3> QED BY <1>3, <3>1, <3>2, <3>3
  <2>5. readUpTo' \in Nat
    BY <1>1, <2>1
  <2> QED BY <1>1, <1>2, <2>1, <2>3, <2>4, <2>5, SubscriberReads
<1>4. ASSUME NEW fs, Gone(fs, TRUE, TRUE), readUpTo' = readUpTo
      PROVE  Reading'
  <2>1. /\ navigation'.state = "loading" /\ navigation'.all /\ navigation'.from = announced
        /\ Subscriber(fetchers', navigation', loadingThen \ {Nav}, FALSE, None)
    BY <1>4 DEF Gone
  <2>2. Coming(fetchers', navigation')
    BY <1>1, <2>1 DEF Coming
  <2>3. \A n \in ToShow : navigation'.all /\ navigation'.from >= n
    BY <1>1, <2>1 DEF Covers
  <2>4. readUpTo' \in Nat
    BY <1>1, <1>4
  <2> QED BY <1>1, <2>1, <2>2, <2>3, <2>4, SubscriberReads
<1>5. CASE Settled(f, Loading(announced))
  BY <1>3, <1>5, LoadingFields
<1>6. CASE Settled(f, Loading(None)) /\ fetchers[f].alone
  BY <1>3, <1>6, LoadingFields
<1>7. CASE Settled(f, IdleFetcher) /\ (~fetchers[f].again \/ fetchers[f].outrun # "no")
  BY <1>3, <1>7, IdleFields
<1> QED BY <1>1, <1>4, <1>5, <1>6, <1>7, SettlesDoes

LEMMA SubmitReading ==
  ASSUME Types, FeedTyped, Waits, Submitting, Idling, Reading, NEW f \in Fetchers, Submit(f),
         ToShow' = ToShow
  PROVE  Reading'
<1>1. announced \in Nat /\ Covers(announced) /\ readUpTo \in Nat
  BY AnnouncedCovers DEF FeedTyped, Types
<1>2. navigation.state = "idle" => ~navigation.all
  BY IdleFields DEF Idling
<1>3. PICK fs \in [Fetchers -> Fetcher] :
        /\ fs[f].state = "submitting" /\ fs[f].outrun = "no"
        /\ fetchers[f].state # "idle" => fs[f].again
        /\ \A g \in Fetchers \ {f} : SameBut(fs[g], fetchers[g], {"alone"})
        /\ Subscriber(fs, navigation, loadingThen, FALSE, revalidation)
        /\ readUpTo' = readUpTo
  BY SubmitDoes
<1>4. \A g \in Fetchers \ {f} :
        /\ fs[g].state = fetchers[g].state /\ fs[g].from = fetchers[g].from
        /\ fs[g].redirects = fetchers[g].redirects /\ fs[g].again = fetchers[g].again
        /\ fs[g].outrun = fetchers[g].outrun
  BY <1>3 DEF SameBut
<1>5. ASSUME pending, loadedSince \/ ActionLoads(fs, navigation) \ loadingThen # {}
      PROVE  \/ Covers(readUpTo')
             \/ Coming(fs, navigation)
             \/ ~reloaded /\ NoneLoads(fs, navigation, revalidation)
  <2>1. \A k \in ActionLoads(fs, navigation) : k \in ActionLoads(fetchers, navigation)
    BY <1>3, <1>4, InActionLoads
  <2>2. \/ Covers(readUpTo)
        \/ Coming(fetchers, navigation)
        \/ ~reloaded /\ NoneLoads(fetchers, navigation, revalidation)
    BY <1>5, <2>1, NoNewLoad
  <2>3. Coming(fetchers, navigation) => Coming(fs, navigation)
    <3>1. ASSUME NEW g \in Fetchers, fetchers[g].state = "loading", Covers(fetchers[g].from)
          PROVE  Coming(fs, navigation)
      BY <1>3, <1>4, <3>1 DEF Coming
    <3>2. ASSUME NEW g \in Fetchers, fetchers[g].state = "submitting", fetchers[g].again,
                 fetchers[g].outrun = "no"
          PROVE  Coming(fs, navigation)
      BY <1>3, <1>4, <3>2 DEF Coming
    <3> QED BY <3>1, <3>2 DEF Coming
  <2>4. NoneLoads(fetchers, navigation, revalidation) => NoneLoads(fs, navigation, revalidation)
    BY <1>3, <1>4 DEF NoneLoads
  <2> QED BY <1>3, <2>2, <2>3, <2>4
<1>6. ~pending => \A n \in ToShow :
         readUpTo' >= n \/ revalidation >= n \/ (navigation.all /\ navigation.from >= n)
  BY <1>3 DEF Reading
<1>7. readUpTo' \in Nat
  BY <1>1, <1>3
<1> QED BY <1>1, <1>2, <1>3, <1>5, <1>6, <1>7, SubscriberReads

LEMMA NavigateReading ==
  ASSUME Types, FeedTyped, Waits, Idling, Reading, NEW all \in BOOLEAN, Navigate(all),
         ToShow' = ToShow
  PROVE  Reading'
<1>1. announced \in Nat /\ Covers(announced) /\ readUpTo \in Nat
  BY AnnouncedCovers DEF FeedTyped, Types
<1>2. PICK fs \in [Fetchers -> Fetcher] :
        /\ \A g \in Fetchers : SameBut(fs[g], fetchers[g], {"alone"})
        /\ Gone(fs, FALSE, all)
        /\ ~all => /\ revalidation = None /\ ~navigation.all
                   /\ \A g \in Fetchers : fetchers[g].state = "idle"
        /\ readUpTo' = readUpTo
  BY <1>1, NavigateDoes
<1>3. /\ navigation'.state = "loading" /\ navigation'.all = all /\ navigation'.from = announced
      /\ ~navigation'.posted
      /\ Subscriber(fetchers', navigation', loadingThen \ {Nav}, FALSE, None)
      /\ \A g \in Fetchers : fetchers'[g].state = fs[g].state
  BY <1>2 DEF Gone, SameBut
<1>4. readUpTo' \in Nat
  BY <1>1, <1>2
<1>5. CASE all
  <2>1. Coming(fetchers', navigation')
    BY <1>1, <1>3, <1>5 DEF Coming
  <2>2. \A n \in ToShow : navigation'.all /\ navigation'.from >= n
    BY <1>1, <1>3, <1>5 DEF Covers
  <2> QED BY <1>1, <1>3, <1>4, <2>1, <2>2, SubscriberReads
<1>6. CASE ~all
  <2>1. revalidation = None /\ ~navigation.all /\ \A g \in Fetchers : fetchers[g].state = "idle"
    BY <1>2, <1>6
  <2>2. \A g \in Fetchers : fetchers'[g].state = "idle"
    BY <1>2, <1>3, <2>1 DEF SameBut
  <2>3. ~pending => \A n \in ToShow :
           readUpTo' >= n \/ None >= n \/ (navigation'.all /\ navigation'.from >= n)
    BY <1>2, <2>1 DEF Reading
  <2>4. ASSUME pending, loadedSince \/ ActionLoads(fetchers', navigation') \ (loadingThen \ {Nav}) # {}
        PROVE  Covers(readUpTo')
    <3>1. ActionLoads(fetchers', navigation') = {}
      BY <1>3, <2>2, InActionLoads
    <3>2. navigation.state # "idle"
      BY <2>1, <2>4 DEF Waits, WindowBusy
    <3>3. ~Coming(fetchers, navigation) /\ ~NoneLoads(fetchers, navigation, revalidation)
      BY <2>1, <3>2 DEF Coming, NoneLoads
    <3> QED BY <1>2, <2>4, <3>1, <3>3 DEF Reading
  <2>5. navigation'.state = "idle" => ~navigation'.all
    BY <1>3
  <2> QED BY <1>1, <1>3, <1>4, <2>3, <2>4, <2>5, SubscriberReads
<1> QED BY <1>5, <1>6

LEMMA FetcherLoadedReading ==
  ASSUME Types, FeedTyped, Ordered, ReadInOrder, Waits, Submitting, Idling, Reading,
         NEW f \in Fetchers, FetcherLoaded(f), ToShow' = ToShow
  PROVE  Reading'
<1> DEFINE gone == earlier[f] \cup {f}
           then == IF Nav \in gone THEN loadingThen \ {Nav} ELSE loadingThen
<1>1. Covers(announced) /\ readUpTo \in Nat /\ fetchers[f].from \in Int
      /\ (\A g \in Fetchers : fetchers[g].from \in Int) /\ navigation.from \in Int
  BY AnnouncedCovers DEF Types, Fetcher, Navigation
<1>2. /\ fetchers[f].state = "loading" /\ ~fetchers[f].redirects
      /\ \A g \in Fetchers : fetchers'[g] =
              IF g \in gone \/ (Nav \in gone /\ fetchers[g].redirects) THEN IdleFetcher
                                                                       ELSE fetchers[g]
      /\ navigation' = IF Nav \in gone THEN IdleNavigation ELSE navigation
      /\ Later(fetchers[f].from)
  BY FetcherLoadedDoes
<1>3. PICK new \in BOOLEAN :
        /\ new <=> fetchers[f].from # None
        /\ Subscriber(fetchers', navigation', then, new, revalidation)
  BY FetcherLoadedDoes
<1>4. readUpTo' \in Nat /\ readUpTo' >= readUpTo /\ readUpTo' >= fetchers[f].from
  BY <1>1, <1>2, LaterType
<1>5. f \in UnderWay /\ f # Nav
  BY <1>2, InUnderWay, FetchersAssumption
<1>6. \A g \in Fetchers : g \in gone => fetchers[g].from <= readUpTo'
  <2>1. ASSUME NEW g \in Fetchers, g \in earlier[f] PROVE fetchers[g].from <= fetchers[f].from
    BY <1>5, <2>1, FetchersAssumption DEF ReadInOrder, From
  <2> QED BY <1>1, <1>4, <2>1
<1>7. Nav \in gone => navigation.from <= readUpTo'
  <2>1. Nav \in earlier[f] => navigation.from <= fetchers[f].from
    BY <1>5, FetchersAssumption DEF ReadInOrder, From
  <2> QED BY <1>1, <1>4, <1>5, <2>1
<1>8. \A g \in Fetchers : g \in gone => fetchers[g].state = "loading"
  BY <1>2, InUnderWay, UnderWayLoads, FetchersAssumption DEF Ordered
<1>9. \A g \in Fetchers : fetchers[g].redirects => fetchers[g].from = None /\ fetchers[g].state = "loading"
  BY DEF Submitting
<1> HIDE DEF gone, then
<1>a. navigation'.state = "idle" => ~navigation'.all
  BY <1>2, IdleFields DEF Idling
<1>b. ASSUME ~pending, NEW n \in ToShow
      PROVE  readUpTo' >= n \/ revalidation >= n \/ (navigation'.all /\ navigation'.from >= n)
  <2>1. n \in Nat
    BY <1>b DEF ToShow
  <2>2. readUpTo >= n \/ revalidation >= n \/ (navigation.all /\ navigation.from >= n)
    BY <1>b DEF Reading
  <2>3. CASE readUpTo >= n
    BY <1>1, <1>4, <2>1, <2>3
  <2>4. CASE navigation.all /\ navigation.from >= n /\ Nav \in gone
    BY <1>1, <1>4, <1>7, <2>1, <2>4
  <2>5. CASE navigation.all /\ navigation.from >= n /\ Nav \notin gone
    BY <1>2, <2>5
  <2> QED BY <2>2, <2>3, <2>4, <2>5
<1>c. ASSUME pending, loadedSince \/ ActionLoads(fetchers', navigation') \ then # {}
      PROVE  \/ Covers(readUpTo')
             \/ Coming(fetchers', navigation')
             \/ ~reloaded /\ ~new /\ NoneLoads(fetchers', navigation', revalidation)
  <2>1. ASSUME NEW k \in ActionLoads(fetchers', navigation')
        PROVE  /\ k \in ActionLoads(fetchers, navigation)
               /\ k \in loadingThen => k \in then
    <3>1. CASE k \in Fetchers /\ fetchers'[k].state = "loading"
      <4>1. fetchers[k].state = "loading"
        BY <1>2, <3>1, IdleFields
      <4> QED BY <3>1, <4>1, InActionLoads, FetchersAssumption DEF then
    <3>2. CASE k = Nav /\ navigation'.state = "loading" /\ navigation'.posted
      <4>1. Nav \notin gone /\ navigation' = navigation
        BY <1>2, <3>2, IdleFields
      <4> QED BY <3>2, <4>1, InActionLoads DEF then
    <3> QED BY <2>1, <3>1, <3>2, InActionLoads
  <2>2. \/ Covers(readUpTo)
        \/ Coming(fetchers, navigation)
        \/ ~reloaded /\ NoneLoads(fetchers, navigation, revalidation)
    BY <1>c, <2>1, NoNewLoad
  <2>3. CASE Covers(readUpTo)
    BY <1>1, <1>4, <2>3, CoversMore
  <2>4. CASE navigation.all /\ Covers(navigation.from)
    BY <1>1, <1>2, <1>4, <1>7, <2>4, CoversMore DEF Coming
  <2>5. ASSUME NEW g \in Fetchers, fetchers[g].state = "loading", Covers(fetchers[g].from)
        PROVE  Covers(readUpTo') \/ Coming(fetchers', navigation')
    <3>1. CASE g \in gone
      BY <1>1, <1>4, <1>6, <2>5, <3>1, CoversMore
    <3>2. CASE fetchers[g].redirects
      BY <1>4, <1>9, <2>5, <3>2, NothingToShow
    <3>3. CASE g \notin gone /\ ~fetchers[g].redirects
      BY <1>2, <2>5, <3>3 DEF Coming
    <3> QED BY <3>1, <3>2, <3>3
  <2>6. ASSUME NEW g \in Fetchers, fetchers[g].state = "submitting", fetchers[g].again,
               fetchers[g].outrun = "no"
        PROVE  Coming(fetchers', navigation')
    <3>1. fetchers'[g] = fetchers[g]
      BY <1>2, <1>8, <1>9, <2>6
    <3> QED BY <2>6, <3>1 DEF Coming
  <2>7. CASE ~reloaded /\ NoneLoads(fetchers, navigation, revalidation)
    <3>1. ~new
      BY <1>2, <1>3, <2>7 DEF NoneLoads
    <3>2. navigation'.state = "idle"
      BY <1>2, <2>7, IdleFields DEF NoneLoads
    <3>3. \A g \in Fetchers : fetchers'[g].state = "loading" => fetchers'[g] = fetchers[g]
      BY <1>2, IdleFields
    <3>4. NoneLoads(fetchers', navigation', revalidation)
      BY <2>7, <3>2, <3>3 DEF NoneLoads
    <3> QED BY <2>7, <3>1, <3>4
  <2> QED BY <2>2, <2>3, <2>4, <2>5, <2>6, <2>7 DEF Coming
<1> QED BY <1>1, <1>3, <1>4, <1>a, <1>b, <1>c, SubscriberReads

LEMMA NavigationLoadedReading ==
  ASSUME Types, FeedTyped, Ordered, ReadInOrder, Waits, Submitting, Idling, Reading,
         NavigationLoaded, ToShow' = ToShow
  PROVE  Reading'
<1> DEFINE read == IF navigation.all THEN navigation.from ELSE 0
<1>1. Covers(announced) /\ readUpTo \in Nat
      /\ (\A g \in Fetchers : fetchers[g].from \in Int) /\ navigation.from \in Int /\ read \in Int
  BY AnnouncedCovers DEF Types, Fetcher, Navigation
<1>2. /\ navigation.state = "loading"
      /\ \A g \in Fetchers : fetchers'[g] =
              IF g \in earlier[Nav] \/ fetchers[g].redirects THEN IdleFetcher ELSE fetchers[g]
      /\ navigation' = IdleNavigation /\ Later(read)
  BY NavigationLoadedDoes
<1>3. PICK new \in BOOLEAN :
        Subscriber(fetchers', IdleNavigation, loadingThen \ {Nav}, new, revalidation)
  BY NavigationLoadedDoes
<1>4. readUpTo' \in Nat /\ readUpTo' >= readUpTo /\ readUpTo' >= read
  BY <1>1, <1>2, LaterType
<1>5. navigation.all => navigation.from <= readUpTo'
  BY <1>1, <1>4
<1>6. \A g \in Fetchers : g \in earlier[Nav] => fetchers[g].from <= readUpTo'
  <2>1. Nav \in UnderWay
    BY <1>2, InUnderWay
  <2>2. ASSUME NEW g \in Fetchers, g \in earlier[Nav] PROVE fetchers[g].from <= navigation.from
    BY <2>1, <2>2, FetchersAssumption DEF ReadInOrder, From
  <2>3. \A g \in Fetchers : g \in earlier[Nav] => navigation.all
    BY DEF ReadInOrder
  <2> QED BY <1>1, <1>4, <1>5, <2>2, <2>3
<1>7. \A g \in Fetchers : g \in earlier[Nav] => fetchers[g].state = "loading"
  BY InUnderWay, UnderWayLoads, FetchersAssumption DEF Ordered
<1>8. \A g \in Fetchers : fetchers[g].redirects => fetchers[g].from = None /\ fetchers[g].state = "loading"
  BY DEF Submitting
<1> HIDE DEF read
<1>a. IdleNavigation.state = "idle" /\ ~IdleNavigation.all /\ ~IdleNavigation.posted
  BY IdleFields
<1>b. ASSUME ~pending, NEW n \in ToShow
      PROVE  readUpTo' >= n \/ revalidation >= n
  <2>1. n \in Nat
    BY <1>b DEF ToShow
  <2>2. readUpTo >= n \/ revalidation >= n \/ (navigation.all /\ navigation.from >= n)
    BY <1>b DEF Reading
  <2>3. CASE readUpTo >= n
    BY <1>1, <1>4, <2>1, <2>3
  <2>4. CASE navigation.all /\ navigation.from >= n
    BY <1>1, <1>4, <1>5, <2>1, <2>4
  <2> QED BY <2>2, <2>3, <2>4
<1>c. ASSUME pending, loadedSince \/ ActionLoads(fetchers', IdleNavigation) \ (loadingThen \ {Nav}) # {}
      PROVE  Covers(readUpTo') \/ Coming(fetchers', IdleNavigation)
  <2>1. ASSUME NEW k \in ActionLoads(fetchers', IdleNavigation)
        PROVE  /\ k \in ActionLoads(fetchers, navigation)
               /\ k \in loadingThen => k \in loadingThen \ {Nav}
    <3>1. k \in Fetchers /\ fetchers'[k].state = "loading"
      BY <1>a, <2>1, InActionLoads
    <3>2. fetchers[k].state = "loading"
      BY <1>2, <3>1, IdleFields
    <3> QED BY <3>1, <3>2, InActionLoads, FetchersAssumption
  <2>2. \/ Covers(readUpTo)
        \/ Coming(fetchers, navigation)
        \/ ~reloaded /\ NoneLoads(fetchers, navigation, revalidation)
    BY <1>c, <2>1, NoNewLoad
  <2>3. CASE Covers(readUpTo)
    BY <1>1, <1>4, <2>3, CoversMore
  <2>4. CASE navigation.all /\ Covers(navigation.from)
    BY <1>1, <1>4, <1>5, <2>4, CoversMore
  <2>5. ASSUME NEW g \in Fetchers, fetchers[g].state = "loading", Covers(fetchers[g].from)
        PROVE  Covers(readUpTo') \/ Coming(fetchers', IdleNavigation)
    <3>1. CASE g \in earlier[Nav]
      BY <1>1, <1>4, <1>6, <2>5, <3>1, CoversMore
    <3>2. CASE fetchers[g].redirects
      BY <1>4, <1>8, <2>5, <3>2, NothingToShow
    <3>3. CASE g \notin earlier[Nav] /\ ~fetchers[g].redirects
      BY <1>2, <2>5, <3>3 DEF Coming
    <3> QED BY <3>1, <3>2, <3>3
  <2>6. ASSUME NEW g \in Fetchers, fetchers[g].state = "submitting", fetchers[g].again,
               fetchers[g].outrun = "no"
        PROVE  Coming(fetchers', IdleNavigation)
    <3>1. fetchers'[g] = fetchers[g]
      BY <1>2, <1>7, <1>8, <2>6
    <3> QED BY <2>6, <3>1 DEF Coming
  <2>7. ~NoneLoads(fetchers, navigation, revalidation)
    BY <1>2 DEF NoneLoads
  <2> QED BY <2>2, <2>3, <2>4, <2>5, <2>6, <2>7 DEF Coming
<1>d. ~pending => \A n \in ToShow :
         readUpTo' >= n \/ revalidation >= n \/ (IdleNavigation.all /\ IdleNavigation.from >= n)
  BY <1>b
<1> QED BY <1>1, <1>3, <1>4, <1>a, <1>c, <1>d, SubscriberReads

LEMMA RevalidatedReading ==
  ASSUME Types, FeedTyped, Waits, Idling, Reading, Revalidated, ToShow' = ToShow
  PROVE  Reading'
<1>1. Covers(announced) /\ readUpTo \in Nat /\ revalidation \in Int
  BY AnnouncedCovers DEF Types
<1>2. /\ revalidation # None /\ Later(revalidation)
      /\ Subscriber(fetchers, navigation, loadingThen, TRUE, None)
  BY DEF Revalidated
<1>3. readUpTo' \in Nat /\ readUpTo' >= readUpTo /\ readUpTo' >= revalidation
  BY <1>1, <1>2, LaterType
<1>4. navigation.state = "idle" => ~navigation.all
  BY IdleFields DEF Idling
<1>5. ASSUME ~pending, NEW n \in ToShow
      PROVE  readUpTo' >= n \/ (navigation.all /\ navigation.from >= n)
  <2>1. n \in Nat
    BY <1>5 DEF ToShow
  <2>2. readUpTo >= n \/ revalidation >= n \/ (navigation.all /\ navigation.from >= n)
    BY <1>5 DEF Reading
  <2> QED BY <1>1, <1>3, <2>1, <2>2
<1>6. ASSUME pending, loadedSince \/ ActionLoads(fetchers, navigation) \ loadingThen # {}
      PROVE  Covers(readUpTo') \/ Coming(fetchers, navigation)
  <2>1. \/ Covers(readUpTo)
        \/ Coming(fetchers, navigation)
        \/ ~reloaded /\ NoneLoads(fetchers, navigation, revalidation)
    BY <1>6, NoNewLoad
  <2>2. ~NoneLoads(fetchers, navigation, revalidation)
    BY <1>2 DEF NoneLoads
  <2> QED BY <1>1, <1>3, <2>1, <2>2, CoversMore
<1>7. ~pending => \A n \in ToShow :
         readUpTo' >= n \/ None >= n \/ (navigation.all /\ navigation.from >= n)
  BY <1>5
<1> QED BY <1>1, <1>2, <1>3, <1>4, <1>6, <1>7, SubscriberReads

\* What the window is told of next, if it shows none of it.
LEMMA ToldHidden ==
  ASSUME FeedTyped, NEW batch \in out, Feed!Tell(batch), \A i \in 1..Len(batch) : batch[i] \in Hidden
  PROVE  ToShow' = ToShow
<1>1. told'[Window] = told[Window] \o batch
  BY DEF Feed!Tell
<1> DEFINE s == told[Window]
<1>2. s \in Seq(1..announced) /\ batch \in Seq(1..announced)
  BY DEF FeedTyped
<1>3. \A n : IsTold(n) <=> n \notin Hidden /\ \E i \in 1..Len(s) : s[i] = n
  BY DEF IsTold
<1>4. \A n : IsTold(n)' <=> n \notin Hidden /\ \E i \in 1..Len(s \o batch) : (s \o batch)[i] = n
  BY <1>1 DEF IsTold
<1> HIDE DEF s
<1>5. ASSUME NEW n, n \notin Hidden
      PROVE  (\E i \in 1..Len(s \o batch) : (s \o batch)[i] = n) <=> \E i \in 1..Len(s) : s[i] = n
  BY <1>2, <1>5
<1>6. \A n : IsTold(n)' <=> IsTold(n)
  BY <1>3, <1>4, <1>5
<1> QED BY <1>6 DEF ToShow

LEMMA ToldReading ==
  ASSUME Types, FeedTyped, FeedTyped', Waits, Reading, NEW batch \in out, Told(batch)
  PROVE  Reading'
<1>1. CASE (\A i \in 1..Len(batch) : batch[i] \in Hidden) /\ UNCHANGED <<router, waits, readUpTo>>
  <2>1. ToShow' = ToShow
    BY <1>1, ToldHidden DEF Told
  <2> QED BY <1>1, <2>1 DEF Reading, Covers, Coming, NoneLoads, router, waits
<1>2. CASE pending' /\ ~loadedSince'
  BY <1>2 DEF Reading
<1>3. CASE ~WindowBusy(fetchers, navigation) /\ revalidation' = announced /\ UNCHANGED waits
  <2>1. ~pending /\ pending' = pending
    BY <1>3 DEF Waits, waits
  <2>2. announced' = announced
    BY DEF Told, Feed!Tell
  <2>3. \A n \in ToShow' : announced >= n
    <3>1. Covers(announced)'
      BY AnnouncedCovers, PTL
    <3> QED BY <2>2, <3>1 DEF Covers
  <2> QED BY <1>3, <2>1, <2>3 DEF Reading
<1> QED BY <1>1, <1>2, <1>3, ToldDoes

\* The window misses nothing of what it is told at any step.
LEMMA ReadingStep ==
  ASSUME Types, FeedTyped, FeedTyped', LoadsInOrder, Waits, Submitting, Idling, Reading, [WindowNext]_windowVars,
         FailuresOverlap = FALSE
  PROVE  Reading'
<1>1. told' = told => ToShow' = ToShow
  BY DEF ToShow, IsTold
<1>2. CASE Changes \/ UNCHANGED windowVars
  <2>1. told' = told /\ UNCHANGED <<router, waits, readUpTo>>
    BY <1>2 DEF Changes, windowVars, feed, Feed!Announce, Feed!AnnounceAtOnce, Feed!SendOut, Feed!Lose
  <2> QED BY <1>1, <2>1 DEF Reading, Covers, Coming, NoneLoads, router, waits
<1>3. ASSUME NEW f \in Fetchers, Submit(f) PROVE Reading'
  BY <1>1, <1>3, SubmitReading DEF Submit, feed
<1>4. ASSUME NEW all \in BOOLEAN, Navigate(all) PROVE Reading'
  BY <1>1, <1>4, NavigateReading DEF Navigate, feed
<1>5. ASSUME NEW f \in Fetchers, Settles(f) PROVE Reading'
  <2>1. told' = told
    BY <1>5 DEF Settles, ActionDone, ActionRefused, ActionThrows, ActionRedirects, feed
  <2> QED BY <1>1, <1>5, <2>1, SettlesReading
<1>6. ASSUME NEW f \in Fetchers, FetcherLoaded(f) PROVE Reading'
  BY <1>1, <1>6, FetcherLoadedReading DEF FetcherLoaded, feed, LoadsInOrder
<1>7. CASE NavigationLoaded
  BY <1>1, <1>7, NavigationLoadedReading DEF NavigationLoaded, feed, LoadsInOrder
<1>8. CASE Revalidated
  BY <1>1, <1>8, RevalidatedReading DEF Revalidated, feed
<1> QED
  BY <1>2, <1>3, <1>4, <1>5, <1>6, <1>7, <1>8, ToldReading DEF WindowNext, GoesOn

\* A change waits only while the window is busy, and knows the loads that began
\* after it.
LEMMA WaitsStep ==
  ASSUME Types, announced \in Nat, Waits, [WindowNext]_windowVars
  PROVE  Waits'
<1>1. CASE UNCHANGED <<router, waits>>
  BY <1>1 DEF Waits, WindowBusy, ActionLoads, router, waits
<1>2. ASSUME NEW batch, Told(batch) PROVE Waits'
  <2>1. WindowBusy(fetchers, navigation)' = WindowBusy(fetchers, navigation)
        /\ ActionLoads(fetchers, navigation)' = ActionLoads(fetchers, navigation)
    BY <1>2, ToldDoes DEF WindowBusy, ActionLoads
  <2>2. CASE WindowBusy(fetchers, navigation) /\ pending' /\ ~loadedSince' /\ ~reloaded'
             /\ loadingThen' = ActionLoads(fetchers, navigation)
    BY <2>1, <2>2 DEF Waits
  <2>3. CASE ~WindowBusy(fetchers, navigation) /\ UNCHANGED waits
    BY <2>1, <2>3 DEF Waits, waits
  <2> QED BY <1>1, <1>2, <2>2, <2>3, ToldDoes
<1>3. ASSUME NEW f \in Fetchers, Submit(f) PROVE Waits'
  BY <1>3, SubmitDoes, SubscriberWaits
<1>4. ASSUME NEW fs, NEW posted, NEW all, Gone(fs, posted, all) PROVE Waits'
  <2>1. Subscriber(fetchers', navigation', loadingThen \ {Nav}, FALSE, None)
    BY <1>4 DEF Gone
  <2> QED BY <2>1, SubscriberWaits
<1>5. ASSUME NEW f \in Fetchers, Settles(f) PROVE Waits'
  BY <1>4, <1>5, SettlesDoes, SubscriberWaits DEF Settled
<1>6. ASSUME NEW all \in BOOLEAN, Navigate(all) PROVE Waits'
  BY <1>4, <1>6, NavigateDoes
<1>7. ASSUME NEW f \in Fetchers, FetcherLoaded(f) PROVE Waits'
  <2> DEFINE gone == earlier[f] \cup {f}
             then == IF Nav \in gone THEN loadingThen \ {Nav} ELSE loadingThen
  <2>1. PICK new \in BOOLEAN :
          /\ new <=> fetchers[f].from # None
          /\ Subscriber(fetchers', navigation', then, new, revalidation)
    BY <1>7, FetcherLoadedDoes
  <2> HIDE DEF then
  <2> QED BY <2>1, SubscriberWaits
<1>8. CASE NavigationLoaded
  BY <1>8, NavigationLoadedDoes, SubscriberWaits
<1>9. CASE Revalidated
  BY <1>9, SubscriberWaits DEF Revalidated
<1>10. CASE Changes \/ UNCHANGED windowVars
  BY <1>1, <1>10 DEF Changes, windowVars
<1> QED
  BY <1>2, <1>3, <1>5, <1>6, <1>7, <1>8, <1>9, <1>10 DEF WindowNext, GoesOn

\* What holds whichever actions fail.
WaitInv == Types /\ FeedTyped /\ Waits /\ Submitting /\ Idling

LEMMA WindowInitInv == WindowInit => Inv
<1> SUFFICES ASSUME WindowInit PROVE Inv
  OBVIOUS
<1> USE DEF WindowInit
<1>1. \A f \in Fetchers : fetchers[f] = IdleFetcher
  OBVIOUS
<1>2. UnderWay = {} /\ ~WindowBusy(fetchers, navigation)
  BY <1>1, IdleFields, InUnderWay DEF WindowBusy
<1>3. IdleFetcher \in Fetcher /\ IdleNavigation \in Navigation /\ None \in Int /\ None < 0
  BY DEF IdleFetcher, IdleNavigation, Fetcher, Navigation, None
<1>4. Types
  <2>1. fetchers \in [Fetchers -> Fetcher] /\ earlier \in [LoadKeys -> SUBSET LoadKeys]
    BY <1>3 DEF LoadKeys
  <2>2. actions \in 0..MaxActions /\ navigations \in 0..MaxNavigations
    BY BoundsAssumption
  <2> QED BY <1>3, <2>1, <2>2 DEF Types
<1>5. FeedTyped /\ announced = 0
  BY DEF FeedTyped, Feed!Init
<1>6. ToShow = {}
  BY DEF ToShow, IsTold, Feed!Init
<1>7. Ordered
  BY <1>2 DEF Ordered, LoadKeys
<1>8. ReadInOrder
  BY <1>1, <1>2, <1>3, <1>5, IdleFields, UnderWayLoads DEF ReadInOrder, LoadKeys
<1>9. Waits /\ Reading
  BY <1>6 DEF Waits, Reading
<1>10. Submitting /\ Idling
  BY <1>1, IdleFields DEF Submitting, Idling, Alone
<1> QED BY <1>4, <1>5, <1>7, <1>8, <1>9, <1>10 DEF Inv

LEMMA WaitInvStep == WaitInv /\ [WindowNext]_windowVars => WaitInv'
BY TypesStep, FeedStep, WaitsStep, SubmittingStep, IdlingStep DEF WaitInv, FeedTyped

LEMMA InvStep == FailuresOverlap = FALSE /\ Inv /\ [WindowNext]_windowVars => Inv'
<1> SUFFICES ASSUME FailuresOverlap = FALSE, Inv, [WindowNext]_windowVars PROVE Inv'
  OBVIOUS
<1>1. WaitInv' /\ FeedTyped'
  BY WaitInvStep DEF Inv, WaitInv
<1>2. LoadsInOrder'
  BY OrderStep DEF Inv, LoadsInOrder
<1>3. Reading'
  BY <1>1, ReadingStep DEF Inv, LoadsInOrder
<1> QED BY <1>1, <1>2, <1>3 DEF Inv, WaitInv, LoadsInOrder

\* An action's redirect gives way to a navigation of the user, never to a
\* revalidation after a change in the database, whichever actions fail.
THEOREM RedirectsKeptAlways == WindowSpec => []RedirectsKept
<1>1. WindowInit => WaitInv
  BY WindowInitInv DEF Inv, WaitInv
<1>2. WaitInv => RedirectsKept
  BY DEF WaitInv, Submitting, RedirectsKept
<1> QED
  BY <1>1, <1>2, WaitInvStep, PTL DEF WindowSpec

LEMMA WindowInvTyped == Inv => WindowTypeOK
<1> SUFFICES ASSUME Inv PROVE WindowTypeOK
  OBVIOUS
<1>1. earlier \in [Fetchers \cup {Nav} -> SUBSET UnderWay]
  <2>1. earlier \in [LoadKeys -> SUBSET LoadKeys] /\ \A k \in LoadKeys : earlier[k] \in SUBSET UnderWay
    BY DEF Inv, Types, Ordered
  <2> QED BY <2>1 DEF LoadKeys
<1> QED BY <1>1 DEF Inv, Types, Ordered, Waits, LoadKeys, WindowTypeOK

\* While no action fails beside another load, a change the window was told of
\* is read, or is pending, or a load that began after it is under way: whatever
\* the actions, loads, navigations and revalidations that overlap.
THEOREM NothingMissedAlways == FailuresOverlap = FALSE /\ WindowSpec => []NothingMissed
<1>1. Inv => NothingMissed
  <2> SUFFICES ASSUME Inv, NEW n \in 1..announced, IsTold(n), ~pending
               PROVE  \/ readUpTo >= n
                      \/ revalidation >= n
                      \/ navigation.all /\ navigation.from >= n
    BY WindowInvTyped DEF NothingMissed
  <2>1. n \in ToShow
    BY DEF ToShow, Inv, FeedTyped
  <2> QED BY <2>1 DEF Inv, Reading
<1>2. FailuresOverlap = FALSE => (Inv /\ [WindowNext]_windowVars => Inv')
  BY InvStep
<1>3. CASE FailuresOverlap = FALSE
  <2>1. Inv /\ [WindowNext]_windowVars => Inv'
    BY <1>2, <1>3
  <2> QED BY <1>1, <2>1, WindowInitInv, PTL DEF WindowSpec
<1> QED BY <1>3
=============================================================================
