-------------------------- MODULE CollectionReader --------------------------
(***************************************************************************)
(* The workspace route's loader in a window (ui/routes/workspace.tsx):     *)
(* readCollection keeps what it last read of the workspace's tree and asks *)
(* the database, over IPC, which docs were written since, to read only     *)
(* those; it reads everything when a folder was written or the log cannot  *)
(* tell.  Every query is a round trip, the store is written in between     *)
(* (by this window, another, an MCP client, a sync), and a load begun      *)
(* earlier can finish after a later one.                                   *)
(*                                                                         *)
(* One type stands for the four request types, whose handling is the same, *)
(* and one for their two types of metas.                                   *)
(***************************************************************************)
EXTENDS WriteLog

CONSTANTS
  Folders, Requests, Metas, FolderMetas,  \* the ids, by type
  Workspace,                              \* the workspace's id, a parent
  Elsewhere,                              \* another workspace's
  Loads,                                  \* the loads that may be under way
  Instances  \* bound: the docs, how many writes and how many loads, in one behaviour

ASSUME IdsByType ==
  /\ Ids = Folders \cup Requests \cup Metas \cup FolderMetas
  /\ Folders \cap Requests = {} /\ Folders \cap Metas = {} /\ Folders \cap FolderMetas = {}
  /\ Requests \cap Metas = {} /\ Requests \cap FolderMetas = {} /\ Metas \cap FolderMetas = {}
  /\ Parents = {Workspace, Elsewhere} \cup Folders \cup Requests
  /\ Workspace \notin Ids /\ Elsewhere \notin Ids \cup {Workspace}
ASSUME InstancesAssumption == \A i \in Instances : i.ids \subseteq Ids

VARIABLES
  lastRead,  \* the last load's read of this workspace
  loads      \* what each load has read so far

vars == <<storeVars, lastRead, loads>>

\* A CollectionRead: folderDocs is docs[RequestGroup], docs the other types'.
Empty == [id \in {} |-> 0]
NoRead == [stamp |-> -1, parentIds |-> {}, docs |-> Empty, folderDocs |-> Empty,
           metas |-> Empty, folderMetas |-> Empty]

\* A load: where it is, its read, the previous one, the changes it was told, and
\* the requests they added to the tree.
Idle == [pc |-> "idle", read |-> NoRead, level |-> {}, changes |-> {}, added |-> {}]

ParentsOf(id) ==
  IF id \in Folders THEN ({Workspace, Elsewhere} \cup Folders) \ {id}
  ELSE IF id \in Requests THEN {Workspace, Elsewhere} \cup Folders
  ELSE IF id \in Metas THEN Requests
  ELSE Folders

Steps == {"idle", "asking", "levels", "requests", "folders", "metas", "folderMetas",
          "changed requests", "changed metas", "added metas", "changed folder metas"}

IsDocMap(map, ids) == DOMAIN map \subseteq ids /\ \A id \in DOMAIN map : map[id] \in Doc

IsRead(read) ==
  /\ read.stamp \in -1..version
  /\ read.parentIds \subseteq Folders \cup {Workspace}
  /\ IsDocMap(read.docs, Requests) /\ IsDocMap(read.folderDocs, Folders)
  /\ IsDocMap(read.metas, Metas) /\ IsDocMap(read.folderMetas, FolderMetas)

TypeOK ==
  /\ StoreTypeOK
  /\ IsRead(lastRead)
  /\ \A l \in Loads :
       /\ loads[l].pc \in Steps /\ IsRead(loads[l].read)
       /\ loads[l].level \subseteq Folders \cup {Workspace}
       /\ loads[l].changes \subseteq Write
       /\ loads[l].added \subseteq Requests

InUse == DOMAIN docs \cup {id \in Ids : lastWrite[id] # 0}
Busy == {l \in Loads : loads[l].pc # "idle"}
Fits(i) == InUse \subseteq i.ids /\ version <= i.writes /\ Cardinality(Busy) <= i.loads
Bounded == \E i \in Instances : Fits(i)

Init ==
  /\ StoreInit
  /\ \A id \in DOMAIN docs : docs[id].parent \in ParentsOf(id)
  /\ lastRead = NoRead
  /\ loads = [l \in Loads |-> Idle]
  /\ Bounded

-----------------------------------------------------------------------------
\* What a query finds: a type's docs under one of the parents.
FindUnder(type, parents) == [id \in {id \in DOMAIN docs \cap type : docs[id].parent \in parents} |-> docs[id]]

Without(map, ids) == Restrict(map, DOMAIN map \ ids)
Over(map, new) == [id \in DOMAIN map \cup DOMAIN new |->
                     IF id \in DOMAIN new THEN new[id] ELSE map[id]]

\* The changed ids of a map's type are replaced by those of the docs that belong,
\* being under one of the parents.
Replaced(map, changed, parents) == Over(Without(map, changed), FindUnder(changed, parents))

Changed(l, type) == {w.id : w \in {w \in loads[l].changes : ~w.removed}} \cap type

\* Mutant: the read is stamped when it is done.
FinishStampedLate(l, read) ==
  /\ lastRead' = [read EXCEPT !.stamp = version]
  /\ loads' = [loads EXCEPT ![l] = Idle]

\* A load that is done: what it read is kept unless a later load was done first.
Finish(l, read) ==
  /\ lastRead' = IF lastRead.stamp <= read.stamp THEN read ELSE lastRead
  /\ loads' = [loads EXCEPT ![l] = Idle]

GoOn(l, pc, read) ==
  /\ loads' = [loads EXCEPT ![l].pc = pc, ![l].read = read]
  /\ UNCHANGED lastRead

-----------------------------------------------------------------------------
\* readCollection begins with the read that is the last by now.
Begin(l) ==
  /\ loads[l].pc = "idle"
  /\ loads' = [loads EXCEPT ![l] = [Idle EXCEPT !.pc = "asking", !.read = lastRead]]
  /\ UNCHANGED <<storeVars, lastRead>>

\* The database answers: all is read, or nothing was written that matters, or
\* what was removed goes, and what was written is about to be read.
Asked(l) ==
  /\ loads[l].pc = "asking"
  /\ LET previous == loads[l].read
         changes == ChangesSince(previous.stamp)
         removed == {w.id : w \in {w \in changes : w.removed}}
         known == DOMAIN previous.docs \cup DOMAIN previous.folderDocs
                    \cup DOMAIN previous.metas \cup DOMAIN previous.folderMetas
         relevant == {w \in changes : w.removed => w.id \in known}
         all == \/ previous = NoRead \/ ~CanTell(previous.stamp)
                \/ \E w \in relevant : IF w.removed THEN w.id \in DOMAIN previous.folderDocs
                                                    ELSE w.id \in Folders
         read == [previous EXCEPT !.stamp = version,
                    !.docs = Without(@, removed), !.metas = Without(@, removed),
                    !.folderMetas = Without(@, removed)]
     IN IF all
          THEN /\ loads' = [loads EXCEPT ![l] =
                    [Idle EXCEPT !.pc = "levels", !.level = {Workspace},
                       !.read = [NoRead EXCEPT !.stamp = version, !.parentIds = {Workspace}]]]
               /\ UNCHANGED lastRead
          ELSE IF relevant = {} THEN Finish(l, [previous EXCEPT !.stamp = version])
          ELSE /\ loads' = [loads EXCEPT ![l] = [Idle EXCEPT !.pc = "changed requests",
                                                   !.read = read, !.changes = relevant]]
               /\ UNCHANGED lastRead
  /\ UNCHANGED storeVars

\* readAll: the folders, a query per level, ...
ReadLevel(l) ==
  /\ loads[l].pc = "levels"
  /\ LET read == loads[l].read
         level == DOMAIN FindUnder(Folders, loads[l].level) \ read.parentIds
     IN loads' = [loads EXCEPT ![l].level = level, ![l].read.parentIds = @ \cup level,
                               ![l].pc = IF level = {} THEN "requests" ELSE @]
  /\ UNCHANGED <<storeVars, lastRead>>

\* ... the requests, then the folders' docs, under them, ...
ReadRequests(l) ==
  /\ loads[l].pc = "requests"
  /\ GoOn(l, "folders", [loads[l].read EXCEPT !.docs = FindUnder(Requests, loads[l].read.parentIds)])
  /\ UNCHANGED storeVars

ReadFolders(l) ==
  /\ loads[l].pc = "folders"
  /\ GoOn(l, "metas", [loads[l].read EXCEPT !.folderDocs = FindUnder(Folders, loads[l].read.parentIds)])
  /\ UNCHANGED storeVars

\* ... and the metas of both.
ReadMetas(l) ==
  /\ loads[l].pc = "metas"
  /\ GoOn(l, "folderMetas", [loads[l].read EXCEPT !.metas = FindUnder(Metas, DOMAIN loads[l].read.docs)])
  /\ UNCHANGED storeVars

ReadFolderMetas(l) ==
  /\ loads[l].pc = "folderMetas"
  /\ Finish(l, [loads[l].read EXCEPT !.folderMetas = FindUnder(FolderMetas, loads[l].read.parentIds)])
  /\ UNCHANGED storeVars

\* readChanges: the changed requests, in the tree when under the workspace or
\* one of its folders; those new to it bring their metas.
ReadChangedRequests(l) ==
  /\ loads[l].pc = "changed requests"
  /\ LET read == loads[l].read
         found == Replaced(read.docs, Changed(l, Requests), read.parentIds)
     IN loads' = [loads EXCEPT ![l].pc = "changed metas", ![l].read.docs = found,
                               ![l].added = DOMAIN found \ DOMAIN read.docs]
  /\ UNCHANGED <<storeVars, lastRead>>

ReadChangedMetas(l) ==
  /\ loads[l].pc = "changed metas"
  /\ GoOn(l, "added metas",
          [loads[l].read EXCEPT !.metas =
             Replaced(@, Changed(l, Metas), DOMAIN loads[l].read.docs)])
  /\ UNCHANGED storeVars

ReadAddedMetas(l) ==
  /\ loads[l].pc = "added metas"
  /\ GoOn(l, "changed folder metas",
          [loads[l].read EXCEPT !.metas = Over(@, FindUnder(Metas, loads[l].added))])
  /\ UNCHANGED storeVars

ReadChangedFolderMetas(l) ==
  /\ loads[l].pc = "changed folder metas"
  /\ Finish(l, [loads[l].read EXCEPT !.folderMetas =
                  Replaced(@, Changed(l, FolderMetas), loads[l].read.parentIds)])
  /\ UNCHANGED storeVars

\* A load of another workspace is done, and what was read of this one forgotten.
Leave ==
  /\ lastRead # NoRead
  /\ lastRead' = NoRead
  /\ UNCHANGED <<storeVars, loads>>

-----------------------------------------------------------------------------
\* The tree's folders: the smallest set with those under the workspace and
\* those under one of it.
Grown(folders, S) == \A f \in DOMAIN folders : folders[f].parent \in S \cup {Workspace} => f \in S
TreeFolders(folders) ==
  {f \in DOMAIN folders : \A S \in SUBSET DOMAIN folders : Grown(folders, S) => f \in S}

\* database.remove: the doc with its descendants, in one transaction.
Below(ids) == {id \in DOMAIN docs : docs[id].parent \in ids}
Tree(id) == LET one == {id} \cup Below({id})
                two == one \cup Below(one)
                three == two \cup Below(two)
            IN three \cup Below(three)
Order(S) == CHOOSE order \in [1..Cardinality(S) -> S] : IsInjective(order)

Writes(ids) ==
  \/ \E id \in ids : \E parent \in ParentsOf(id) : Put(id, parent)
  \/ \E id \in ids : PutInVain(id)
  \/ \E id \in ids : RemoveByIds(<<id>>) \/ RemoveByIds(Order(Tree(id)))
  \/ \E id \in ids : RemoveInVain(<<id>>) \/ RemoveInVain(Order(Tree(id)))

Next ==
  \/ \E i \in Instances :
       Fits(i) /\ version < i.writes /\ Writes(i.ids) /\ UNCHANGED <<lastRead, loads>> /\ Fits(i)'
  \/ \E l \in Loads :
       \/ Begin(l) /\ Bounded'
       \/ Asked(l)
       \/ ReadLevel(l) \/ ReadRequests(l) \/ ReadFolders(l) \/ ReadMetas(l) \/ ReadFolderMetas(l)
       \/ ReadChangedRequests(l) \/ ReadChangedMetas(l) \/ ReadAddedMetas(l)
       \/ ReadChangedFolderMetas(l)
  \/ Leave

Spec == Init /\ [][Next]_vars

-----------------------------------------------------------------------------
OfType(type) == [id \in DOMAIN docs \cap type |-> docs[id]]
Same(map, id, other) == (id \in DOMAIN map) = (id \in DOMAIN other)
                          /\ (id \in DOMAIN map => map[id] = other[id])
Shown(map, folders) == [id \in {id \in DOMAIN map : map[id].parent \in {Workspace} \cup TreeFolders(folders)}
                          |-> map[id]]

\* "What it gives must be what reading it all gives": of the docs not written
\* since the last read's stamp, the tree it gives has the requests, the folders
\* and their metas that the database has, as they are in it, unless a folder was
\* written since, and but for docs whose removal was rolled back.
GivesWhatReadingItAllGives ==
  LET fresh(id) == lastWrite[id] <= lastRead.stamp /\ id \notin undone
      tree == TreeFolders(OfType(Folders))
      shown == Shown(lastRead.docs, lastRead.folderDocs)
      there == Shown(OfType(Requests), OfType(Folders))
  IN
  /\ TypeOK
  /\ lastRead # NoRead /\ (\A f \in Folders : fresh(f)) =>
    /\ TreeFolders(lastRead.folderDocs) = tree
    /\ \A f \in tree : lastRead.folderDocs[f] = docs[f]
    /\ \A r \in Requests : fresh(r) => Same(shown, r, there)
    /\ \A m \in Metas : fresh(m) =>
         \A r \in DOMAIN shown : fresh(r) =>
           /\ m \in DOMAIN docs /\ docs[m].parent = r => Same(lastRead.metas, m, docs)
           /\ m \in DOMAIN lastRead.metas /\ lastRead.metas[m].parent = r => Same(lastRead.metas, m, docs)
    /\ \A g \in FolderMetas : fresh(g) =>
         \A f \in tree :
           /\ g \in DOMAIN docs /\ docs[g].parent = f => Same(lastRead.folderMetas, g, docs)
           /\ g \in DOMAIN lastRead.folderMetas /\ lastRead.folderMetas[g].parent = f =>
                Same(lastRead.folderMetas, g, docs)

\* The same without that exemption, of the requests: one that is there and was not
\* written since the stamp is in the tree.  The code does not keep to it, as a
\* removal that is rolled back stays in the log.
GivesAllThatIsThere ==
  lastRead # NoRead /\ (\A f \in Folders : lastWrite[f] <= lastRead.stamp /\ f \notin undone) =>
    \A r \in Requests : lastWrite[r] <= lastRead.stamp =>
      Same(Shown(lastRead.docs, lastRead.folderDocs), r, Shown(OfType(Requests), OfType(Folders)))
=============================================================================
