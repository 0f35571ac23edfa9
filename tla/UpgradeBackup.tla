--------------------------- MODULE UpgradeBackup ---------------------------
(***************************************************************************)
(* The backup a launch makes of the data before a version of the app that  *)
(* is not the one that last ran opens it (main/backup.ts): the data is     *)
(* copied into an unfinished folder, which is renamed into place and       *)
(* recorded.  The launch can crash or fail at each step, and a failed one  *)
(* goes on to open the data all the same.                                  *)
(*                                                                         *)
(* Versions are numbered as they were released.  The data is the number of *)
(* its last change, 0 none; times are the same numbers.  A folder in       *)
(* backups/ is named for the previous version l, or, when none was         *)
(* recorded, before-v, here -v.                                            *)
(***************************************************************************)
EXTENDS Integers, FiniteSets

CONSTANTS
  Versions,       \* the versions of the app
  BackupsToKeep,  \* BACKUPS_TO_KEEP
  MayDowngrade,   \* whether an older version may be run again
  MaxLaunches,    \* bound: launches
  MaxCrashes,     \* bound: launches that crash before the data is opened
  MaxFailures     \* bound: operations on files that fail

ASSUME VersionsAssumption == Versions \subseteq Nat \ {0}
ASSUME BackupsAssumption == BackupsToKeep \in Nat \ {0} /\ MayDowngrade \in BOOLEAN

VARIABLES
  data,         \* the data folder's database
  lastVersion,  \* last-run-version, 0 when not recorded
  backups,      \* the folders in backups/, by name
  unfinished,   \* the .unfinished- ones
  replaced,     \* the .replaced- ones
  snapshots,    \* when backups/snapshots last changed, 0 when there is none
  version,      \* the version that runs, or ran last
  name,         \* the backup's name in this launch
  pc,           \* where the launch is
  clock,        \* the last change anywhere
  launches,
  crashes, failures,
  openedBy,     \* history: the version that opened the data last
  from,         \* history: the data from before that version opened it
  unread        \* history: whether a launch could not read what it goes by

folders == <<backups, unfinished, replaced, snapshots>>
opening == <<openedBy, from, unread>>
counts == <<launches, crashes, failures>>
vars == <<data, lastVersion, folders, version, name, pc, clock, counts, opening>>

Names == Versions \cup {-v : v \in Versions}

\* A copy of the data; `before` is .copied-before, the version whose launch took
\* it, 0 while it is not marked as finished.
NoCopy == [data |-> 0, before |-> 0, at |-> 0]
IsCopy(copy) == copy.data \in 0..clock /\ copy.before \in Versions \cup {0} /\ copy.at \in 0..clock

TypeOK ==
  /\ data \in 0..clock /\ lastVersion \in Versions \cup {0}
  /\ \A n \in Names : IsCopy(backups[n]) /\ IsCopy(unfinished[n]) /\ IsCopy(replaced[n])
  /\ \A n \in Names : backups[n] # NoCopy => backups[n].before # 0
  /\ snapshots \in 0..clock
  /\ version \in Versions \cup {0} /\ name \in Names \cup {0}
  /\ pc \in {"off", "copy", "copying", "move", "move aside", "move in", "clear", "record", "prune",
             "record only", "open", "running"}
  /\ openedBy \in Versions \cup {0} /\ from \in 0..clock
  /\ unread \in BOOLEAN

Init ==
  /\ data = 0 /\ lastVersion = 0
  /\ backups = [n \in Names |-> NoCopy]
  /\ unfinished = [n \in Names |-> NoCopy]
  /\ replaced = [n \in Names |-> NoCopy]
  /\ snapshots = 0 /\ version = 0 /\ name = 0 /\ pc = "off" /\ clock = 0
  /\ launches = 0 /\ crashes = 0 /\ failures = 0
  /\ openedBy = 0 /\ from = 0 /\ unread = FALSE

-----------------------------------------------------------------------------
\* What a launch reads before it copies anything: the version recorded, the marks
\* of the two copies, the files there are.  A mark that can't be read is as good as
\* none; a data folder that can't be listed ends it, with nothing recorded.
Read == {"last version", "backup", "unfinished", "data"}

\* Where backupDataIfVersionChanged goes first: a copy this version took is
\* finished, not taken again (its mutant: an unfinished one is taken again).
StartOver(v, n, last, misread) ==
  IF last = v THEN "open"
  ELSE IF "backup" \notin misread /\ backups[n].before = v THEN "record"
  ELSE IF "data" \in misread THEN "open"
  ELSE IF data = 0 THEN "record only"
  ELSE "copy"

Start(v, n, last, misread) ==
  IF last = v THEN "open"
  ELSE IF "backup" \notin misread /\ backups[n].before = v THEN "record"
  ELSE IF "unfinished" \notin misread /\ unfinished[n].before = v THEN "move"
  ELSE IF "data" \in misread THEN "open"
  ELSE IF data = 0 THEN "record only"
  ELSE "copy"

Launch(v, misread) ==
  /\ pc = "off" /\ launches < MaxLaunches
  /\ MayDowngrade \/ v >= version
  /\ launches' = launches + 1
  /\ version' = v
  /\ LET last == IF "last version" \in misread THEN 0 ELSE lastVersion IN
     /\ name' = IF last # 0 THEN last ELSE -v
     /\ pc' = Start(v, name', last, misread)
  /\ IF misread = {} THEN UNCHANGED <<failures, unread>>
     ELSE failures < MaxFailures /\ failures' = failures + 1 /\ unread' = TRUE
  /\ UNCHANGED <<data, lastVersion, folders, clock, crashes, openedBy, from>>

Step(from_, to) == pc = from_ /\ pc' = to /\ UNCHANGED <<data, version, name, launches, crashes, opening>>

\* Something throws: the launch goes on to open the data.
Fails(step) ==
  /\ Step(step, "open") /\ failures < MaxFailures
  /\ failures' = failures + 1
  /\ UNCHANGED <<lastVersion, folders, clock>>

\* The files are copied into an empty folder, which is marked once all are.
CopyBegins ==
  /\ Step("copy", "copying")
  /\ clock' = clock + 1
  /\ unfinished' = [unfinished EXCEPT ![name] = [data |-> data, before |-> 0, at |-> clock']]
  /\ UNCHANGED <<lastVersion, backups, replaced, snapshots, failures>>

\* (Its mutant records the version before the copy is in its place.)
CopiedAndRecorded ==
  /\ Step("copying", "move")
  /\ unfinished' = [unfinished EXCEPT ![name].before = version]
  /\ lastVersion' = version
  /\ UNCHANGED <<backups, replaced, snapshots, clock, failures>>

Copied ==
  /\ Step("copying", "move")
  /\ unfinished' = [unfinished EXCEPT ![name].before = version]
  /\ UNCHANGED <<lastVersion, backups, replaced, snapshots, clock, failures>>

\* A copy that fails is not tried again: the version is recorded.
CopyFails ==
  /\ Step("copy", "record only") \/ Step("copying", "record only")
  /\ failures < MaxFailures
  /\ failures' = failures + 1
  /\ \E left \in {NoCopy, unfinished[name]} : unfinished' = [unfinished EXCEPT ![name] = left]
  /\ UNCHANGED <<lastVersion, backups, replaced, snapshots, clock>>

\* moveIntoPlace: an older backup of the name is renamed out of the way, ...
MoveBegins ==
  /\ Step("move", "move aside")
  /\ replaced' = [replaced EXCEPT ![name] = NoCopy]
  /\ UNCHANGED <<lastVersion, backups, unfinished, snapshots, clock, failures>>

MoveAside ==
  /\ Step("move aside", "move in")
  /\ replaced' = [replaced EXCEPT ![name] = backups[name]]
  /\ backups' = [backups EXCEPT ![name] = NoCopy]
  /\ UNCHANGED <<lastVersion, unfinished, snapshots, clock, failures>>

\* ... and the new one into its place.
MoveIn ==
  /\ Step("move in", "clear")
  /\ backups' = [backups EXCEPT ![name] = unfinished[name]]
  /\ unfinished' = [unfinished EXCEPT ![name] = NoCopy]
  /\ UNCHANGED <<lastVersion, replaced, snapshots, clock, failures>>

Clear ==
  /\ Step("clear", "record")
  /\ replaced' = [replaced EXCEPT ![name] = NoCopy]
  /\ UNCHANGED <<lastVersion, backups, unfinished, snapshots, clock, failures>>

RecordVersion ==
  /\ \/ Step("record", "prune") \/ Step("record only", "open")
  /\ lastVersion' = version
  /\ UNCHANGED <<folders, clock, failures>>

\* The folders in backups/ that are not this launch's, the snapshots' among them,
\* newest first: the ones after the newest go, and so do the leftovers.
Others == {n \in Names \ {name} : backups[n] # NoCopy}
Newer(at) == Cardinality({n \in Others : backups[n].at > at})
               + IF snapshots > at THEN 1 ELSE 0
IsOld(at) == Newer(at) >= BackupsToKeep - 1

PruneBackups ==
  /\ Step("prune", "open")
  /\ backups' = [n \in Names |-> IF n \in Others /\ IsOld(backups[n].at) THEN NoCopy ELSE backups[n]]
  /\ snapshots' = IF snapshots # 0 /\ IsOld(snapshots) THEN 0 ELSE snapshots
  /\ unfinished' = [n \in Names |-> NoCopy]
  /\ replaced' = [n \in Names |-> NoCopy]
  /\ UNCHANGED <<lastVersion, clock, failures>>

\* The launch ends before the data is opened.
Crash ==
  /\ pc \notin {"off", "running"} /\ crashes < MaxCrashes
  /\ crashes' = crashes + 1
  /\ pc' = "off"
  /\ UNCHANGED <<data, lastVersion, folders, version, name, clock, launches, failures, opening>>

\* The version opens the data, and changes it.
Open ==
  /\ pc = "open" /\ pc' = "running"
  /\ clock' = clock + 1 /\ data' = clock'
  /\ openedBy' = version
  /\ from' = IF openedBy = version THEN from ELSE data
  /\ UNCHANGED <<lastVersion, folders, version, name, counts, unread>>

\* A snapshot is taken, while the app runs and when the last is a day old.
TakeSnapshot ==
  /\ pc = "running" /\ snapshots < data
  /\ clock' = clock + 1 /\ snapshots' = clock'
  /\ UNCHANGED <<data, lastVersion, backups, unfinished, replaced, version, name, pc, counts, opening>>

Quit ==
  /\ pc = "running" /\ pc' = "off"
  /\ UNCHANGED <<data, lastVersion, folders, version, name, clock, counts, opening>>

Next ==
  \/ \E v \in Versions, misread \in SUBSET Read : Launch(v, misread)
  \/ CopyBegins \/ Copied \/ CopyFails
  \/ MoveBegins \/ MoveAside \/ MoveIn \/ Clear
  \/ RecordVersion \/ PruneBackups
  \/ \E step \in {"move", "move aside", "move in", "clear", "record", "prune", "record only"} : Fails(step)
  \/ Crash \/ Open \/ TakeSnapshot \/ Quit

Spec == Init /\ [][Next]_vars

-----------------------------------------------------------------------------
\* "a copy taken by a later launch would not hold the data from before the
\* upgrade": what is marked as copied before the version in use opened the data
\* holds what it was before that, whichever launch finished it, unless two things
\* failed (a launch that could neither copy nor record leaves the copying to the
\* next one), or a launch could not read what it goes by.  (A fresh install that
\* could not record itself copies its own data later, and loses nothing by it.)
CopiedBeforeOpened ==
  /\ TypeOK
  /\ from # 0 /\ failures <= 1 /\ ~unread =>
       \A n \in Names : backups[n].before = openedBy => backups[n].data = from

\* The same whatever it is that failed, which one reading that fails violates: the
\* next launch copies, and marks, what this version has opened.
NotTriedAgain ==
  from # 0 /\ failures <= 1 =>
    \A n \in Names : backups[n].before = openedBy => backups[n].data = from

\* "On the first launch of a different version, copy the data": once a version
\* runs, unless something failed, a backup holds the data from before it did.
UpgradeIsBackedUp ==
  pc = "running" /\ failures = 0 /\ from # 0 =>
    \E n \in Names : backups[n].before # 0 /\ backups[n].data = from

\* The backups made before upgrades and the snapshots are kept apart: pruning the
\* one never removes the other.
SnapshotsKept == [][snapshots # 0 => snapshots' # 0]_vars
============================================================================
