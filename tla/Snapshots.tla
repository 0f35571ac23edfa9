----------------------------- MODULE Snapshots -----------------------------
(***************************************************************************)
(* The database's snapshots (main/snapshots.ts): taken while the app runs, *)
(* every day, by hand and before a restore, pruned after each, and         *)
(* restored by the next launch, which moves the database and its           *)
(* write-ahead log aside, puts the snapshot in their place and may crash   *)
(* or fail at any of these steps.                                          *)
(*                                                                         *)
(* What a database holds is a number: 0 an empty one, and a new number for *)
(* every write.  Moments are numbers too: the snapshots' names.            *)
(***************************************************************************)
EXTENDS Integers, FiniteSets

CONSTANTS
  Calls,            \* the calls of takeSnapshot that may be under way
  SnapshotsToKeep,  \* SNAPSHOTS_TO_KEEP
  MaxTaken,         \* bound: snapshots taken
  MaxWrites,        \* bound: writes to the database
  MaxCrashes,       \* bound: launches that crash
  MaxFailures       \* bound: operations on files that fail in a launch that restores

ASSUME KeepAssumption == SnapshotsToKeep \in Nat \ {0}
ASSUME BoundsAssumption ==
  /\ MaxTaken \in Nat /\ MaxWrites \in Nat /\ MaxCrashes \in Nat /\ MaxFailures \in Nat

VARIABLES
  main,       \* the database's file
  wal,        \* its write-ahead log: the database it is of, and what both hold
  aside,      \* the two, .replaced
  restoring,  \* the snapshot's copy, .restoring
  marker,     \* restore-snapshot: the snapshot to restore
  snapshots,  \* the snapshots there are
  unfinished, \* the .unfinished- ones
  phase,      \* where a launch is
  moved,      \* the files this launch moved aside
  calls,      \* the calls of takeSnapshot
  taken,      \* how many snapshots were begun
  writes,     \* how many writes there were
  crashes,    \* how many launches crashed
  failures,   \* how many operations on files failed
  before,     \* history: what the database held when the app last ran
  asked,      \* history: the snapshot a restore asked for, until the app runs again
  undo,       \* history: the snapshot taken before that restore
  placed,     \* history: the snapshots that were put in place
  missed      \* history: those a pruning removed without knowing what they are for

files == <<main, wal, aside, restoring, marker>>
taking == <<snapshots, unfinished, calls, taken, placed, missed>>
history == <<before, asked, undo>>
faults == <<crashes, failures>>
vars == <<files, taking, phase, moved, writes, faults, history>>

NoFile == -1
NoWal == [on |-> NoFile, v |-> NoFile]
NoSnapshot == [at |-> 0, daily |-> FALSE, v |-> NoFile]

Data == 0..MaxWrites
Wal == [on : Data, v : Data]
Snapshot == [at : 1..MaxTaken, daily : BOOLEAN, v : Data]

\* A call: the snapshot it takes (before a restore, with the one to restore),
\* the names it listed, and the ones it keeps.
NoCall == [pc |-> "idle", snapshot |-> NoSnapshot, daily |-> FALSE, protect |-> NoSnapshot,
           names |-> {}, keep |-> {}]

IsCall(call) ==
  /\ call.pc \in {"idle", "vacuum", "rename", "list", "stat", "waiting", "prune", "mark"}
  /\ call.snapshot \in Snapshot \cup {NoSnapshot} /\ call.daily \in BOOLEAN
  /\ call.protect \in Snapshot \cup {NoSnapshot}
  /\ call.names \subseteq Snapshot /\ call.keep \subseteq Snapshot \cup {NoSnapshot}

TypeOK ==
  /\ main \in Data \cup {NoFile} /\ wal \in Wal \cup {NoWal}
  /\ aside.main \in Data \cup {NoFile} /\ aside.wal \in Wal \cup {NoWal}
  /\ restoring \in Data \cup {NoFile}
  /\ marker \in Snapshot \cup {NoSnapshot}
  /\ snapshots \subseteq Snapshot /\ unfinished \subseteq Snapshot
  /\ phase \in {"off", "copy", "move main", "move wal", "swap", "clear", "roll wal", "roll main",
                "unmark", "open", "running"}
  /\ moved \subseteq {"main", "wal"}
  /\ \A c \in Calls : IsCall(calls[c])
  /\ phase = "running" => main # NoFile /\ marker = NoSnapshot

\* The first launch, in an empty data folder.
Init ==
  /\ main = NoFile /\ wal = NoWal /\ aside = [main |-> NoFile, wal |-> NoWal]
  /\ restoring = NoFile /\ marker = NoSnapshot
  /\ snapshots = {} /\ unfinished = {}
  /\ phase = "off" /\ moved = {}
  /\ calls = [c \in Calls |-> NoCall]
  /\ taken = 0 /\ writes = 0 /\ crashes = 0 /\ failures = 0
  /\ before = 0 /\ asked = NoSnapshot /\ undo = NoSnapshot
  /\ placed = {} /\ missed = {}

\* What the database holds once it is opened: SQLite makes a new one where there
\* is none, whatever log lies beside it.
Held == IF main = NoFile THEN 0 ELSE IF wal = NoWal THEN main ELSE wal.v

-----------------------------------------------------------------------------
\* takeSnapshot, called every day, by hand or before a restore of a snapshot in
\* the list; up to its first await.
Begin(c, daily, protect) ==
  /\ phase = "running" /\ calls[c].pc = "idle" /\ taken < MaxTaken
  /\ protect \in snapshots \cup {NoSnapshot}
  /\ daily => protect = NoSnapshot
  /\ calls' = [calls EXCEPT ![c] = [NoCall EXCEPT !.pc = "vacuum", !.daily = daily,
                                                  !.protect = protect]]
  /\ UNCHANGED <<files, snapshots, unfinished, taken, placed, missed, phase, moved, writes, faults, history>>

\* VACUUM INTO an unfinished file.
Vacuum(c) ==
  /\ calls[c].pc = "vacuum" /\ taken < MaxTaken
  /\ taken' = taken + 1
  /\ LET snapshot == [at |-> taken', daily |-> calls[c].daily, v |-> Held] IN
     /\ unfinished' = unfinished \cup {snapshot}
     /\ calls' = [calls EXCEPT ![c].pc = "rename", ![c].snapshot = snapshot]
  /\ UNCHANGED <<files, snapshots, placed, missed, phase, moved, writes, faults, history>>

\* It is renamed, unless another call's pruning took it for a leftover.
Rename(c) ==
  /\ calls[c].pc = "rename"
  /\ LET snapshot == calls[c].snapshot IN
     IF snapshot \in unfinished
       THEN /\ unfinished' = unfinished \ {snapshot}
            /\ snapshots' = snapshots \cup {snapshot}
            /\ placed' = placed \cup {snapshot}
            /\ calls' = [calls EXCEPT ![c].pc = "list"]
       ELSE /\ calls' = [calls EXCEPT ![c] = NoCall]
            /\ UNCHANGED <<unfinished, snapshots, placed>>
  /\ UNCHANGED <<files, taken, missed, phase, moved, writes, faults, history>>

\* prune: listSnapshots reads the names and then each one's times; one that is
\* gone by then fails the call.
List(c) ==
  /\ calls[c].pc = "list"
  /\ calls' = [calls EXCEPT ![c].pc = "stat", ![c].names = snapshots]
  /\ UNCHANGED <<files, snapshots, unfinished, taken, placed, missed, phase, moved, writes, faults,
                 history>>

Stat(c) ==
  /\ calls[c].pc = "stat"
  /\ calls' = [calls EXCEPT ![c] = IF calls[c].names \subseteq snapshots
                                     THEN [@ EXCEPT !.pc = "waiting"] ELSE NoCall]
  /\ UNCHANGED <<files, snapshots, unfinished, taken, placed, missed, phase, moved, writes, faults,
                 history>>

\* The newest of the daily ones and of the others, the one about to be restored,
\* and the one a restore waits for (its mutants: all counted together; the one
\* about to be restored not kept).
Newest(S) == {s \in S : Cardinality({t \in S : t.at > s.at}) < SnapshotsToKeep}
Daily(S) == {s \in S : s.daily}
KeptTogether(names, protect, waiting) == Newest(names) \cup {protect, waiting}
KeptUnprotected(names, protect, waiting) ==
  Newest(Daily(names)) \cup Newest(names \ Daily(names)) \cup {waiting}
Kept(names, protect, waiting) ==
  Newest(Daily(names)) \cup Newest(names \ Daily(names)) \cup {protect, waiting}

ReadWaiting(c) ==
  /\ calls[c].pc = "waiting"
  /\ calls' = [calls EXCEPT ![c].pc = "prune",
                            ![c].keep = Kept(calls[c].names, calls[c].protect, marker)]
  /\ UNCHANGED <<files, snapshots, unfinished, taken, placed, missed, phase, moved, writes, faults,
                 history>>

\* What is not kept goes, and so do the unfinished ones.  Then a restore is
\* asked for, and the app exits.
Prune(c) ==
  /\ calls[c].pc = "prune"
  /\ snapshots' = snapshots \cap calls[c].keep
  /\ unfinished' = {}
  /\ calls' = [calls EXCEPT ![c] = IF calls[c].protect = NoSnapshot THEN NoCall
                                   ELSE [@ EXCEPT !.pc = "mark"]]
  /\ missed' = missed \cup {s \in snapshots \ calls[c].keep :
                              \/ s \notin calls[c].names
                              \/ \E d \in Calls \ {c} : calls[d].protect = s}
  /\ UNCHANGED <<files, taken, placed, phase, moved, writes, faults, history>>

Mark(c) ==
  /\ calls[c].pc = "mark"
  /\ marker' = calls[c].protect
  /\ asked' = calls[c].protect /\ undo' = calls[c].snapshot
  /\ before' = Held
  /\ phase' = "off" /\ calls' = [d \in Calls |-> NoCall]
  /\ UNCHANGED <<main, wal, aside, restoring, snapshots, unfinished, taken, placed, missed, moved,
                 writes, faults>>

-----------------------------------------------------------------------------
\* The running app writes; SQLite moves the log into the database now and then.
Write ==
  /\ phase = "running" /\ writes < MaxWrites
  /\ writes' = writes + 1
  /\ wal' = [on |-> main, v |-> writes']
  /\ UNCHANGED <<main, aside, restoring, marker, taking, phase, moved, faults, history>>

Checkpoint ==
  /\ phase = "running" /\ wal # NoWal
  /\ main' = wal.v /\ wal' = NoWal
  /\ UNCHANGED <<aside, restoring, marker, taking, phase, moved, writes, faults, history>>

\* The running app quits, or crashes.
Quit ==
  /\ phase = "running"
  /\ before' = Held
  /\ phase' = "off" /\ calls' = [c \in Calls |-> NoCall]
  /\ UNCHANGED <<files, snapshots, unfinished, taken, placed, missed, moved, writes, faults, asked,
                 undo>>

-----------------------------------------------------------------------------
\* restorePendingSnapshot, up to its first await that matters.
Launch ==
  /\ phase = "off"
  /\ phase' = IF marker = NoSnapshot THEN "open" ELSE "copy"
  /\ moved' = {}
  /\ UNCHANGED <<files, taking, writes, faults, history>>

\* A launch's step that is not of the calls of takeSnapshot.
Restoring(step) == phase = step /\ UNCHANGED <<marker, taking, writes, crashes, history>>
Fails == failures < MaxFailures /\ failures' = failures + 1

\* Mutant: the marker is removed once it is read.
CopyUnmarks ==
  /\ phase = "copy" /\ marker' = NoSnapshot
  /\ UNCHANGED <<main, wal, aside, moved, taking, writes, crashes, history>>
  /\ \/ /\ marker \in snapshots
        /\ restoring' = marker.v /\ phase' = "move main" /\ UNCHANGED failures
     \/ /\ IF marker \in snapshots THEN Fails ELSE UNCHANGED failures
        /\ phase' = "roll wal" /\ UNCHANGED restoring

\* The snapshot is copied beside the database: one that is gone fails.
Copy ==
  /\ Restoring("copy") /\ UNCHANGED <<main, wal, aside, moved>>
  /\ \/ /\ marker \in snapshots
        /\ restoring' = marker.v /\ phase' = "move main" /\ UNCHANGED failures
     \/ /\ IF marker \in snapshots THEN Fails ELSE UNCHANGED failures
        /\ phase' = "roll wal" /\ UNCHANGED restoring

\* The database goes aside, if there is one; ...
MoveMain ==
  /\ Restoring("move main") /\ UNCHANGED <<wal, restoring>>
  /\ \/ /\ main # NoFile
        /\ main' = NoFile /\ aside' = [aside EXCEPT !.main = main] /\ moved' = moved \cup {"main"}
        /\ phase' = "move wal" /\ UNCHANGED failures
     \/ /\ main = NoFile
        /\ phase' = "move wal" /\ UNCHANGED <<main, aside, moved, failures>>
     \/ /\ main # NoFile /\ Fails
        /\ phase' = "roll wal" /\ UNCHANGED <<main, aside, moved>>

\* ... its log too (its mutant: the log is left); ...
LeaveWal ==
  /\ Restoring("move wal") /\ UNCHANGED <<main, restoring, wal, aside, moved, failures>>
  /\ phase' = "swap"

MoveWal ==
  /\ Restoring("move wal") /\ UNCHANGED <<main, restoring>>
  /\ \/ /\ wal # NoWal
        /\ wal' = NoWal /\ aside' = [aside EXCEPT !.wal = wal] /\ moved' = moved \cup {"wal"}
        /\ phase' = "swap" /\ UNCHANGED failures
     \/ /\ wal = NoWal
        /\ phase' = "swap" /\ UNCHANGED <<wal, aside, moved, failures>>
     \/ /\ wal # NoWal /\ Fails
        /\ phase' = "roll wal" /\ UNCHANGED <<wal, aside, moved>>

\* ... and the snapshot takes its place.
Swap ==
  /\ Restoring("swap") /\ UNCHANGED <<wal, aside, moved>>
  /\ \/ main' = restoring /\ restoring' = NoFile /\ phase' = "clear" /\ UNCHANGED failures
     \/ Fails /\ phase' = "roll wal" /\ UNCHANGED <<main, restoring>>

\* What this launch moved is removed, as far as it can be.
Clear ==
  /\ Restoring("clear") /\ UNCHANGED <<main, wal, restoring, moved, failures>>
  /\ \E gone \in SUBSET moved :
       aside' = [main |-> IF "main" \in gone THEN NoFile ELSE aside.main,
                 wal |-> IF "wal" \in gone THEN NoWal ELSE aside.wal]
  /\ phase' = "unmark"

\* After a failure, what this launch moved is moved back, last first; a file that
\* can't be is left aside.
RollWal ==
  /\ Restoring("roll wal") /\ UNCHANGED <<main, restoring, moved>>
  /\ phase' = "roll main"
  /\ \/ /\ "wal" \in moved
        /\ wal' = aside.wal /\ aside' = [aside EXCEPT !.wal = NoWal] /\ UNCHANGED failures
     \/ /\ "wal" \in moved => Fails
        /\ "wal" \notin moved => UNCHANGED failures
        /\ UNCHANGED <<wal, aside>>

RollMain ==
  /\ Restoring("roll main") /\ UNCHANGED <<wal, moved>>
  /\ phase' = "unmark" /\ restoring' = NoFile
  /\ \/ /\ "main" \in moved
        /\ main' = aside.main /\ aside' = [aside EXCEPT !.main = NoFile] /\ UNCHANGED failures
     \/ /\ "main" \in moved => Fails
        /\ "main" \notin moved => UNCHANGED failures
        /\ UNCHANGED <<main, aside>>

\* Either way the marker goes.
Unmark ==
  /\ phase = "unmark" /\ phase' = "open"
  /\ marker' = NoSnapshot
  /\ UNCHANGED <<main, wal, aside, restoring, moved, taking, writes, faults, history>>

\* The launch ends at any of these steps.
Crash ==
  /\ phase \notin {"off", "running"} /\ crashes < MaxCrashes
  /\ crashes' = crashes + 1
  /\ phase' = "off" /\ moved' = {}
  /\ UNCHANGED <<files, taking, writes, failures, history>>

\* The database is opened, and the app runs.
Open ==
  /\ phase = "open" /\ phase' = "running"
  /\ IF main = NoFile THEN main' = 0 /\ wal' = NoWal ELSE UNCHANGED <<main, wal>>
  /\ before' = Held /\ asked' = NoSnapshot /\ undo' = NoSnapshot
  /\ UNCHANGED <<aside, restoring, marker, taking, moved, writes, faults>>

Next ==
  \/ \E c \in Calls :
       \/ \E daily \in BOOLEAN, protect \in snapshots \cup {NoSnapshot} : Begin(c, daily, protect)
       \/ Vacuum(c) \/ Rename(c) \/ List(c) \/ Stat(c) \/ ReadWaiting(c) \/ Prune(c) \/ Mark(c)
  \/ Write \/ Checkpoint \/ Quit \/ Launch \/ Open \/ Crash
  \/ Copy \/ MoveMain \/ MoveWal \/ Swap \/ Clear \/ RollWal \/ RollMain \/ Unmark

Spec == Init /\ [][Next]_vars

-----------------------------------------------------------------------------
\* Of each kind, the newest that were ever put in place.
NewestDaily == Newest(Daily(placed))
NewestOthers == Newest(placed \ Daily(placed))

\* "never the one a restore is waiting for", and "What's there now is snapshotted
\* first, so a restore can be undone too": whichever calls overlap, the snapshot
\* the next launch is to restore is there until that launch has read it, and the
\* one taken before it is when the app runs again, unless as many others were
\* taken meanwhile; but for a snapshot another call's pruning removed which was put
\* in place after it had listed the names, or which a call is about to restore.
RestorePointsKept ==
  /\ marker \notin missed \cup {NoSnapshot} => marker \in snapshots
  /\ undo \in NewestOthers \ missed => undo \in snapshots

\* "taking one by hand doesn't push out the daily history": the newest daily
\* snapshots ever taken are there, however many others are, and whichever calls
\* overlap, but for those another call's pruning missed in that way.
DailyHistoryKept == NewestDaily \ missed \subseteq snapshots

\* The same without the exemption, which calls that overlap violate: the restore
\* that was asked for can be made, and undone.
RestoreCanBeUndone == {marker, undo} \ {NoSnapshot} \subseteq snapshots

\* However a restore crashes and fails, a write-ahead log is never opened with a
\* database it is not of, which SQLite would take for its own.
NeverMixed ==
  /\ TypeOK
  /\ phase = "open" /\ main # NoFile /\ wal # NoWal => wal.on = main

\* "so a failure leaves them as they were": a launch opens the snapshot asked for,
\* or the data as it was when the app last ran.  Whatever crashes, or one thing that
\* fails; not both: what a launch that crashed moved aside, the next one, failing,
\* does not know to move back.
OpensRestoredOrAsBefore ==
  phase = "open" /\ (failures = 0 \/ (failures = 1 /\ crashes = 0)) =>
    Held = before \/ (asked # NoSnapshot /\ Held = asked.v)
============================================================================
