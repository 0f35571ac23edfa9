-------------------------- MODULE Snapshots_proofs --------------------------
(***************************************************************************)
(* Proofs about Snapshots, for every number of snapshots, writes, crashes  *)
(* and failures.                                                           *)
(*                                                                         *)
(* A launch that restores has two ways out: to put the snapshot in place,  *)
(* or to move back what it moved aside.  What it would move back           *)
(* (MainBack, WalBack) is therefore kept in the invariant at every step:   *)
(* the log is always the database's (Matched), and what would be held is   *)
(* the data as it was, unless a launch that crashed left it in pieces and  *)
(* nothing has failed: then the next one restores the snapshot (AsItWas).  *)
(*                                                                         *)
(* Of the taking of snapshots, the invariant says of every call that it    *)
(* listed nothing but what was put in place, so that what is among the     *)
(* newest put in place is kept by a pruning that listed it (PlacedInv);    *)
(* and, while one call at a time is under way (OneAtATime), that it listed *)
(* all there is: then no pruning misses any.                               *)
(***************************************************************************)
EXTENDS Snapshots, FiniteSetTheorems, TLAPS

Phases == {"off", "copy", "move main", "move wal", "swap", "clear", "roll wal", "roll main",
           "unmark", "open", "running"}
Steps == {"idle", "vacuum", "rename", "list", "stat", "waiting", "prune", "mark"}
Call == [pc : Steps, snapshot : Snapshot \cup {NoSnapshot}, daily : BOOLEAN,
         protect : Snapshot \cup {NoSnapshot}, names : SUBSET Snapshot,
         keep : SUBSET (Snapshot \cup {NoSnapshot})]

FilesTyped ==
  /\ main \in Data \cup {NoFile} /\ wal \in Wal \cup {NoWal}
  /\ aside \in [main : Data \cup {NoFile}, wal : Wal \cup {NoWal}]
  /\ restoring \in Data \cup {NoFile}
  /\ marker \in Snapshot \cup {NoSnapshot}

StepsTyped ==
  /\ phase \in Phases /\ moved \subseteq {"main", "wal"}
  /\ taken \in 0..MaxTaken /\ writes \in 0..MaxWrites
  /\ crashes \in Nat /\ failures \in Nat
  /\ phase = "running" => main # NoFile

TakingTyped ==
  /\ snapshots \subseteq Snapshot /\ unfinished \subseteq Snapshot
  /\ calls \in [Calls -> Call]
  /\ \A c \in Calls : calls[c].pc # "idle" => phase = "running"

Types == FilesTyped /\ StepsTyped /\ TakingTyped

Taking(c) ==
  \/ \E daily \in BOOLEAN, protect \in snapshots \cup {NoSnapshot} : Begin(c, daily, protect)
  \/ Vacuum(c) \/ Rename(c) \/ List(c) \/ Stat(c) \/ ReadWaiting(c) \/ Prune(c)

Step ==
  \/ Write \/ Checkpoint \/ Quit \/ Launch \/ Open \/ Crash
  \/ Copy \/ MoveMain \/ MoveWal \/ Swap \/ Clear \/ RollWal \/ RollMain \/ Unmark

LEMMA NextSteps == Next <=> (\E c \in Calls : Taking(c) \/ Mark(c)) \/ Step
  BY DEF Next, Taking, Step

-----------------------------------------------------------------------------
(* The types *)

LEMMA NoCallTyped ==
  /\ NoCall \in Call /\ NoCall.pc = "idle"
  /\ NoCall.protect = NoSnapshot
  BY DEF NoCall, Call, Steps

LEMMA KeptTyped ==
  ASSUME NEW names \in SUBSET Snapshot, NEW protect \in Snapshot \cup {NoSnapshot},
         NEW waiting \in Snapshot \cup {NoSnapshot}
  PROVE  Kept(names, protect, waiting) \in SUBSET (Snapshot \cup {NoSnapshot})
<1>1. \A S : Newest(S) \subseteq S
  BY DEF Newest
<1>2. Daily(names) \subseteq names
  BY DEF Daily
<1> HIDE DEF Snapshot, NoSnapshot
<1>3. Newest(Daily(names)) \subseteq Snapshot /\ Newest(names \ Daily(names)) \subseteq Snapshot
  BY <1>1, <1>2
<1> QED BY <1>3 DEF Kept

LEMMA HeldTyped ==
  ASSUME FilesTyped
  PROVE  Held \in Data
<1>1. 0 \in Data
  BY BoundsAssumption DEF Data
<1>2. wal # NoWal => wal.v \in Data
  <2> HIDE DEF Data, NoWal
  <2> QED BY DEF FilesTyped, Wal
<1> HIDE DEF Data, NoWal, NoFile
<1> QED BY <1>1, <1>2 DEF FilesTyped, Held

LEMMA TakingKeepsTypes ==
  ASSUME Types, NEW c \in Calls, Taking(c)
  PROVE  Types' /\ phase = "running" /\ phase' = phase
           /\ UNCHANGED <<files, moved, writes, faults, history>>
<1>t. /\ calls \in [Calls -> Call] /\ calls[c] \in Call
      /\ calls[c].pc # "idle" => phase = "running"
      /\ snapshots \subseteq Snapshot /\ unfinished \subseteq Snapshot
      /\ marker \in Snapshot \cup {NoSnapshot}
  BY DEF Types, TakingTyped, FilesTyped
<1>1. phase = "running" /\ phase' = phase /\ UNCHANGED <<files, moved, writes, faults, history>>
  BY <1>t DEF Taking, Begin, Vacuum, Rename, List, Stat, ReadWaiting, Prune
<1>2. FilesTyped'
  BY <1>1 DEF Types, FilesTyped, files
<1>3. taken' \in 0..MaxTaken
  <2>1. taken' = taken \/ (taken < MaxTaken /\ taken' = taken + 1)
    BY DEF Taking, Begin, Vacuum, Rename, List, Stat, ReadWaiting, Prune
  <2> QED BY <2>1, BoundsAssumption DEF Types, StepsTyped
<1>4. StepsTyped'
  BY <1>1, <1>3 DEF Types, StepsTyped, faults, files
<1>n. NoSnapshot \in Snapshot \cup {NoSnapshot}
  OBVIOUS
<1>5. snapshots' \subseteq Snapshot /\ unfinished' \subseteq Snapshot /\ calls' \in [Calls -> Call]
  <2>1. CASE \E daily \in BOOLEAN, protect \in snapshots \cup {NoSnapshot} : Begin(c, daily, protect)
    <3>1. PICK daily \in BOOLEAN, protect \in snapshots \cup {NoSnapshot} : Begin(c, daily, protect)
      BY <2>1
    <3>2. [NoCall EXCEPT !.pc = "vacuum", !.daily = daily, !.protect = protect] \in Call
      <4>1. protect \in Snapshot \cup {NoSnapshot}
        BY <1>t
      <4> HIDE DEF Snapshot, NoSnapshot
      <4> QED BY <4>1 DEF NoCall, Call, Steps
    <3> QED BY <1>t, <3>1, <3>2 DEF Begin
  <2>2. CASE Vacuum(c)
    <3>1. PICK s : s = [at |-> taken + 1, daily |-> calls[c].daily, v |-> Held]
      OBVIOUS
    <3>2. calls[c].daily \in BOOLEAN
      BY <1>t DEF Call
    <3>3. taken + 1 \in 1..MaxTaken
      BY <2>2, BoundsAssumption DEF Vacuum, Types, StepsTyped
    <3>4. s \in Snapshot
      <4>1. Held \in Data
        BY HeldTyped DEF Types
      <4> HIDE DEF Held, Data
      <4> QED BY <3>1, <3>2, <3>3, <4>1 DEF Snapshot
    <3>5. /\ unfinished' = unfinished \cup {s} /\ snapshots' = snapshots
          /\ calls' = [calls EXCEPT ![c].pc = "rename", ![c].snapshot = s]
      BY <2>2, <3>1 DEF Vacuum
    <3>6. [calls[c] EXCEPT !.pc = "rename", !.snapshot = s] \in Call
      <4> HIDE DEF Snapshot, NoSnapshot
      <4> QED BY <1>t, <3>4 DEF Call, Steps
    <3>7. calls' \in [Calls -> Call]
      <4> HIDE DEF Call
      <4> QED BY <1>t, <3>5, <3>6
    <3> QED BY <1>t, <3>4, <3>5, <3>7
  <2>3. CASE Rename(c)
    <3>1. calls[c].snapshot \in Snapshot \cup {NoSnapshot}
      BY <1>t DEF Call
    <3>2. [calls[c] EXCEPT !.pc = "list"] \in Call
      <4> HIDE DEF Snapshot, NoSnapshot
      <4> QED BY <1>t DEF Call, Steps
    <3>3. calls' \in [Calls -> Call]
      <4>1. calls' = [calls EXCEPT ![c].pc = "list"] \/ calls' = [calls EXCEPT ![c] = NoCall]
        BY <2>3 DEF Rename
      <4> HIDE DEF Call, NoCall
      <4> QED BY <1>t, <3>2, <4>1, NoCallTyped
    <3>4. \/ unfinished' = unfinished /\ snapshots' = snapshots
          \/ /\ calls[c].snapshot \in unfinished
             /\ unfinished' \subseteq unfinished
             /\ snapshots' = snapshots \cup {calls[c].snapshot}
      BY <2>3 DEF Rename
    <3> QED BY <1>t, <3>3, <3>4
  <2>4. CASE List(c)
    <3>1. [calls[c] EXCEPT !.pc = "stat", !.names = snapshots] \in Call
      <4> HIDE DEF Snapshot, NoSnapshot
      <4> QED BY <1>t DEF Call, Steps
    <3>2. calls' = [calls EXCEPT ![c].pc = "stat", ![c].names = snapshots]
      BY <2>4 DEF List
    <3>3. calls' \in [Calls -> Call]
      <4> HIDE DEF Call
      <4> QED BY <1>t, <3>1, <3>2
    <3> QED BY <1>t, <2>4, <3>3 DEF List
  <2>5. CASE Stat(c)
    <3>1. [calls[c] EXCEPT !.pc = "waiting"] \in Call
      <4> HIDE DEF Snapshot, NoSnapshot
      <4> QED BY <1>t DEF Call, Steps
    <3>2. \E call \in Call : calls' = [calls EXCEPT ![c] = call]
      BY <2>5, <3>1, NoCallTyped DEF Stat
    <3> QED BY <1>t, <2>5, <3>2 DEF Stat
  <2>6. CASE ReadWaiting(c)
    <3>1. PICK k : k = Kept(calls[c].names, calls[c].protect, marker)
      OBVIOUS
    <3>2. k \in SUBSET (Snapshot \cup {NoSnapshot})
      <4>1. calls[c].names \in SUBSET Snapshot /\ calls[c].protect \in Snapshot \cup {NoSnapshot}
        BY <1>t DEF Call
      <4> QED BY <1>t, <3>1, <4>1, KeptTyped
    <3>3. [calls[c] EXCEPT !.pc = "prune", !.keep = k] \in Call
      <4> HIDE DEF Snapshot, NoSnapshot
      <4> QED BY <1>t, <3>2 DEF Call, Steps
    <3>4. calls' = [calls EXCEPT ![c].pc = "prune", ![c].keep = k]
      BY <2>6, <3>1 DEF ReadWaiting
    <3>5. calls' \in [Calls -> Call]
      <4> HIDE DEF Call
      <4> QED BY <1>t, <3>3, <3>4
    <3> QED BY <1>t, <2>6, <3>5 DEF ReadWaiting
  <2>7. CASE Prune(c)
    <3>1. [calls[c] EXCEPT !.pc = "mark"] \in Call
      <4> HIDE DEF Snapshot, NoSnapshot
      <4> QED BY <1>t DEF Call, Steps
    <3>2. \E call \in Call : calls' = [calls EXCEPT ![c] = call]
      BY <2>7, <3>1, NoCallTyped DEF Prune
    <3> QED BY <1>t, <2>7, <3>2 DEF Prune
  <2> QED BY <2>1, <2>2, <2>3, <2>4, <2>5, <2>6, <2>7 DEF Taking
<1>6. TakingTyped'
  BY <1>1, <1>5 DEF TakingTyped
<1> QED BY <1>1, <1>2, <1>4, <1>6 DEF Types

\* What every other step but Mark leaves alone, and what it makes of the files.
LEMMA StepKeepsTypes ==
  ASSUME Types, Step
  PROVE  Types' /\ UNCHANGED <<snapshots, unfinished, taken, placed, missed>>
<1>u. UNCHANGED <<snapshots, unfinished, taken, placed, missed>>
  BY DEF Step, Write, Checkpoint, Quit, Launch, Open, Crash, Copy, MoveMain, MoveWal, Swap, Clear,
         RollWal, RollMain, Unmark, Restoring, taking
<1>t. /\ main \in Data \cup {NoFile} /\ wal \in Wal \cup {NoWal}
      /\ aside \in [main : Data \cup {NoFile}, wal : Wal \cup {NoWal}]
      /\ aside.main \in Data \cup {NoFile} /\ aside.wal \in Wal \cup {NoWal}
      /\ restoring \in Data \cup {NoFile}
      /\ marker \in Snapshot \cup {NoSnapshot}
  BY DEF Types, FilesTyped
<1>z. 0 \in Data
  BY BoundsAssumption DEF Data
<1>v. /\ marker # NoSnapshot => marker.v \in Data
      /\ wal # NoWal => wal.v \in Data
  <2> HIDE DEF Data, NoSnapshot, NoWal
  <2> QED BY <1>t DEF Snapshot, Wal
<1>s. /\ phase \in Phases /\ moved \subseteq {"main", "wal"}
      /\ writes \in 0..MaxWrites /\ crashes \in Nat /\ failures \in Nat
  BY DEF Types, StepsTyped
<1>1. StepsTyped'
  <2>1. phase' \in Phases
    BY <1>s DEF Step, Write, Checkpoint, Quit, Launch, Open, Crash, Copy, MoveMain, MoveWal, Swap,
           Clear, RollWal, RollMain, Unmark, Restoring, Phases
  <2>2. moved' \subseteq {"main", "wal"}
    BY <1>s DEF Step, Write, Checkpoint, Quit, Launch, Open, Crash, Copy, MoveMain, MoveWal, Swap,
           Clear, RollWal, RollMain, Unmark, Restoring, files
  <2>3. writes' \in 0..MaxWrites
    <3>1. writes' = writes \/ (writes < MaxWrites /\ writes' = writes + 1)
      BY DEF Step, Write, Checkpoint, Quit, Launch, Open, Crash, Copy, MoveMain, MoveWal, Swap, Clear,
             RollWal, RollMain, Unmark, Restoring
    <3> QED BY <1>s, <3>1, BoundsAssumption
  <2>4. crashes' \in Nat /\ failures' \in Nat
    <3>1. crashes' = crashes \/ crashes' = crashes + 1
      BY DEF Step, Write, Checkpoint, Quit, Launch, Open, Crash, Copy, MoveMain, MoveWal, Swap, Clear,
             RollWal, RollMain, Unmark, Restoring, faults
    <3>2. failures' = failures \/ failures' = failures + 1
      BY DEF Step, Write, Checkpoint, Quit, Launch, Open, Crash, Copy, MoveMain, MoveWal, Swap, Clear,
             RollWal, RollMain, Unmark, Restoring, Fails, faults
    <3> QED BY <1>s, <3>1, <3>2
  <2>5. phase' = "running" => main' # NoFile
    <3>1. CASE Open
      <4>1. main' = IF main = NoFile THEN 0 ELSE main
        BY <3>1 DEF Open
      <4> QED BY <4>1 DEF NoFile
    <3>2. CASE Checkpoint
      <4>1. wal.v # NoFile
        BY <1>v, <3>2 DEF Checkpoint, Data, NoFile
      <4> QED BY <3>2, <4>1 DEF Checkpoint
    <3>3. CASE Write
      BY <3>3 DEF Write, Types, StepsTyped
    <3>4. CASE ~Open /\ ~Checkpoint /\ ~Write
      <4>1. phase' # "running"
        BY <3>4 DEF Step, Quit, Launch, Crash, Copy, MoveMain, MoveWal, Swap, Clear, RollWal,
               RollMain, Unmark, Restoring
      <4> QED BY <4>1
    <3> QED BY <3>1, <3>2, <3>3, <3>4
  <2> QED BY <1>u, <2>1, <2>2, <2>3, <2>4, <2>5 DEF Types, StepsTyped
<1>2. FilesTyped'
  <2>1. CASE Write
    <3>1. PICK n : n = writes + 1
      OBVIOUS
    <3>2. n \in Data
      BY <1>s, <2>1, <3>1, BoundsAssumption DEF Write, Data
    <3>3. main \in Data
      <4>1. main # NoFile
        BY <2>1 DEF Write, Types, StepsTyped
      <4> QED BY <1>t, <4>1
    <3>4. wal' = [on |-> main, v |-> n]
      BY <2>1, <3>1 DEF Write
    <3>5. wal' \in Wal
      <4> HIDE DEF Data
      <4> QED BY <3>2, <3>3, <3>4 DEF Wal
    <3>6. UNCHANGED <<main, aside, restoring, marker>>
      BY <2>1 DEF Write
    <3> QED BY <1>t, <3>5, <3>6 DEF FilesTyped
  <2>2. CASE Checkpoint
    <3>1. /\ main' \in Data /\ wal' = NoWal
          /\ UNCHANGED <<aside, restoring, marker>>
      BY <1>v, <2>2 DEF Checkpoint
    <3> QED BY <1>t, <3>1 DEF FilesTyped
  <2>3. CASE Open
    <3>1. /\ main' \in Data \cup {NoFile} /\ wal' \in Wal \cup {NoWal}
          /\ UNCHANGED <<aside, restoring, marker>>
      BY <1>t, <1>z, <2>3 DEF Open
    <3> QED BY <1>t, <3>1 DEF FilesTyped
  <2>4. CASE Quit \/ Launch \/ Crash
    <3>1. UNCHANGED <<main, wal, aside, restoring, marker>>
      BY <2>4 DEF Quit, Launch, Crash, files
    <3> QED BY <1>t, <3>1 DEF FilesTyped
  <2>5. CASE Copy
    <3>1. /\ UNCHANGED <<main, wal, aside, marker>>
          /\ restoring' = restoring \/ (restoring' = marker.v /\ marker \in snapshots)
      BY <2>5 DEF Copy, Restoring
    <3>2. restoring' \in Data \cup {NoFile}
      <4>1. CASE marker \in snapshots
        <5>1. marker \in Snapshot
          BY <4>1 DEF Types, TakingTyped
        <5>2. marker.v \in Data
          <6> HIDE DEF Data
          <6> QED BY <5>1 DEF Snapshot
        <5> QED BY <1>t, <3>1, <5>2
      <4>2. CASE marker \notin snapshots
        BY <1>t, <3>1, <4>2
      <4> QED BY <4>1, <4>2
    <3> QED BY <1>t, <3>1, <3>2 DEF FilesTyped
  <2>6. CASE MoveMain
    <3>1. /\ UNCHANGED <<wal, restoring, marker>>
          /\ \/ main' = main /\ aside' = aside
             \/ main' = NoFile /\ aside' = [aside EXCEPT !.main = main]
      BY <2>6 DEF MoveMain, Restoring
    <3> HIDE DEF Data, Wal, NoWal, Snapshot, NoSnapshot
    <3> QED BY <1>t, <3>1 DEF FilesTyped
  <2>7. CASE MoveWal
    <3>1. /\ UNCHANGED <<main, restoring, marker>>
          /\ \/ wal' = wal /\ aside' = aside
             \/ wal' = NoWal /\ aside' = [aside EXCEPT !.wal = wal]
      BY <2>7 DEF MoveWal, Restoring
    <3> HIDE DEF Data, Wal, NoWal, Snapshot, NoSnapshot
    <3> QED BY <1>t, <3>1 DEF FilesTyped
  <2>8. CASE Swap
    <3>1. /\ UNCHANGED <<wal, aside, marker>>
          /\ \/ main' = main /\ restoring' = restoring
             \/ main' = restoring /\ restoring' = NoFile
      BY <2>8 DEF Swap, Restoring
    <3> QED BY <1>t, <3>1 DEF FilesTyped
  <2>9. CASE Clear
    <3>1. UNCHANGED <<main, wal, restoring, marker>>
      BY <2>9 DEF Clear, Restoring
    <3>2. PICK gone \in SUBSET moved :
            aside' = [main |-> IF "main" \in gone THEN NoFile ELSE aside.main,
                      wal |-> IF "wal" \in gone THEN NoWal ELSE aside.wal]
      BY <2>9 DEF Clear
    <3> HIDE DEF Data, Wal, NoWal, Snapshot, NoSnapshot
    <3> QED BY <1>t, <3>1, <3>2 DEF FilesTyped
  <2>10. CASE RollWal
    <3>1. /\ UNCHANGED <<main, restoring, marker>>
          /\ \/ wal' = wal /\ aside' = aside
             \/ wal' = aside.wal /\ aside' = [aside EXCEPT !.wal = NoWal]
      BY <2>10 DEF RollWal, Restoring
    <3> HIDE DEF Data, Wal, NoWal, Snapshot, NoSnapshot
    <3> QED BY <1>t, <3>1 DEF FilesTyped
  <2>11. CASE RollMain
    <3>1. /\ UNCHANGED <<wal, marker>> /\ restoring' = NoFile
          /\ \/ main' = main /\ aside' = aside
             \/ main' = aside.main /\ aside' = [aside EXCEPT !.main = NoFile]
      BY <2>11 DEF RollMain, Restoring
    <3> HIDE DEF Data, Wal, NoWal, Snapshot, NoSnapshot
    <3> QED BY <1>t, <3>1 DEF FilesTyped
  <2>12. CASE Unmark
    <3>1. UNCHANGED <<main, wal, aside, restoring>> /\ marker' = NoSnapshot
      BY <2>12 DEF Unmark
    <3> QED BY <1>t, <3>1 DEF FilesTyped
  <2> QED BY <2>1, <2>2, <2>3, <2>4, <2>5, <2>6, <2>7, <2>8, <2>9, <2>10, <2>11, <2>12 DEF Step
<1>3. TakingTyped'
  <2>1. calls' = calls \/ calls' = [c \in Calls |-> NoCall]
    BY DEF Step, Write, Checkpoint, Quit, Launch, Open, Crash, Copy, MoveMain, MoveWal, Swap, Clear,
           RollWal, RollMain, Unmark, Restoring, taking
  <2>2. \/ calls' = [c \in Calls |-> NoCall]
        \/ calls' = calls /\ (phase' = phase \/ phase # "running")
    BY DEF Step, Write, Checkpoint, Quit, Launch, Open, Crash, Copy, MoveMain, MoveWal, Swap, Clear,
           RollWal, RollMain, Unmark, Restoring, taking
  <2>3. calls' \in [Calls -> Call]
    BY <2>1, NoCallTyped DEF Types, TakingTyped
  <2>4. \A c \in Calls : calls'[c].pc # "idle" => phase' = "running"
    BY <2>2, NoCallTyped DEF Types, TakingTyped
  <2> QED BY <1>u, <2>3, <2>4 DEF Types, TakingTyped
<1> QED BY <1>u, <1>1, <1>2, <1>3 DEF Types

LEMMA MarkKeepsTypes ==
  ASSUME Types, NEW c \in Calls, Mark(c)
  PROVE  Types'
<1>1. calls[c] \in Call /\ phase' = "off"
  BY DEF Types, TakingTyped, Mark
<1>2. calls[c].protect \in Snapshot \cup {NoSnapshot}
  BY <1>1 DEF Call
<1>3. FilesTyped'
  BY <1>2 DEF Types, FilesTyped, Mark
<1>4. StepsTyped'
  BY DEF Types, StepsTyped, Mark, faults, Phases
<1>5. TakingTyped'
  BY NoCallTyped DEF Types, TakingTyped, Mark
<1> QED BY <1>3, <1>4, <1>5 DEF Types

-----------------------------------------------------------------------------
(* What a restore leaves *)

HeldIn(m, w) == IF m = NoFile THEN 0 ELSE IF w = NoWal THEN m ELSE w.v
IsOf(m, w) == m # NoFile /\ w # NoWal => w.on = m

\* The database and its log, if all that this launch moved aside were moved back.
MainBack == IF "main" \in moved THEN aside.main ELSE main
WalBack == IF "wal" \in moved THEN aside.wal ELSE wal

\* What a launch knows of the files at its steps.
Stages ==
  /\ phase \in {"open", "running"} => marker = NoSnapshot
  /\ phase \in {"copy", "move main", "move wal", "swap"} => marker # NoSnapshot
  /\ phase \in {"move main", "move wal", "swap"} => marker \in snapshots /\ restoring = marker.v
  /\ phase \in {"copy", "move main"} => moved = {}
  /\ phase \in {"move wal", "swap"} => main = NoFile
  /\ phase = "move wal" => "wal" \notin moved
  /\ phase = "swap" => wal = NoWal
  /\ phase = "roll wal" /\ "wal" \in moved => wal = NoWal
  /\ phase \in {"roll wal", "roll main"} /\ moved # {} => main = NoFile
  /\ phase \in {"roll wal", "roll main"} /\ failures = 0 => moved = {}
  /\ marker # NoSnapshot => asked = marker

\* The log is the database's, and will be once the two are moved back.
Matched ==
  /\ IsOf(main, wal)
  /\ phase \in {"move wal", "swap", "roll wal"} => IsOf(MainBack, WalBack)
  /\ phase = "roll main" => IsOf(MainBack, wal)

Calm == failures = 0 \/ (failures = 1 /\ crashes = 0)
Fine(held) == held = before \/ (asked # NoSnapshot /\ held = asked.v)

\* The data may be in pieces, of which the restore needs none.
Sure == failures = 0 /\ crashes > 0 /\ marker \in snapshots

AsItWas ==
  Calm =>
    /\ phase \in {"off", "copy", "move main"} => Fine(Held) \/ Sure
    /\ phase \in {"move wal", "swap"} => Fine(HeldIn(MainBack, WalBack)) \/ Sure
    /\ phase = "roll wal" => Fine(HeldIn(MainBack, WalBack))
    /\ phase = "roll main" => Fine(HeldIn(MainBack, wal))
    /\ phase \in {"clear", "unmark", "open"} => Fine(Held)

Inv == Types /\ Stages /\ Matched /\ AsItWas

\* While the app runs none of it is at stake.
LEMMA RunningIsFine ==
  ASSUME phase = "running", marker = NoSnapshot, IsOf(main, wal)
  PROVE  Stages /\ Matched /\ AsItWas
  BY DEF Stages, Matched, AsItWas

LEMMA InitInv ==
  ASSUME Init
  PROVE  Inv
<1>1. FilesTyped
  BY DEF Init, FilesTyped
<1>2. StepsTyped
  BY BoundsAssumption DEF Init, StepsTyped, Phases
<1>3. TakingTyped
  BY NoCallTyped DEF Init, TakingTyped
<1>4. Stages /\ Matched
  BY DEF Init, Stages, Matched, IsOf, NoFile
<1>5. AsItWas
  BY DEF Init, AsItWas, Fine, Held
<1> QED BY <1>1, <1>2, <1>3, <1>4, <1>5 DEF Inv, Types

LEMMA TakingKeepsInv ==
  ASSUME Inv, NEW c \in Calls, Taking(c)
  PROVE  Inv'
<1>1. Types' /\ phase = "running" /\ phase' = phase /\ UNCHANGED files
  BY TakingKeepsTypes DEF Inv
<1>2. marker' = NoSnapshot /\ main' = main /\ wal' = wal
  BY <1>1 DEF Inv, Stages, files
<1>3. IsOf(main, wal)'
  BY <1>2 DEF Inv, Matched, IsOf
<1>4. Stages' /\ Matched' /\ AsItWas'
  BY <1>1, <1>2, <1>3 DEF Stages, Matched, AsItWas, IsOf
<1> QED BY <1>1, <1>4 DEF Inv

\* The app ends, by itself or for a restore: what it held is what it was.
LEMMA EndKeepsInv ==
  ASSUME Inv, Quit \/ (\E c \in Calls : Mark(c))
  PROVE  Inv'
<1>1. Types'
  BY StepKeepsTypes, MarkKeepsTypes DEF Inv, Step
<1>2. /\ phase' = "off" /\ UNCHANGED <<main, wal, aside, restoring>>
      /\ before' = Held
      /\ (marker' = marker /\ asked' = asked) \/ marker' = asked'
  BY DEF Quit, Mark, files
<1>3. Stages'
  BY <1>2 DEF Inv, Stages
<1>4. Matched'
  BY <1>2 DEF Inv, Matched, IsOf
<1>5. Held' = before'
  BY <1>2 DEF Held
<1>6. AsItWas'
  BY <1>2, <1>5 DEF AsItWas, Fine
<1> QED BY <1>1, <1>3, <1>4, <1>6 DEF Inv

LEMMA RunKeepsInv ==
  ASSUME Inv, Write \/ Checkpoint \/ Open
  PROVE  Inv'
<1>1. Types'
  BY StepKeepsTypes DEF Inv, Step
<1>2. phase' = "running" /\ marker' = marker /\ marker = NoSnapshot
  BY DEF Write, Checkpoint, Open, Inv, Stages
<1>3. IsOf(main', wal')
  <2>1. CASE Write
    <3>1. main' = main /\ wal'.on = main
      BY <2>1 DEF Write
    <3> QED BY <3>1 DEF IsOf
  <2>2. CASE Checkpoint
    BY <2>2 DEF Checkpoint, IsOf
  <2>3. CASE Open
    BY <2>3 DEF Open, IsOf, Inv, Matched
  <2> QED BY <2>1, <2>2, <2>3
<1>4. Stages' /\ Matched' /\ AsItWas'
  BY <1>2, <1>3 DEF Stages, Matched, AsItWas, IsOf
<1> QED BY <1>1, <1>4 DEF Inv

LEMMA LaunchKeepsInv ==
  ASSUME Inv, Launch
  PROVE  Inv'
<1>1. Types'
  BY StepKeepsTypes DEF Inv, Step
<1>2. /\ phase = "off" /\ moved' = {}
      /\ phase' = IF marker = NoSnapshot THEN "open" ELSE "copy"
      /\ UNCHANGED <<main, wal, aside, restoring, marker, snapshots, crashes, failures, before, asked>>
  BY DEF Launch, files, taking, faults, history
<1>3. Stages'
  BY <1>2 DEF Inv, Stages
<1>4. Matched'
  BY <1>2 DEF Inv, Matched, IsOf
<1>5. ~(marker \in snapshots /\ marker = NoSnapshot)
  <2>1. snapshots \subseteq Snapshot
    BY DEF Inv, Types, TakingTyped
  <2> QED BY <2>1 DEF Snapshot, NoSnapshot
<1>6. AsItWas'
  BY <1>2, <1>5 DEF Inv, AsItWas, Calm, Fine, Held, Sure
<1> QED BY <1>1, <1>3, <1>4, <1>6 DEF Inv

\* A launch that crashes forgets what it moved: what is left in pieces is made
\* good by the restore, whose marker is still there.
LEMMA CrashKeepsInv ==
  ASSUME Inv, Crash
  PROVE  Inv'
<1>1. Types'
  BY StepKeepsTypes DEF Inv, Step
<1>2. /\ phase \in Phases \ {"off", "running"} /\ phase' = "off" /\ moved' = {}
      /\ crashes' = crashes + 1 /\ crashes \in Nat /\ failures \in Nat
      /\ UNCHANGED <<main, wal, aside, restoring, marker, snapshots, failures, before, asked>>
  BY DEF Crash, files, taking, history, Inv, Types, StepsTyped
<1>3. Stages'
  BY <1>2 DEF Inv, Stages
<1>4. Matched'
  BY <1>2 DEF Inv, Matched, IsOf
<1>5. AsItWas'
  <2> SUFFICES ASSUME failures = 0 PROVE (Fine(Held) \/ Sure)'
    BY <1>2 DEF AsItWas, Calm
  <2>1. Calm
    BY DEF Calm
  <2>2. CASE phase \in {"copy", "move main", "move wal", "swap"}
    <3>1. Fine(Held) \/ marker \in snapshots
      BY <2>1, <2>2 DEF Inv, AsItWas, Stages, Sure
    <3> QED BY <1>2, <3>1 DEF Fine, Held, Sure
  <2>3. CASE phase \in {"roll wal", "roll main"}
    <3>1. moved = {}
      BY <2>3 DEF Inv, Stages
    <3>2. Fine(Held)
      BY <2>1, <2>3, <3>1 DEF Inv, AsItWas, HeldIn, Held, MainBack, WalBack
    <3> QED BY <1>2, <3>2 DEF Fine, Held
  <2>4. CASE phase \in {"clear", "unmark", "open"}
    <3>1. Fine(Held)
      BY <2>1, <2>4 DEF Inv, AsItWas
    <3> QED BY <1>2, <3>1 DEF Fine, Held
  <2> QED BY <1>2, <2>2, <2>3, <2>4 DEF Phases
<1> QED BY <1>1, <1>3, <1>4, <1>5 DEF Inv

\* What the steps of a restore leave alone.
LEMMA RestoringAlone ==
  ASSUME Inv, NEW step, Restoring(step)
  PROVE  /\ phase = step /\ UNCHANGED <<marker, snapshots, crashes, before, asked>>
         /\ crashes \in Nat /\ failures \in Nat
  BY DEF Restoring, taking, history, Inv, Types, StepsTyped

\* What counts as calm after a step of a restore.
LEMMA CalmBefore ==
  ASSUME crashes \in Nat, failures \in Nat, crashes' = crashes, Calm',
         failures' = failures \/ failures' = failures + 1
  PROVE  Calm /\ (failures' = failures + 1 => ~Sure /\ failures = 0)
  BY DEF Calm, Sure

LEMMA CopyKeepsInv ==
  ASSUME Inv, Copy
  PROVE  Inv'
<1>1. Types'
  BY StepKeepsTypes DEF Inv, Step
<1>2. /\ phase = "copy" /\ UNCHANGED <<marker, snapshots, crashes, before, asked>>
      /\ crashes \in Nat /\ failures \in Nat
      /\ UNCHANGED <<main, wal, aside, moved>> /\ moved = {} /\ marker # NoSnapshot
  BY RestoringAlone DEF Copy, Inv, Stages
<1>3. \/ /\ phase' = "move main" /\ marker \in snapshots /\ restoring' = marker.v
         /\ failures' = failures
      \/ /\ phase' = "roll wal"
         /\ failures' = IF marker \in snapshots THEN failures + 1 ELSE failures
  BY DEF Copy, Fails
<1>4. Stages'
  BY <1>2, <1>3 DEF Inv, Stages
<1>5. Matched'
  BY <1>2, <1>3 DEF Inv, Matched, IsOf, MainBack, WalBack
<1>6. AsItWas'
  <2>1. CASE phase' = "move main"
    BY <1>2, <1>3, <2>1 DEF Inv, AsItWas, Calm, Fine, Held, Sure
  <2>2. CASE phase' = "roll wal" /\ Calm'
    <3>1. Calm /\ ~Sure
      BY <1>2, <1>3, <2>2, CalmBefore DEF Sure
    <3>2. Fine(Held)
      BY <1>2, <3>1 DEF Inv, AsItWas
    <3>3. HeldIn(MainBack, WalBack)' = Held
      BY <1>2 DEF HeldIn, Held, MainBack, WalBack
    <3> QED BY <1>2, <2>2, <3>2, <3>3 DEF AsItWas, Fine
  <2> QED BY <1>3, <2>1, <2>2 DEF AsItWas
<1> QED BY <1>1, <1>4, <1>5, <1>6 DEF Inv

LEMMA MoveMainKeepsInv ==
  ASSUME Inv, MoveMain
  PROVE  Inv'
<1>1. Types'
  BY StepKeepsTypes DEF Inv, Step
<1>2. /\ phase = "move main" /\ UNCHANGED <<marker, snapshots, crashes, before, asked>>
      /\ crashes \in Nat /\ failures \in Nat
      /\ UNCHANGED <<wal, restoring>> /\ moved = {} /\ marker # NoSnapshot
      /\ marker \in snapshots /\ restoring = marker.v
  BY RestoringAlone DEF MoveMain, Inv, Stages
<1>3. \/ /\ phase' = "move wal" /\ main # NoFile /\ main' = NoFile /\ aside'.main = main
         /\ moved' = {"main"} /\ failures' = failures
      \/ /\ phase' = "move wal" /\ main = NoFile /\ main' = main
         /\ moved' = {} /\ failures' = failures
      \/ /\ phase' = "roll wal" /\ main' = main /\ moved' = {} /\ failures' = failures + 1
  BY <1>2 DEF MoveMain, Fails, Inv, Types, FilesTyped
<1>4. Stages'
  BY <1>2, <1>3 DEF Inv, Stages
<1>5. MainBack' = main /\ WalBack' = wal
  BY <1>2, <1>3 DEF MainBack, WalBack
<1>6. Matched'
  BY <1>2, <1>3, <1>5 DEF Inv, Matched, IsOf
<1>7. AsItWas'
  <2> SUFFICES ASSUME Calm' PROVE AsItWas'
    BY DEF AsItWas
  <2>1. HeldIn(MainBack, WalBack)' = Held
    BY <1>5 DEF HeldIn, Held
  <2>2. Calm /\ (Fine(Held) \/ Sure)
    BY <1>2, <1>3, CalmBefore DEF Inv, AsItWas
  <2>3. phase' = "roll wal" => ~Sure
    BY <1>2, <1>3, CalmBefore
  <2>4. Sure' \/ Fine(Held)
    BY <1>2, <1>3, <2>2, <2>3 DEF Sure
  <2>5. Fine(Held) => Fine(HeldIn(MainBack, WalBack))'
    BY <1>2, <2>1 DEF Fine
  <2> QED BY <1>3, <2>2, <2>3, <2>4, <2>5 DEF AsItWas
<1> QED BY <1>1, <1>4, <1>6, <1>7 DEF Inv

LEMMA MoveWalKeepsInv ==
  ASSUME Inv, MoveWal
  PROVE  Inv'
<1>1. Types'
  BY StepKeepsTypes DEF Inv, Step
<1>2. /\ phase = "move wal" /\ UNCHANGED <<marker, snapshots, crashes, before, asked>>
      /\ crashes \in Nat /\ failures \in Nat
      /\ UNCHANGED <<main, restoring>> /\ main = NoFile /\ "wal" \notin moved
      /\ marker # NoSnapshot /\ marker \in snapshots /\ restoring = marker.v
  BY RestoringAlone DEF MoveWal, Inv, Stages
<1>3. /\ aside'.main = aside.main
      /\ \/ /\ phase' = "swap" /\ wal' = NoWal /\ aside'.wal = wal
            /\ moved' = moved \cup {"wal"} /\ failures' = failures
         \/ phase' = "swap" /\ wal = NoWal /\ wal' = wal /\ moved' = moved /\ failures' = failures
         \/ phase' = "roll wal" /\ wal' = wal /\ moved' = moved /\ failures' = failures + 1
  BY <1>2 DEF MoveWal, Fails, Inv, Types, FilesTyped
<1>f. phase' = "roll wal" => failures' # 0
  <2>1. failures \in Nat
    BY <1>2
  <2>2. failures + 1 # 0
    BY <2>1
  <2>3. phase' = "roll wal" => failures' = failures + 1
    BY <1>3
  <2> QED BY <2>2, <2>3
<1>4. Stages'
  BY <1>2, <1>3, <1>f DEF Inv, Stages
<1>5. MainBack' = MainBack /\ WalBack' = WalBack
  BY <1>2, <1>3 DEF MainBack, WalBack
<1>6. Matched'
  BY <1>2, <1>3, <1>5 DEF Inv, Matched, IsOf
<1>7. AsItWas'
  <2> SUFFICES ASSUME Calm' PROVE AsItWas'
    BY DEF AsItWas
  <2>1. HeldIn(MainBack, WalBack)' = HeldIn(MainBack, WalBack)
    BY <1>5 DEF HeldIn
  <2>2. Calm /\ (Fine(HeldIn(MainBack, WalBack)) \/ Sure)
    BY <1>2, <1>3, CalmBefore DEF Inv, AsItWas
  <2>3. phase' = "roll wal" => ~Sure
    BY <1>2, <1>3, CalmBefore
  <2>4. Sure' \/ Fine(HeldIn(MainBack, WalBack))
    BY <1>2, <1>3, <2>2, <2>3 DEF Sure
  <2>5. Fine(HeldIn(MainBack, WalBack)) => Fine(HeldIn(MainBack, WalBack))'
    BY <1>2, <2>1 DEF Fine
  <2> QED BY <1>3, <2>2, <2>3, <2>4, <2>5 DEF AsItWas
<1> QED BY <1>1, <1>4, <1>6, <1>7 DEF Inv

\* The snapshot is in the place of the database, and no log beside it.
LEMMA SwapKeepsInv ==
  ASSUME Inv, Swap
  PROVE  Inv'
<1>1. Types'
  BY StepKeepsTypes DEF Inv, Step
<1>2. /\ phase = "swap" /\ UNCHANGED <<marker, snapshots, crashes, before, asked>>
      /\ crashes \in Nat /\ failures \in Nat
      /\ UNCHANGED <<wal, aside, moved>> /\ main = NoFile /\ wal = NoWal
      /\ marker # NoSnapshot /\ marker \in snapshots /\ restoring = marker.v /\ asked = marker
  BY RestoringAlone DEF Swap, Inv, Stages
<1>3. \/ phase' = "clear" /\ main' = marker.v /\ failures' = failures
      \/ phase' = "roll wal" /\ main' = main /\ failures' = failures + 1
  BY <1>2 DEF Swap, Fails
<1>f. phase' = "roll wal" => failures' # 0
  <2>1. failures \in Nat
    BY <1>2
  <2>2. failures + 1 # 0
    BY <2>1
  <2>3. phase' = "roll wal" => failures' = failures + 1
    BY <1>3
  <2> QED BY <2>2, <2>3
<1>4. Stages'
  BY <1>2, <1>3, <1>f DEF Inv, Stages
<1>5. MainBack' = MainBack \/ phase' = "clear"
  BY <1>2, <1>3 DEF MainBack
<1>6. Matched'
  BY <1>2, <1>3, <1>5 DEF Inv, Matched, IsOf, WalBack
<1>7. AsItWas'
  <2>1. CASE phase' = "clear"
    <3>1. marker \in Snapshot
      BY <1>2 DEF Inv, Types, TakingTyped
    <3>2. marker.v # NoFile
      <4>1. marker.v \in Data
        <5> HIDE DEF Data
        <5> QED BY <3>1 DEF Snapshot
      <4> QED BY <4>1, BoundsAssumption DEF Data, NoFile
    <3>3. Held' = asked'.v
      BY <1>2, <1>3, <2>1, <3>2 DEF Held
    <3> QED BY <1>2, <2>1, <3>3 DEF AsItWas, Fine
  <2>2. CASE phase' = "roll wal" /\ Calm'
    <3>1. Calm /\ ~Sure
      BY <1>2, <1>3, <2>2, CalmBefore
    <3>2. Fine(HeldIn(MainBack, WalBack))
      BY <1>2, <3>1 DEF Inv, AsItWas
    <3>3. HeldIn(MainBack, WalBack)' = HeldIn(MainBack, WalBack)
      BY <1>2, <1>5, <2>2 DEF HeldIn, WalBack
    <3> QED BY <1>2, <2>2, <3>2, <3>3 DEF AsItWas, Fine
  <2> QED BY <1>3, <2>1, <2>2 DEF AsItWas
<1> QED BY <1>1, <1>4, <1>6, <1>7 DEF Inv

LEMMA RollWalKeepsInv ==
  ASSUME Inv, RollWal
  PROVE  Inv'
<1>1. Types'
  BY StepKeepsTypes DEF Inv, Step
<1>2. /\ phase = "roll wal" /\ phase' = "roll main"
      /\ UNCHANGED <<marker, snapshots, crashes, before, asked>>
      /\ crashes \in Nat /\ failures \in Nat /\ UNCHANGED <<main, restoring, moved>>
  BY RestoringAlone DEF RollWal
<1>3. /\ aside'.main = aside.main
      /\ \/ "wal" \in moved /\ wal' = aside.wal /\ failures' = failures
         \/ "wal" \notin moved /\ wal' = wal /\ failures' = failures
         \/ "wal" \in moved /\ wal' = wal /\ failures' = failures + 1
  BY <1>2 DEF RollWal, Fails, Inv, Types, FilesTyped
<1>f. failures' = failures \/ failures' # 0
  <2>1. failures \in Nat
    BY <1>2
  <2>2. failures' = failures \/ failures' = failures + 1
    BY <1>3
  <2> QED BY <2>1, <2>2
<1>4. Stages'
  BY <1>2, <1>3, <1>f DEF Inv, Stages
<1>5. MainBack' = MainBack
  BY <1>2, <1>3 DEF MainBack
<1>6. wal' = WalBack \/ (wal' = wal /\ failures' = failures + 1 /\ "wal" \in moved)
  BY <1>3 DEF WalBack
<1>7. Matched'
  <2>1. moved # {} => main = NoFile
    BY <1>2 DEF Inv, Stages
  <2>2. moved = {} => wal' = wal
    BY <1>3
  <2>3. IsOf(main, wal)'
    BY <1>2, <2>1, <2>2 DEF Inv, Matched, IsOf
  <2>4. IsOf(MainBack, wal)'
    <3>1. CASE wal' = WalBack
      BY <1>2, <1>5, <3>1 DEF Inv, Matched, IsOf
    <3>2. CASE wal' = wal /\ "wal" \in moved
      BY <1>2, <3>2 DEF Inv, Stages, IsOf
    <3> QED BY <1>3, <1>6, <3>1, <3>2
  <2> QED BY <1>2, <2>3, <2>4 DEF Matched
<1>8. AsItWas'
  <2> SUFFICES ASSUME Calm' PROVE Fine(HeldIn(MainBack, wal))'
    BY <1>2 DEF AsItWas
  <2>1. moved # {} => failures # 0
    BY <1>2 DEF Inv, Stages
  <2>2. wal' = WalBack /\ Calm
    BY <1>2, <1>3, <1>6, <2>1, CalmBefore
  <2> QED BY <1>2, <1>5, <2>2 DEF Inv, AsItWas, Fine, HeldIn
<1> QED BY <1>1, <1>4, <1>7, <1>8 DEF Inv

LEMMA RollMainKeepsInv ==
  ASSUME Inv, RollMain
  PROVE  Inv'
<1>1. Types'
  BY StepKeepsTypes DEF Inv, Step
<1>2. /\ phase = "roll main" /\ phase' = "unmark"
      /\ UNCHANGED <<marker, snapshots, crashes, before, asked>>
      /\ crashes \in Nat /\ failures \in Nat /\ UNCHANGED <<wal, moved>>
  BY RestoringAlone DEF RollMain
<1>3. \/ "main" \in moved /\ main' = aside.main /\ failures' = failures
      \/ "main" \notin moved /\ main' = main /\ failures' = failures
      \/ "main" \in moved /\ main' = main /\ failures' = failures + 1
  BY DEF RollMain, Fails
<1>4. Stages'
  BY <1>2 DEF Inv, Stages
<1>5. main' = MainBack \/ (main' = main /\ failures' = failures + 1 /\ moved # {})
  BY <1>3 DEF MainBack
<1>6. Matched'
  BY <1>2, <1>5 DEF Inv, Matched, IsOf
<1>7. AsItWas'
  <2> SUFFICES ASSUME Calm' PROVE Fine(Held)'
    BY <1>2 DEF AsItWas
  <2>1. moved # {} => failures # 0
    BY <1>2 DEF Inv, Stages
  <2>2. main' = MainBack /\ Calm
    BY <1>2, <1>3, <1>5, <2>1, CalmBefore
  <2> QED BY <1>2, <2>2 DEF Inv, AsItWas, Fine, HeldIn, Held
<1> QED BY <1>1, <1>4, <1>6, <1>7 DEF Inv

LEMMA EndOfRestoreKeepsInv ==
  ASSUME Inv, Clear \/ Unmark
  PROVE  Inv'
<1>1. Types'
  BY StepKeepsTypes DEF Inv, Step
<1>2. /\ phase \in {"clear", "unmark"} /\ phase' \in {"unmark", "open"}
      /\ UNCHANGED <<main, wal, crashes, failures, before, asked>>
      /\ marker' = marker \/ marker' = NoSnapshot
      /\ phase' = "open" => marker' = NoSnapshot
  BY RestoringAlone DEF Clear, Unmark, faults, history
<1>3. Stages'
  BY <1>2 DEF Inv, Stages
<1>4. Matched'
  BY <1>2 DEF Inv, Matched, IsOf
<1>5. AsItWas'
  BY <1>2 DEF Inv, AsItWas, Calm, Fine, Held
<1> QED BY <1>1, <1>3, <1>4, <1>5 DEF Inv

LEMMA NextInv ==
  ASSUME Inv, [Next]_vars
  PROVE  Inv'
<1>1. CASE vars' = vars
  <2>1. /\ UNCHANGED <<main, wal, aside, restoring, marker>>
        /\ UNCHANGED <<snapshots, unfinished, calls, taken, phase, moved, writes>>
        /\ UNCHANGED <<crashes, failures, before, asked>>
    BY <1>1 DEF vars, files, taking, history, faults
  <2>2. Types'
    BY <2>1 DEF Inv, Types, FilesTyped, StepsTyped, TakingTyped
  <2>3. Stages'
    BY <2>1 DEF Inv, Stages
  <2>4. Matched'
    BY <2>1 DEF Inv, Matched, IsOf, MainBack, WalBack
  <2>5. AsItWas'
    BY <2>1 DEF Inv, AsItWas, Calm, Fine, Held, HeldIn, MainBack, WalBack, Sure
  <2> QED BY <2>2, <2>3, <2>4, <2>5 DEF Inv
<1>2. CASE Next
  BY <1>2, NextSteps, TakingKeepsInv, EndKeepsInv, RunKeepsInv, LaunchKeepsInv, CrashKeepsInv,
     CopyKeepsInv, MoveMainKeepsInv, MoveWalKeepsInv, SwapKeepsInv, RollWalKeepsInv,
     RollMainKeepsInv, EndOfRestoreKeepsInv DEF Step
<1> QED BY <1>1, <1>2

\* The inductive invariant of restores, whatever crashes and fails.
THEOREM SpecInv == Spec => []Inv
  BY InitInv, NextInv, PTL DEF Spec

\* However a restore crashes and fails, a write-ahead log is never opened with a
\* database it is not of.
THEOREM LogIsTheDatabases == Spec => []NeverMixed
<1>1. Inv => TypeOK
  <2> SUFFICES ASSUME Inv PROVE TypeOK
    OBVIOUS
  <2>1. FilesTyped /\ StepsTyped /\ TakingTyped /\ Stages
    BY DEF Inv, Types
  <2>2. \A c \in Calls : IsCall(calls[c])
    <3> TAKE c \in Calls
    <3>1. calls[c] \in Call
      BY <2>1 DEF TakingTyped
    <3> HIDE DEF Snapshot, NoSnapshot
    <3> QED BY <3>1 DEF Call, Steps, IsCall
  <2>3. aside.main \in Data \cup {NoFile} /\ aside.wal \in Wal \cup {NoWal}
    BY <2>1 DEF FilesTyped
  <2> HIDE DEF Data, Wal, NoWal, Snapshot, NoSnapshot
  <2> QED BY <2>1, <2>2, <2>3 DEF FilesTyped, StepsTyped, TakingTyped, Stages, Phases, TypeOK
<1>2. Inv => NeverMixed
  BY <1>1 DEF Inv, Matched, IsOf, NeverMixed
<1> QED BY <1>2, SpecInv, PTL

\* A launch opens the snapshot asked for, or the data as it was when the app last
\* ran: whatever crashes, or one thing that fails.
THEOREM RestoredOrAsBefore == Spec => []OpensRestoredOrAsBefore
<1>1. Inv => OpensRestoredOrAsBefore
  BY DEF Inv, AsItWas, Calm, Fine, OpensRestoredOrAsBefore
<1> QED BY <1>1, SpecInv, PTL

-----------------------------------------------------------------------------
(* What pruning keeps *)

\* A snapshot stays among the newest when others go.
LEMMA NewestOfFewer ==
  ASSUME NEW T, IsFiniteSet(T), NEW S \in SUBSET T, NEW s \in S, s \in Newest(T)
  PROVE  s \in Newest(S)
<1> DEFINE Later(U) == {t \in U : t.at > s.at}
<1>1. Later(S) \subseteq Later(T) /\ Later(T) \subseteq T
  OBVIOUS
<1>2. Cardinality(Later(T)) < SnapshotsToKeep
  BY DEF Newest
<1> HIDE DEF Later
<1>3. IsFiniteSet(Later(T))
  BY <1>1, FS_Subset
<1>4. IsFiniteSet(Later(S)) /\ Cardinality(Later(S)) <= Cardinality(Later(T))
  BY <1>1, <1>3, FS_Subset
<1>5. Cardinality(Later(S)) \in Nat /\ Cardinality(Later(T)) \in Nat
  BY <1>3, <1>4, FS_CardinalityType
<1>6. Cardinality(Later(S)) < SnapshotsToKeep
  BY <1>2, <1>4, <1>5, KeepAssumption
<1> QED BY <1>6 DEF Newest, Later

\* The last one is among them.
LEMMA LastIsNewest ==
  ASSUME NEW S, NEW s \in S, \A t \in S : ~(t.at > s.at)
  PROVE  s \in Newest(S)
<1>1. {t \in S : t.at > s.at} = {}
  OBVIOUS
<1>2. Cardinality({t \in S : t.at > s.at}) = 0
  BY <1>1, FS_EmptySet
<1>3. 0 < SnapshotsToKeep
  BY KeepAssumption
<1> QED BY <1>2, <1>3 DEF Newest

LEMMA LastKept ==
  ASSUME NEW names, NEW s \in names, \A t \in names : ~(t.at > s.at), NEW protect, NEW waiting
  PROVE  s \in Kept(names, protect, waiting)
<1>1. CASE s \in Daily(names)
  <2>1. \A t \in Daily(names) : ~(t.at > s.at)
    BY DEF Daily
  <2> QED BY <1>1, <2>1, LastIsNewest DEF Kept
<1>2. CASE s \notin Daily(names)
  <2>1. s \in Newest(names \ Daily(names))
    BY <1>2, LastIsNewest
  <2> QED BY <2>1 DEF Kept
<1> QED BY <1>1, <1>2

-----------------------------------------------------------------------------
(* The taking of snapshots, whichever calls overlap *)

\* Where a call is: what it is to restore is there or was missed by a pruning, it
\* listed nothing but what was put in place, and it keeps the newest of that.
Aware(c) ==
  /\ calls[c].pc # "idle" => calls[c].protect \in snapshots \cup missed \cup {NoSnapshot}
  /\ calls[c].pc \in {"stat", "waiting", "prune"} => calls[c].names \subseteq placed
  /\ calls[c].pc = "prune" =>
       \E waiting : calls[c].keep = Kept(calls[c].names, calls[c].protect, waiting)

PlacedInv ==
  /\ \A c \in Calls : Aware(c)
  /\ IsFiniteSet(placed) /\ snapshots \subseteq placed
  /\ NewestDaily \ missed \subseteq snapshots /\ NewestOthers \ missed \subseteq snapshots
  /\ marker \in snapshots \cup missed \cup {NoSnapshot}

\* What is among the newest put in place is kept by whoever listed it.
LEMMA ListedKept ==
  ASSUME IsFiniteSet(placed), NEW names \in SUBSET placed, NEW protect, NEW waiting,
         NEW s \in names, s \in NewestDaily \cup NewestOthers
  PROVE  s \in Kept(names, protect, waiting)
<1>1. /\ Daily(names) \subseteq Daily(placed) /\ names \ Daily(names) \subseteq placed \ Daily(placed)
      /\ Daily(placed) \subseteq placed
  BY DEF Daily
<1>2. IsFiniteSet(Daily(placed)) /\ IsFiniteSet(placed \ Daily(placed))
  BY <1>1, FS_Subset
<1>3. CASE s \in NewestDaily
  <2>1. s \in Daily(placed) /\ s \in Daily(names)
    BY <1>3 DEF NewestDaily, Newest, Daily
  <2>2. s \in Newest(Daily(names))
    BY <1>1, <1>2, <1>3, <2>1, NewestOfFewer DEF NewestDaily
  <2> QED BY <2>2 DEF Kept
<1>4. CASE s \in NewestOthers
  <2>1. s \notin Daily(placed) /\ s \in names \ Daily(names)
    BY <1>4 DEF NewestOthers, Newest, Daily
  <2>2. s \in Newest(names \ Daily(names))
    BY <1>1, <1>2, <1>4, <2>1, NewestOfFewer DEF NewestOthers
  <2> QED BY <2>2 DEF Kept
<1> QED BY <1>3, <1>4

\* With one more put in place, the others that are newest were so before.
LEMMA NewestOfMore ==
  ASSUME IsFiniteSet(placed), NEW s, placed' = placed \cup {s}
  PROVE  /\ IsFiniteSet(placed')
         /\ NewestDaily' \subseteq NewestDaily \cup {s}
         /\ NewestOthers' \subseteq NewestOthers \cup {s}
<1>1. IsFiniteSet(placed')
  BY FS_AddElement
<1>2. /\ Daily(placed) \subseteq Daily(placed') /\ Daily(placed') \subseteq Daily(placed) \cup {s}
      /\ Daily(placed') \subseteq placed'
      /\ placed \ Daily(placed) \subseteq placed' \ Daily(placed')
      /\ placed' \ Daily(placed') \subseteq (placed \ Daily(placed)) \cup {s}
  BY DEF Daily
<1>3. IsFiniteSet(Daily(placed')) /\ IsFiniteSet(placed' \ Daily(placed'))
  BY <1>1, <1>2, FS_Subset
<1>4. ASSUME NEW x \in Newest(Daily(placed')), x # s PROVE x \in Newest(Daily(placed))
  <2>1. x \in Daily(placed)
    BY <1>2, <1>4 DEF Newest
  <2> QED BY <1>2, <1>3, <1>4, <2>1, NewestOfFewer
<1>5. ASSUME NEW x \in Newest(placed' \ Daily(placed')), x # s PROVE x \in Newest(placed \ Daily(placed))
  <2>1. x \in placed \ Daily(placed)
    BY <1>2, <1>5 DEF Newest
  <2> QED BY <1>2, <1>3, <1>5, <2>1, NewestOfFewer
<1> QED BY <1>1, <1>4, <1>5 DEF NewestDaily, NewestOthers

LEMMA PlacedInits ==
  ASSUME Init
  PROVE  PlacedInv
<1>1. \A c \in Calls : calls[c].pc = "idle"
  BY DEF Init, NoCall
<1>2. placed = {} /\ snapshots = {} /\ marker = NoSnapshot
  BY DEF Init
<1>3. NewestDaily = {} /\ NewestOthers = {}
  BY <1>2 DEF NewestDaily, NewestOthers, Newest, Daily
<1> QED BY <1>1, <1>2, <1>3, FS_EmptySet DEF PlacedInv, Aware

\* A call's step leaves the other calls as they are.
LEMMA OthersAlone ==
  ASSUME Types, NEW c \in Calls, Taking(c), NEW d \in Calls, d # c
  PROVE  calls'[d] = calls[d]
  BY DEF Types, TakingTyped, Taking, Begin, Vacuum, Rename, List, Stat, ReadWaiting, Prune

LEMMA TakingKeepsPlaced ==
  ASSUME Inv, PlacedInv, NEW c \in Calls, Taking(c)
  PROVE  PlacedInv'
<1>1. phase = "running" /\ marker = NoSnapshot /\ marker' = NoSnapshot
  BY TakingKeepsTypes DEF Inv, Stages, files
<1>t. /\ calls \in [Calls -> Call] /\ calls[c] \in Call /\ Aware(c) /\ Types
      /\ snapshots \subseteq Snapshot
  BY DEF Inv, Types, TakingTyped, PlacedInv
<1>o. \A d \in Calls : d # c => calls'[d] = calls[d] /\ Aware(d)
  BY <1>t, OthersAlone DEF PlacedInv
<1>2. CASE \E daily \in BOOLEAN, protect \in snapshots \cup {NoSnapshot} : Begin(c, daily, protect)
  <2>1. PICK daily \in BOOLEAN, protect \in snapshots \cup {NoSnapshot} : Begin(c, daily, protect)
    BY <1>2
  <2>2. UNCHANGED <<snapshots, placed, missed>>
    BY <2>1 DEF Begin
  <2>3. calls'[c].pc = "vacuum" /\ calls'[c].protect = protect
    BY <1>t, <2>1 DEF Begin, NoCall
  <2>4. \A d \in Calls : Aware(d)'
    BY <1>o, <2>2, <2>3 DEF Aware
  <2>5. UNCHANGED <<NewestDaily, NewestOthers>>
    BY <2>2 DEF NewestDaily, NewestOthers
  <2> QED BY <1>1, <2>2, <2>4, <2>5 DEF PlacedInv
<1>3. CASE Vacuum(c)
  <2>1. UNCHANGED <<snapshots, placed, missed>> /\ calls[c].pc = "vacuum"
    BY <1>3 DEF Vacuum
  <2>2. PICK s : s = [at |-> taken', daily |-> calls[c].daily, v |-> Held]
    OBVIOUS
  <2>3. calls'[c] = [calls[c] EXCEPT !.pc = "rename", !.snapshot = s]
    BY <1>t, <1>3, <2>2 DEF Vacuum
  <2>4. calls'[c].pc = "rename" /\ calls'[c].protect = calls[c].protect
    BY <1>t, <2>3 DEF Call
  <2>5. \A d \in Calls : Aware(d)'
    BY <1>o, <1>t, <2>1, <2>4 DEF Aware
  <2>6. UNCHANGED <<NewestDaily, NewestOthers>>
    BY <2>1 DEF NewestDaily, NewestOthers
  <2> QED BY <1>1, <2>1, <2>5, <2>6 DEF PlacedInv
<1>4. CASE Rename(c)
  <2>1. CASE calls[c].snapshot \in unfinished
    <3>1. PICK s : s = calls[c].snapshot
      OBVIOUS
    <3>2. /\ snapshots' = snapshots \cup {s} /\ placed' = placed \cup {s} /\ missed' = missed
          /\ calls[c].pc = "rename" /\ calls'[c] = [calls[c] EXCEPT !.pc = "list"]
      BY <1>4, <1>t, <2>1, <3>1 DEF Rename
    <3>3. calls'[c].pc = "list" /\ calls'[c].protect = calls[c].protect
      BY <1>t, <3>2 DEF Call
    <3>4. \A d \in Calls : Aware(d)'
      <4>1. /\ snapshots \cup missed \cup {NoSnapshot} \subseteq snapshots' \cup missed' \cup {NoSnapshot}
            /\ placed \subseteq placed'
        BY <3>2
      <4>2. Aware(c)'
        BY <1>t, <3>2, <3>3, <4>1 DEF Aware
      <4>3. ASSUME NEW d \in Calls, d # c PROVE Aware(d)'
        <5>1. calls'[d] = calls[d] /\ Aware(d)
          BY <1>o, <4>3
        <5> HIDE DEF NoSnapshot, Kept
        <5> QED BY <4>1, <5>1 DEF Aware
      <4> QED BY <4>2, <4>3
    <3>5. /\ IsFiniteSet(placed') /\ NewestDaily' \subseteq NewestDaily \cup {s}
          /\ NewestOthers' \subseteq NewestOthers \cup {s}
      BY <3>2, NewestOfMore DEF PlacedInv
    <3> QED BY <1>1, <3>2, <3>4, <3>5 DEF PlacedInv
  <2>2. CASE calls[c].snapshot \notin unfinished
    <3>1. UNCHANGED <<snapshots, placed, missed>>
      BY <1>4, <2>2 DEF Rename
    <3>2. calls'[c].pc = "idle"
      BY <1>t, <1>4, <2>2, NoCallTyped DEF Rename
    <3>3. \A d \in Calls : Aware(d)'
      BY <1>o, <3>1, <3>2 DEF Aware
    <3>4. UNCHANGED <<NewestDaily, NewestOthers>>
      BY <3>1 DEF NewestDaily, NewestOthers
    <3> QED BY <1>1, <3>1, <3>3, <3>4 DEF PlacedInv
  <2> QED BY <2>1, <2>2
<1>5. CASE List(c) \/ Stat(c) \/ ReadWaiting(c)
  <2>1. UNCHANGED <<snapshots, placed, missed>>
    BY <1>5 DEF List, Stat, ReadWaiting
  <2>2. Aware(c)'
    <3>1. CASE List(c)
      <4>1. calls'[c] = [calls[c] EXCEPT !.pc = "stat", !.names = snapshots] /\ calls[c].pc = "list"
        BY <1>t, <3>1 DEF List
      <4>2. /\ calls'[c].pc = "stat" /\ calls'[c].names = snapshots
            /\ calls'[c].protect = calls[c].protect
        BY <1>t, <4>1 DEF Call
      <4> QED BY <1>t, <2>1, <4>1, <4>2 DEF Aware, PlacedInv
    <3>2. CASE Stat(c)
      <4>1. CASE calls'[c].pc = "idle"
        BY <4>1 DEF Aware
      <4>2. CASE calls'[c].pc # "idle"
        <5>1. calls[c].pc = "stat" /\ calls'[c] = [calls[c] EXCEPT !.pc = "waiting"]
          BY <1>t, <3>2, <4>2, NoCallTyped DEF Stat
        <5>2. /\ calls'[c].pc = "waiting" /\ calls'[c].names = calls[c].names
              /\ calls'[c].protect = calls[c].protect
          BY <1>t, <5>1 DEF Call
        <5> QED BY <1>t, <2>1, <5>1, <5>2 DEF Aware
      <4> QED BY <4>1, <4>2
    <3>3. CASE ReadWaiting(c)
      <4>1. PICK k : k = Kept(calls[c].names, calls[c].protect, marker)
        OBVIOUS
      <4>2. calls[c].pc = "waiting" /\ calls'[c] = [calls[c] EXCEPT !.pc = "prune", !.keep = k]
        BY <1>t, <3>3, <4>1 DEF ReadWaiting
      <4>3. /\ calls'[c].pc = "prune" /\ calls'[c].keep = k /\ calls'[c].names = calls[c].names
            /\ calls'[c].protect = calls[c].protect
        BY <1>t, <4>2 DEF Call
      <4>4. calls'[c].keep = Kept(calls'[c].names, calls'[c].protect, marker)
        BY <4>1, <4>3
      <4>5. \E waiting : calls'[c].keep = Kept(calls'[c].names, calls'[c].protect, waiting)
        BY <4>4
      <4>6. /\ calls'[c].protect \in snapshots' \cup missed' \cup {NoSnapshot}
            /\ calls'[c].names \subseteq placed'
        BY <1>t, <2>1, <4>2, <4>3 DEF Aware
      <4> HIDE DEF Kept
      <4> QED BY <4>5, <4>6 DEF Aware
    <3> QED BY <1>5, <3>1, <3>2, <3>3
  <2>3. \A d \in Calls : Aware(d)'
    BY <1>o, <2>1, <2>2 DEF Aware
  <2>4. UNCHANGED <<NewestDaily, NewestOthers>>
    BY <2>1 DEF NewestDaily, NewestOthers
  <2> QED BY <1>1, <2>1, <2>3, <2>4 DEF PlacedInv
<1>6. CASE Prune(c)
  <2>1. PICK waiting : calls[c].keep = Kept(calls[c].names, calls[c].protect, waiting)
    BY <1>t, <1>6 DEF Prune, Aware
  <2>2. /\ calls[c].pc = "prune" /\ snapshots' = snapshots \cap calls[c].keep /\ placed' = placed
        /\ missed' = missed \cup {s \in snapshots \ calls[c].keep :
                                    \/ s \notin calls[c].names
                                    \/ \E d \in Calls \ {c} : calls[d].protect = s}
        /\ calls[c].names \subseteq placed
    BY <1>t, <1>6 DEF Prune, Aware
  <2>3. UNCHANGED <<NewestDaily, NewestOthers>>
    BY <2>2 DEF NewestDaily, NewestOthers
  <2>4. ASSUME NEW x \in NewestDaily \cup NewestOthers, x \notin missed' PROVE x \in snapshots'
    <3>1. x \in snapshots
      BY <2>2, <2>4 DEF PlacedInv
    <3>2. x \in calls[c].names => x \in calls[c].keep
      BY <2>1, <2>2, <2>4, ListedKept DEF PlacedInv
    <3> QED BY <2>2, <2>4, <3>1, <3>2
  <2>5. calls[c].protect \in calls[c].keep
    BY <2>1 DEF Kept
  <2>6. Aware(c)'
    <3>1. CASE calls'[c].pc = "idle"
      BY <3>1 DEF Aware
    <3>2. CASE calls'[c].pc # "idle"
      <4>1. calls'[c] = [calls[c] EXCEPT !.pc = "mark"]
        BY <1>t, <1>6, <3>2, NoCallTyped DEF Prune
      <4>2. calls'[c].pc = "mark" /\ calls'[c].protect = calls[c].protect
        BY <1>t, <4>1 DEF Call
      <4>3. calls[c].protect \in snapshots \cup missed \cup {NoSnapshot}
        BY <1>t, <2>2 DEF Aware
      <4>4. calls'[c].protect \in snapshots' \cup missed' \cup {NoSnapshot}
        BY <2>2, <2>5, <4>2, <4>3
      <4> QED BY <4>2, <4>4 DEF Aware
    <3> QED BY <3>1, <3>2
  <2>7. ASSUME NEW d \in Calls, d # c PROVE Aware(d)'
    <3>1. calls'[d] = calls[d] /\ Aware(d)
      BY <1>o, <2>7
    <3>2. CASE calls[d].pc # "idle"
      <4>1. calls[d].protect \in snapshots \cup missed \cup {NoSnapshot}
        BY <3>1, <3>2 DEF Aware
      <4>2. calls[d].protect \in snapshots' \cup missed' \cup {NoSnapshot}
        BY <2>2, <2>7, <4>1
      <4> QED BY <2>2, <3>1, <4>2 DEF Aware
    <3>3. CASE calls[d].pc = "idle"
      BY <3>1, <3>3 DEF Aware
    <3> QED BY <3>2, <3>3
  <2>8. \A d \in Calls : Aware(d)'
    BY <2>6, <2>7
  <2>9. IsFiniteSet(placed') /\ snapshots' \subseteq placed'
    BY <2>2 DEF PlacedInv
  <2> QED BY <1>1, <2>3, <2>4, <2>8, <2>9 DEF PlacedInv
<1> QED BY <1>2, <1>3, <1>4, <1>5, <1>6 DEF Taking

LEMMA MarkKeepsPlaced ==
  ASSUME Inv, PlacedInv, NEW c \in Calls, Mark(c)
  PROVE  PlacedInv'
<1>1. /\ calls[c].pc = "mark" /\ Aware(c) /\ marker' = calls[c].protect
      /\ UNCHANGED <<snapshots, placed, missed>>
      /\ calls' = [d \in Calls |-> NoCall]
  BY DEF Mark, PlacedInv
<1>2. \A d \in Calls : Aware(d)'
  BY <1>1, NoCallTyped DEF Aware
<1>3. marker' \in snapshots' \cup missed' \cup {NoSnapshot}
  BY <1>1 DEF Aware
<1>4. UNCHANGED <<NewestDaily, NewestOthers>>
  BY <1>1 DEF NewestDaily, NewestOthers
<1> QED BY <1>1, <1>2, <1>3, <1>4 DEF PlacedInv

LEMMA StepKeepsPlaced ==
  ASSUME Inv, PlacedInv, Step
  PROVE  PlacedInv'
<1>1. UNCHANGED <<snapshots, unfinished, taken, placed, missed>>
  BY StepKeepsTypes DEF Inv
<1>2. \A c \in Calls : calls'[c] = calls[c] \/ calls'[c].pc = "idle"
  BY NoCallTyped
  DEF Step, Write, Checkpoint, Quit, Launch, Open, Crash, Copy, MoveMain, MoveWal, Swap, Clear,
      RollWal, RollMain, Unmark, Restoring, taking
<1>3. \A c \in Calls : Aware(c)'
  BY <1>1, <1>2 DEF PlacedInv, Aware
<1>4. marker' = marker \/ marker' = NoSnapshot
  BY DEF Step, Write, Checkpoint, Quit, Launch, Open, Crash, Copy, MoveMain, MoveWal, Swap, Clear,
         RollWal, RollMain, Unmark, Restoring, files
<1>5. UNCHANGED <<NewestDaily, NewestOthers>>
  BY <1>1 DEF NewestDaily, NewestOthers
<1> QED BY <1>1, <1>3, <1>4, <1>5 DEF PlacedInv

\* The inductive invariant of the taking of snapshots.
THEOREM SpecPlacedInv == Spec => []PlacedInv
<1>1. ASSUME PlacedInv, Inv, [Next]_vars PROVE PlacedInv'
  <2>1. CASE vars' = vars
    <3>1. UNCHANGED <<snapshots, calls, placed, missed, marker>>
      BY <2>1 DEF vars, files, taking
    <3>2. UNCHANGED <<NewestDaily, NewestOthers>>
      BY <3>1 DEF NewestDaily, NewestOthers
    <3> QED BY <1>1, <3>1, <3>2 DEF PlacedInv, Aware
  <2>2. CASE Next
    BY <1>1, <2>2, NextSteps, TakingKeepsPlaced, MarkKeepsPlaced, StepKeepsPlaced
  <2> QED BY <1>1, <2>1, <2>2
<1> QED BY <1>1, PlacedInits, SpecInv, PTL DEF Spec

\* Whichever calls overlap, the snapshot a restore waits for is there, and the one
\* that undoes it, unless as many others were taken meanwhile or a pruning went
\* on without knowing of it.
THEOREM RestorePoints == Spec => []RestorePointsKept
<1>1. PlacedInv => RestorePointsKept
  BY DEF PlacedInv, RestorePointsKept
<1> QED BY <1>1, SpecPlacedInv, PTL

\* However many snapshots are taken by hand, and whichever calls overlap, the
\* newest daily ones are there that no pruning went on without knowing of.
THEOREM DailyHistory == Spec => []DailyHistoryKept
<1>1. PlacedInv => DailyHistoryKept
  BY DEF PlacedInv, DailyHistoryKept
<1> QED BY <1>1, SpecPlacedInv, PTL

-----------------------------------------------------------------------------
(* The taking of snapshots, one at a time *)

OneAtATime == \A c, d \in Calls : c = d

\* Where a call is: the snapshot it took is the last one, and the one it is to
\* restore is still there.
TakenSoFar(c) ==
  /\ calls[c].pc # "idle" => calls[c].protect \in snapshots \cup {NoSnapshot}
  /\ calls[c].pc \in {"rename", "list", "stat", "waiting", "prune", "mark"} =>
       calls[c].snapshot.at = taken
  /\ calls[c].pc \in {"list", "stat", "waiting", "prune", "mark"} => calls[c].snapshot \in snapshots
  /\ calls[c].pc \in {"stat", "waiting", "prune"} => calls[c].names = snapshots
  /\ calls[c].pc = "prune" => calls[c].keep = Kept(snapshots, calls[c].protect, NoSnapshot)

Numbered == \A s \in snapshots \cup unfinished : ~(s.at > taken)

Needed ==
  /\ marker # NoSnapshot => marker \in snapshots
  /\ undo # NoSnapshot => undo \in snapshots
  /\ phase = "running" => undo = NoSnapshot

TakenInv == (\A c \in Calls : TakenSoFar(c)) /\ Numbered /\ Needed

LEMMA TakingInits ==
  ASSUME Init
  PROVE  TakenInv
<1>1. \A c \in Calls : calls[c].pc = "idle"
  BY DEF Init, NoCall
<1>2. Numbered /\ Needed
  BY DEF Init, Numbered, Needed
<1> QED BY <1>1, <1>2 DEF TakenInv, TakenSoFar

LEMMA TakingKeepsTaken ==
  ASSUME OneAtATime, Inv, TakenInv, NEW c \in Calls, Taking(c)
  PROVE  TakenInv'
<1>1. /\ phase = "running" /\ phase' = phase /\ marker = NoSnapshot /\ undo = NoSnapshot
      /\ marker' = marker /\ undo' = undo
  BY TakingKeepsTypes DEF Inv, Stages, TakenInv, Needed, files, history
<1>2. Needed'
  BY <1>1 DEF Needed
<1>t. /\ calls \in [Calls -> Call] /\ taken \in Nat /\ TakenSoFar(c)
      /\ snapshots \subseteq Snapshot /\ unfinished \subseteq Snapshot
  BY BoundsAssumption DEF Inv, Types, TakingTyped, StepsTyped, TakenInv
<1>a. \A s \in Snapshot : s.at \in Nat
  BY BoundsAssumption DEF Snapshot
<1>3. SUFFICES TakenSoFar(c)' /\ Numbered'
  <2>1. \A d \in Calls : d = c
    BY DEF OneAtATime
  <2> QED BY <1>2, <2>1 DEF TakenInv
<1>4. CASE \E daily \in BOOLEAN, protect \in snapshots \cup {NoSnapshot} : Begin(c, daily, protect)
  <2>1. PICK daily \in BOOLEAN, protect \in snapshots \cup {NoSnapshot} : Begin(c, daily, protect)
    BY <1>4
  <2>2. UNCHANGED <<snapshots, unfinished, taken, placed, missed>>
    BY <2>1 DEF Begin
  <2>3. calls'[c].pc = "vacuum" /\ calls'[c].protect = protect
    BY <1>t, <2>1 DEF Begin, NoCall
  <2> QED BY <2>2, <2>3 DEF TakenInv, TakenSoFar, Numbered
<1>5. CASE Vacuum(c)
  <2>1. PICK s : s = [at |-> taken + 1, daily |-> calls[c].daily, v |-> Held]
    OBVIOUS
  <2>2. /\ taken' = taken + 1 /\ unfinished' = unfinished \cup {s}
        /\ snapshots' = snapshots
        /\ calls[c].pc = "vacuum"
        /\ calls' = [calls EXCEPT ![c].pc = "rename", ![c].snapshot = s]
    BY <1>5, <2>1 DEF Vacuum
  <2>3. calls'[c] = [calls[c] EXCEPT !.pc = "rename", !.snapshot = s]
    BY <1>t, <2>2
  <2>4. /\ calls'[c].pc = "rename" /\ calls'[c].snapshot = s
        /\ calls'[c].protect = calls[c].protect
    <3>1. calls[c] \in Call
      BY <1>t
    <3> QED BY <2>3, <3>1 DEF Call
  <2>5. s.at = taken'
    BY <2>1, <2>2
  <2>6. Numbered'
    <3>1. \A x \in snapshots \cup unfinished : x.at \in Nat /\ ~(x.at > taken)
      BY <1>t, <1>a DEF TakenInv, Numbered
    <3>2. ~(s.at > taken')
      BY <1>t, <2>2, <2>5
    <3>3. \A x \in snapshots \cup unfinished : ~(x.at > taken')
      BY <1>t, <2>2, <3>1
    <3> QED BY <2>2, <3>2, <3>3 DEF Numbered
  <2>7. TakenSoFar(c)'
    BY <1>t, <2>2, <2>4, <2>5 DEF TakenSoFar
  <2> QED BY <2>2, <2>6, <2>7 DEF TakenInv
<1>6. CASE Rename(c)
  <2>1. CASE calls[c].snapshot \in unfinished
    <3>1. PICK s : s = calls[c].snapshot
      OBVIOUS
    <3>2. /\ unfinished' = unfinished \ {s} /\ snapshots' = snapshots \cup {s} /\ taken' = taken
          /\ calls[c].pc = "rename" /\ calls' = [calls EXCEPT ![c].pc = "list"]
      BY <1>6, <2>1, <3>1 DEF Rename
    <3>3. /\ calls'[c].pc = "list" /\ calls'[c].snapshot = s
          /\ calls'[c].protect = calls[c].protect
      <4>1. calls[c] \in Call
        BY <1>t
      <4>2. calls'[c] = [calls[c] EXCEPT !.pc = "list"]
        BY <1>t, <3>2
      <4> QED BY <3>1, <4>1, <4>2 DEF Call
    <3>4. TakenSoFar(c)'
      BY <1>t, <3>1, <3>2, <3>3 DEF TakenSoFar
    <3>5. Numbered'
      BY <2>1, <3>1, <3>2 DEF TakenInv, Numbered
    <3> QED BY <3>4, <3>5
  <2>2. CASE calls[c].snapshot \notin unfinished
    <3>1. UNCHANGED <<snapshots, unfinished, taken, placed, missed>>
      BY <1>6, <2>2 DEF Rename
    <3>2. calls'[c].pc = "idle"
      BY <1>t, <1>6, <2>2, NoCallTyped DEF Rename
    <3> QED BY <3>1, <3>2 DEF TakenInv, TakenSoFar, Numbered
  <2> QED BY <2>1, <2>2
<1>7. CASE List(c) \/ Stat(c) \/ ReadWaiting(c)
  <2>1. UNCHANGED <<snapshots, unfinished, taken, placed, missed>>
    BY <1>7 DEF List, Stat, ReadWaiting
  <2>2. Numbered'
    BY <2>1 DEF TakenInv, Numbered
  <2>3. calls[c] \in Call
    BY <1>t
  <2>4. CASE List(c)
    <3>1. calls[c].pc = "list" /\ calls'[c] = [calls[c] EXCEPT !.pc = "stat", !.names = snapshots]
      BY <1>t, <2>4 DEF List
    <3>2. /\ calls'[c].pc = "stat" /\ calls'[c].names = snapshots
          /\ calls'[c].snapshot = calls[c].snapshot /\ calls'[c].protect = calls[c].protect
      BY <2>3, <3>1 DEF Call
    <3> QED BY <1>t, <2>1, <2>2, <3>1, <3>2 DEF TakenSoFar
  <2>5. CASE Stat(c)
    <3>1. CASE calls'[c].pc = "idle"
      BY <2>2, <3>1 DEF TakenSoFar
    <3>2. CASE calls'[c].pc # "idle"
      <4>1. calls[c].pc = "stat" /\ calls'[c] = [calls[c] EXCEPT !.pc = "waiting"]
        BY <1>t, <2>5, <3>2, NoCallTyped DEF Stat
      <4>2. /\ calls'[c].pc = "waiting" /\ calls'[c].names = calls[c].names
            /\ calls'[c].snapshot = calls[c].snapshot /\ calls'[c].protect = calls[c].protect
        BY <2>3, <4>1 DEF Call
      <4> QED BY <1>t, <2>1, <2>2, <4>1, <4>2 DEF TakenSoFar
    <3> QED BY <3>1, <3>2
  <2>6. CASE ReadWaiting(c)
    <3>1. PICK k : k = Kept(calls[c].names, calls[c].protect, marker)
      OBVIOUS
    <3>2. calls[c].pc = "waiting" /\ calls'[c] = [calls[c] EXCEPT !.pc = "prune", !.keep = k]
      BY <1>t, <2>6, <3>1 DEF ReadWaiting
    <3>3. /\ calls'[c].pc = "prune" /\ calls'[c].keep = k /\ calls'[c].names = calls[c].names
          /\ calls'[c].snapshot = calls[c].snapshot /\ calls'[c].protect = calls[c].protect
      BY <2>3, <3>2 DEF Call
    <3>4. k = Kept(snapshots, calls[c].protect, NoSnapshot)
      BY <1>1, <1>t, <3>1, <3>2 DEF TakenSoFar
    <3> QED BY <1>t, <2>1, <2>2, <3>2, <3>3, <3>4 DEF TakenSoFar
  <2> QED BY <1>7, <2>4, <2>5, <2>6
<1>8. CASE Prune(c)
  <2>1. PICK k : k = Kept(snapshots, calls[c].protect, NoSnapshot)
    OBVIOUS
  <2>2. /\ calls[c].pc = "prune" /\ snapshots' = snapshots \cap k /\ unfinished' = {}
        /\ taken' = taken
    BY <1>t, <1>8, <2>1 DEF Prune, TakenSoFar
  <2>5. Numbered'
    BY <2>2 DEF TakenInv, Numbered
  <2>6. calls[c].protect \in k
    BY <2>1 DEF Kept
  <2>7. calls[c].snapshot \in k
    <3>1. calls[c].snapshot \in snapshots /\ calls[c].snapshot.at = taken
      BY <1>t, <2>2 DEF TakenSoFar
    <3>2. \A t \in snapshots : ~(t.at > calls[c].snapshot.at)
      BY <3>1 DEF TakenInv, Numbered
    <3> QED BY <2>1, <3>1, <3>2, LastKept
  <2>8. TakenSoFar(c)'
    <3>1. CASE calls'[c].pc = "idle"
      BY <3>1 DEF TakenSoFar
    <3>2. CASE calls'[c].pc # "idle"
      <4>1. calls'[c] = [calls[c] EXCEPT !.pc = "mark"] /\ calls[c] \in Call
        BY <1>t, <1>8, <3>2, NoCallTyped DEF Prune
      <4>2. /\ calls'[c].pc = "mark" /\ calls'[c].snapshot = calls[c].snapshot
            /\ calls'[c].protect = calls[c].protect
        BY <4>1 DEF Call
      <4> QED BY <1>t, <2>2, <2>6, <2>7, <4>2 DEF TakenSoFar
    <3> QED BY <3>1, <3>2
  <2> QED BY <2>5, <2>8
<1> QED BY <1>4, <1>5, <1>6, <1>7, <1>8 DEF Taking

\* The restore that is asked for finds the snapshot, and the one that undoes it.
LEMMA MarkKeepsTaken ==
  ASSUME Inv, TakenInv, NEW c \in Calls, Mark(c)
  PROVE  TakenInv'
<1>1. /\ calls[c].pc = "mark" /\ TakenSoFar(c) /\ phase' = "off"
      /\ marker' = calls[c].protect /\ undo' = calls[c].snapshot
      /\ UNCHANGED <<snapshots, unfinished, taken, placed, missed>>
      /\ calls' = [d \in Calls |-> NoCall]
  BY DEF Mark, TakenInv
<1>2. Needed'
  BY <1>1 DEF Needed, TakenSoFar
<1>3. \A d \in Calls : calls'[d].pc = "idle"
  BY <1>1, NoCallTyped
<1> QED BY <1>1, <1>2, <1>3 DEF TakenInv, TakenSoFar, Numbered

LEMMA StepKeepsTaken ==
  ASSUME Inv, TakenInv, Step
  PROVE  TakenInv'
<1>1. UNCHANGED <<snapshots, unfinished, taken, placed, missed>>
  BY StepKeepsTypes DEF Inv
<1>2. \A c \in Calls : calls'[c] = calls[c] \/ calls'[c].pc = "idle"
  BY NoCallTyped
  DEF Step, Write, Checkpoint, Quit, Launch, Open, Crash, Copy, MoveMain, MoveWal, Swap, Clear,
      RollWal, RollMain, Unmark, Restoring, taking
<1>3. \A c \in Calls : TakenSoFar(c)'
  BY <1>1, <1>2 DEF TakenInv, TakenSoFar
<1>4. /\ marker' = marker \/ marker' = NoSnapshot
      /\ (undo' = undo /\ (phase' = "running" => phase = "running")) \/ undo' = NoSnapshot
  BY DEF Step, Write, Checkpoint, Quit, Launch, Open, Crash, Copy, MoveMain, MoveWal, Swap, Clear,
         RollWal, RollMain, Unmark, Restoring, files, history
<1>5. Needed'
  BY <1>1, <1>4 DEF TakenInv, Needed
<1> QED BY <1>1, <1>3, <1>5 DEF TakenInv, Numbered

LEMMA NextTakenInv ==
  ASSUME OneAtATime, Inv, TakenInv, [Next]_vars
  PROVE  TakenInv'
<1>1. CASE vars' = vars
  <2>1. /\ UNCHANGED <<snapshots, unfinished, calls, taken, marker, undo, phase>>
    BY <1>1 DEF vars, files, taking, history
  <2> QED BY <2>1 DEF TakenInv, TakenSoFar, Numbered, Needed
<1>2. CASE Next
  BY <1>2, NextSteps, TakingKeepsTaken, MarkKeepsTaken, StepKeepsTaken
<1> QED BY <1>1, <1>2

\* The inductive invariant of the taking of snapshots, one at a time.
THEOREM SpecTakenInv ==
  ASSUME OneAtATime
  PROVE  Spec => []TakenInv
<1>1. TakenInv /\ Inv /\ [Next]_vars => TakenInv'
  BY NextTakenInv
<1> QED BY <1>1, TakingInits, SpecInv, PTL DEF Spec

\* While one snapshot is taken at a time no pruning misses any: the restore that
\* was asked for can be made, and undone.
THEOREM UndoneOneAtATime ==
  ASSUME OneAtATime
  PROVE  Spec => []RestoreCanBeUndone
<1>1. TakenInv => RestoreCanBeUndone
  BY DEF TakenInv, Needed, RestoreCanBeUndone
<1> QED BY <1>1, SpecTakenInv, PTL
=============================================================================
