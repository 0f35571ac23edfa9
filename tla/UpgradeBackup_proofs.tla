------------------------- MODULE UpgradeBackup_proofs -------------------------
(***************************************************************************)
(* Proofs about the backup a launch makes before another version opens the *)
(* data (UpgradeBackup), where versions are only ever newer: what a backup *)
(* is marked with is true of its data, and without failures there is one.  *)
(*                                                                         *)
(* Neither is inductive.  Inv says what a copy marked as taken before the  *)
(* version that runs holds while that version has not opened the data      *)
(* (FromBefore), that a version which has does not copy it again unless    *)
(* two things failed or a launch could not read what it goes by            *)
(* (NotAgain), and that the backup is there from when the version is       *)
(* recorded (BackedUp).                                                    *)
(***************************************************************************)
EXTENDS UpgradeBackup, TLAPS

Launching == {"copy", "copying", "move", "move aside", "move in", "clear", "record", "prune",
              "record only", "open"}

Copy == [data : Nat, before : Versions \cup {0}, at : Nat]

Types ==
  /\ clock \in Nat /\ data \in Nat /\ data <= clock /\ failures \in Nat
  /\ lastVersion \in Versions \cup {0} /\ version \in Versions \cup {0} /\ openedBy \in Versions \cup {0}
  /\ unread \in BOOLEAN
  /\ from \in Nat /\ from <= clock /\ snapshots \in Nat /\ snapshots <= clock
  /\ backups \in [Names -> Copy] /\ unfinished \in [Names -> Copy] /\ replaced \in [Names -> Copy]
  /\ name \in Names \cup {0}
  /\ pc \in {"off", "running"} \cup Launching
  /\ pc # "off" => version # 0 /\ name # 0

\* No copy is of later data than the last change.
Dated ==
  \A n \in Names :
    /\ backups[n].data <= clock /\ backups[n].at <= clock
    /\ unfinished[n].data <= clock /\ unfinished[n].at <= clock
    /\ replaced[n].data <= clock /\ replaced[n].at <= clock
    /\ backups[n] # NoCopy => backups[n].before # 0

\* Versions are never older.
Ordered ==
  /\ lastVersion <= version /\ openedBy <= version
  /\ from # 0 => openedBy # 0
  /\ \A n \in Names : backups[n].before <= version /\ unfinished[n].before <= version

NameOf == IF lastVersion # 0 THEN lastVersion ELSE -version

Stages ==
  /\ ~unread /\ pc \in {"copy", "copying", "move", "move aside", "move in", "clear", "record"} =>
       name = NameOf /\ lastVersion # version
  /\ failures = 0 => ~unread
  /\ pc = "copying" => unfinished[name].data = data
  /\ pc \in {"move", "move aside", "move in"} => unfinished[name].before = version
  /\ pc \in {"clear", "record", "prune"} => backups[name].before = version
  /\ pc = "prune" => lastVersion = version
  /\ pc = "record only" => data = 0 \/ failures >= 1
  /\ pc \in {"open", "running"} /\ failures = 0 => lastVersion = version
  /\ pc = "running" => openedBy = version

FromBefore ==
  /\ openedBy # version => \A n \in Names :
       /\ backups[n].before = version /\ version # 0 => backups[n].data = data
       /\ unfinished[n].before = version /\ version # 0 => unfinished[n].data = data
  /\ from # 0 /\ failures <= 1 /\ ~unread => \A n \in Names :
       /\ backups[n].before = openedBy => backups[n].data = from
       /\ unfinished[n].before = openedBy => unfinished[n].data = from

Settled ==
  lastVersion = version \/ backups[NameOf].before = version \/ unfinished[NameOf].before = version

NotAgain ==
  failures <= 1 /\ ~unread =>
    /\ openedBy = version /\ from # 0 => Settled /\ pc \notin {"copy", "copying"}
    /\ pc = "open" /\ openedBy # version /\ data # 0 => Settled

BackedUp ==
  failures = 0 =>
    /\ openedBy = version => lastVersion = version /\ pc # "prune"
    /\ openedBy = version /\ from # 0 =>
         \E n \in Names : backups[n].before = version /\ backups[n].data = from
    /\ openedBy # version /\ data # 0 /\ lastVersion = version =>
         \E n \in Names : backups[n].before = version

Inv == Types /\ Dated /\ Ordered /\ Stages /\ FromBefore /\ NotAgain /\ BackedUp

-----------------------------------------------------------------------------
LEMMA VersionsAre == Versions \subseteq Nat /\ Versions \subseteq Int /\ 0 \notin Versions
  BY VersionsAssumption

LEMMA NoCopyIs ==
  NoCopy \in Copy /\ NoCopy.data = 0 /\ NoCopy.before = 0 /\ NoCopy.at = 0
  BY DEF NoCopy, Copy

LEMMA Numbers ==
  ASSUME Types
  PROVE  /\ clock \in Nat /\ data \in Nat /\ from \in Nat /\ snapshots \in Nat /\ failures \in Nat
         /\ data <= clock /\ from <= clock /\ snapshots <= clock
         /\ version \in Nat /\ lastVersion \in Nat /\ openedBy \in Nat
         /\ \A n \in Names :
              /\ backups[n].data \in Nat /\ backups[n].at \in Nat /\ backups[n].before \in Nat
              /\ unfinished[n].data \in Nat /\ unfinished[n].at \in Nat /\ unfinished[n].before \in Nat
              /\ replaced[n].data \in Nat /\ replaced[n].at \in Nat
<1>1. ASSUME NEW copy \in Copy PROVE copy.data \in Nat /\ copy.at \in Nat /\ copy.before \in Nat
  <2>1. copy.data \in Nat /\ copy.at \in Nat /\ copy.before \in Versions \cup {0}
    BY DEF Copy
  <2>2. copy.before = 0 => copy.before \in Nat
    OBVIOUS
  <2>3. copy.before \in Versions => copy.before \in Nat
    BY VersionsAre
  <2> QED BY <2>1, <2>2, <2>3
<1>2. \A n \in Names : backups[n] \in Copy /\ unfinished[n] \in Copy /\ replaced[n] \in Copy
  BY DEF Types
<1>3. version \in Nat /\ lastVersion \in Nat /\ openedBy \in Nat
  BY VersionsAre DEF Types
<1>4. /\ clock \in Nat /\ data \in Nat /\ from \in Nat /\ snapshots \in Nat /\ failures \in Nat
      /\ data <= clock /\ from <= clock /\ snapshots <= clock
  BY DEF Types
<1> QED BY <1>1, <1>2, <1>3, <1>4

\* Of two moments and one between, the later one is later.
LEMMA Later ==
  ASSUME NEW a \in Nat, NEW b \in Nat, NEW c, c = b \/ c = b + 1
  PROVE  c \in Nat /\ c >= b /\ (a <= b => a <= c)
  OBVIOUS

LEMMA OneMore ==
  ASSUME NEW a \in Nat, NEW b, b = a \/ b = a + 1
  PROVE  /\ b \in Nat /\ (b <= 1 => a <= 1) /\ (b = 0 => a = 0)
         /\ b = a + 1 => b >= 1 /\ b # 0 /\ (b <= 1 => a = 0 /\ ~(a >= 1))
  OBVIOUS

\* A backup's name is that of the version recorded, or of this one.
LEMMA NameType ==
  ASSUME Types, version # 0
  PROVE  NameOf \in Names
  BY DEF Types, Names, NameOf

LEMMA InitInv == Init => Inv
<1> SUFFICES ASSUME Init PROVE Inv
  OBVIOUS
<1>1. /\ data = 0 /\ lastVersion = 0 /\ snapshots = 0 /\ version = 0 /\ name = 0 /\ pc = "off"
      /\ clock = 0 /\ failures = 0 /\ openedBy = 0 /\ from = 0 /\ unread = FALSE
      /\ backups = [n \in Names |-> NoCopy] /\ unfinished = [n \in Names |-> NoCopy]
      /\ replaced = [n \in Names |-> NoCopy]
  BY DEF Init
<1>2. Types
  <2>1. unread \in BOOLEAN
    BY <1>1
  <2> QED BY <1>1, <2>1, NoCopyIs DEF Types, Launching
<1>3. Dated /\ Ordered
  BY <1>1, NoCopyIs DEF Dated, Ordered
<1>4. Stages
  BY <1>1 DEF Stages
<1>5. FromBefore /\ NotAgain /\ BackedUp
  BY <1>1 DEF FromBefore, NotAgain, BackedUp
<1> QED BY <1>2, <1>3, <1>4, <1>5 DEF Inv

\* A launch, of the same version again or of a newer one.
LEMMA LaunchInv ==
  ASSUME MayDowngrade = FALSE, Inv, NEW v \in Versions, NEW misread \in SUBSET Read, Launch(v, misread)
  PROVE  Inv'
<1>1. /\ pc = "off" /\ v >= version /\ version' = v
      /\ data' = data /\ lastVersion' = lastVersion /\ clock' = clock
      /\ backups' = backups /\ unfinished' = unfinished /\ replaced' = replaced
      /\ snapshots' = snapshots /\ openedBy' = openedBy /\ from' = from
  BY DEF Launch, folders
<1>r. \/ misread = {} /\ failures' = failures /\ unread' = unread
      \/ misread # {} /\ failures' = failures + 1 /\ unread' = TRUE
  BY DEF Launch
<1>f. /\ failures' \in Nat /\ (failures' <= 1 => failures <= 1) /\ (failures' = 0 => failures = 0)
      /\ failures' = 0 => misread = {} /\ unread' = unread
      /\ unread' \in BOOLEAN
  <2>1. failures \in Nat /\ unread \in BOOLEAN
    BY DEF Inv, Types
  <2> QED BY <1>r, <2>1, OneMore
<1>2. /\ misread = {} => name' = NameOf'
      /\ name' \in Names
  BY <1>1 DEF Launch, NameOf, Inv, Types, Names
<1>3. \/ pc' = "open" /\ (misread = {} => lastVersion = v)
      \/ pc' = "record" /\ backups[name'].before = v /\ (misread = {} => lastVersion # v)
      \/ pc' = "move" /\ unfinished[name'].before = v /\ (misread = {} => lastVersion # v)
      \/ pc' = "record only" /\ data = 0 /\ (misread = {} => lastVersion # v)
      \/ /\ pc' = "copy" /\ data # 0
         /\ misread = {} =>
              lastVersion # v /\ backups[name'].before # v /\ unfinished[name'].before # v
  BY DEF Launch, Start
<1>v. v \in Nat /\ v # 0 /\ version \in Nat
  BY VersionsAre DEF Inv, Types
<1>4. Types'
  <2>1. pc' \in Launching
    BY <1>3 DEF Launching
  <2>2. name' # 0
    BY <1>2, VersionsAre DEF Names
  <2> QED BY <1>1, <1>2, <1>f, <1>v, <2>1, <2>2 DEF Inv, Types
<1>5. Dated'
  BY <1>1 DEF Inv, Dated
<1>6. Ordered' /\ (version # v => /\ version < v /\ openedBy # v /\ lastVersion # v
                                  /\ \A n \in Names : backups[n].before # v /\ unfinished[n].before # v)
  <2>1. /\ lastVersion \in Nat /\ openedBy \in Nat
        /\ \A n \in Names : backups[n].before \in Nat /\ unfinished[n].before \in Nat
    BY Numbers DEF Inv
  <2> QED BY <1>1, <1>v, <2>1 DEF Inv, Ordered
<1>7. Stages'
  <2>1. failures' = 0 => ~unread'
    BY <1>f DEF Inv, Stages
  <2>2. ~unread' => misread = {}
    BY <1>r
  <2> QED BY <1>1, <1>2, <1>3, <1>f, <2>1, <2>2 DEF Stages
<1>8. FromBefore'
  <2>1. CASE version = v
    BY <1>1, <1>f, <1>r, <2>1 DEF Inv, FromBefore
  <2>2. CASE version # v
    BY <1>1, <1>6, <1>f, <1>r, <2>2 DEF Inv, FromBefore
  <2> QED BY <2>1, <2>2
<1>9. NotAgain'
  <2> SUFFICES ASSUME misread = {}, failures' = failures, unread' = unread, ~unread PROVE NotAgain'
    BY <1>r DEF NotAgain
  <2>1. CASE version = v
    <3>1. failures <= 1 /\ openedBy = version /\ from # 0 => Settled' /\ pc' # "copy" /\ pc' # "copying"
      <4>1. failures <= 1 /\ openedBy = version /\ from # 0 =>
              lastVersion = v \/ backups[NameOf].before = v \/ unfinished[NameOf].before = v
        BY <2>1 DEF Inv, NotAgain, Settled
      <4>2. NameOf' = NameOf
        BY <1>1, <2>1 DEF NameOf
      <4> QED BY <1>1, <1>2, <1>3, <4>1, <4>2 DEF Settled
    <3>2. pc' = "open" => Settled'
      BY <1>1, <1>3 DEF Settled
    <3> QED BY <1>1, <2>1, <3>1, <3>2 DEF NotAgain
  <2>2. CASE version # v
    <3>1. pc' = "open" => Settled'
      BY <1>1, <1>3 DEF Settled
    <3> QED BY <1>1, <1>6, <2>2, <3>1 DEF NotAgain
  <2> QED BY <2>1, <2>2
<1>10. BackedUp'
  <2>1. CASE version = v
    BY <1>1, <1>3, <1>f, <2>1 DEF Inv, BackedUp
  <2>2. CASE version # v
    BY <1>1, <1>6, <1>f, <2>2 DEF Inv, BackedUp
  <2> QED BY <2>1, <2>2
<1> QED BY <1>4, <1>5, <1>6, <1>7, <1>8, <1>9, <1>10 DEF Inv

\* What leaves the folders, the data and what is recorded alone: a failure, a crash,
\* the end of a launch, a snapshot.
LEMMA AsideInv ==
  ASSUME Inv,
         \/ \E step \in {"move", "move aside", "move in", "clear", "record", "prune", "record only"} : Fails(step)
         \/ Crash \/ TakeSnapshot \/ Quit
  PROVE  Inv'
<1>1. /\ data' = data /\ lastVersion' = lastVersion /\ version' = version /\ name' = name
      /\ backups' = backups /\ unfinished' = unfinished /\ replaced' = replaced
      /\ openedBy' = openedBy /\ from' = from /\ unread' = unread
  BY DEF Fails, Step, Crash, TakeSnapshot, Quit, folders, opening, counts
<1>2. \/ /\ pc' = "off" /\ failures' = failures
      \/ /\ pc = "running" /\ pc' = pc /\ failures' = failures
      \/ /\ pc \in {"move", "move aside", "move in", "clear", "record", "prune", "record only"}
         /\ pc' = "open" /\ failures' = failures + 1
  BY DEF Fails, Step, Crash, TakeSnapshot, Quit, counts
<1>3. /\ clock' = clock /\ snapshots' = snapshots
      \/ /\ clock' = clock + 1 /\ snapshots' = clock'
  BY DEF Fails, Step, Crash, TakeSnapshot, Quit, folders
<1>t. Types
  BY DEF Inv
<1>c. (clock' = clock \/ clock' = clock + 1) /\ (failures' = failures \/ failures' = failures + 1)
  BY <1>2, <1>3
<1>4. clock' \in Nat /\ snapshots' \in Nat /\ snapshots' <= clock' /\ failures' \in Nat
  <2>1. clock' \in Nat /\ failures' \in Nat
    BY <1>c, <1>t, Numbers, Later, OneMore
  <2>2. (snapshots' = snapshots /\ clock' = clock) \/ snapshots' = clock'
    BY <1>3
  <2>3. snapshots \in Nat /\ snapshots <= clock
    BY <1>t, Numbers
  <2> QED BY ONLY <2>1, <2>2, <2>3
<1>5. Types'
  <2>1. data <= clock' /\ from <= clock'
    BY <1>c, <1>t, Numbers, Later
  <2>2. pc' \in {"off", "running"} \cup Launching
    BY <1>2 DEF Launching
  <2>3. pc' # "off" => version # 0 /\ name # 0
    BY <1>2 DEF Inv, Types
  <2> QED BY <1>1, <1>4, <2>1, <2>2, <2>3 DEF Inv, Types
<1>6. Dated'
  <2>1. \A k \in Nat : k <= clock => k <= clock'
    BY <1>c, <1>t, Numbers, Later
  <2> QED BY <1>1, <1>t, <2>1, Numbers DEF Inv, Dated
<1>7. Ordered'
  BY <1>1 DEF Inv, Ordered
<1>f. /\ (failures' <= 1 => failures <= 1) /\ (failures' = 0 => failures = 0)
      /\ failures' = failures + 1 => failures' >= 1 /\ failures' # 0 /\ (failures' <= 1 => ~(failures >= 1))
  BY <1>c, <1>t, Numbers, OneMore
<1>8. Stages'
  <2>0. failures' = 0 => ~unread
    BY <1>f DEF Inv, Stages
  <2>1. pc' # "record only"
    BY <1>2
  <2>2. NameOf' = NameOf
    BY <1>1 DEF NameOf
  <2>3. pc' \in {"open", "running"} /\ failures' = 0 => lastVersion = version
    BY <1>2, <1>f DEF Inv, Stages
  <2>4. pc' = "running" => openedBy = version
    BY <1>2 DEF Inv, Stages
  <2> QED BY <1>1, <1>2, <2>0, <2>1, <2>2, <2>3, <2>4 DEF Stages
<1>9. FromBefore'
  <2>1. failures' <= 1 => failures <= 1
    BY <1>f
  <2> QED BY <1>1, <2>1 DEF Inv, FromBefore
<1>10. NotAgain'
  <2>1. failures' <= 1 => failures <= 1
    BY <1>f
  <2>2. NameOf' = NameOf
    BY <1>1 DEF NameOf
  <2>3. Settled' <=> Settled
    BY <1>1, <2>2 DEF Settled
  <2>4. pc' = "open" /\ failures' <= 1 /\ ~unread /\ data # 0 => Settled
    <3>1. CASE pc \in {"move", "move aside", "move in", "clear", "record"}
      BY <3>1 DEF Inv, Stages, Settled
    <3>2. CASE pc = "prune"
      BY <3>2 DEF Inv, Stages, Settled
    <3>3. CASE pc = "record only" /\ pc' = "open"
      <4>1. data = 0 \/ failures >= 1
        BY <3>3 DEF Inv, Stages
      <4>2. failures' = failures + 1
        BY <1>2, <3>3
      <4> QED BY ONLY <1>f, <4>1, <4>2
    <3> QED BY <1>2, <3>1, <3>2, <3>3
  <2> QED BY <1>1, <1>2, <2>1, <2>3, <2>4 DEF Inv, NotAgain
<1>11. BackedUp'
  BY <1>1, <1>2, <1>f DEF Inv, BackedUp
<1> QED BY <1>5, <1>6, <1>7, <1>8, <1>9, <1>10, <1>11 DEF Inv

\* The copy: while it is made, it is of the data as it is, and marked with nothing.
LEMMA CopyInv ==
  ASSUME Inv, CopyBegins \/ Copied \/ CopyFails
  PROVE  Inv'
<1>1. /\ data' = data /\ lastVersion' = lastVersion /\ version' = version /\ name' = name
      /\ backups' = backups /\ replaced' = replaced /\ snapshots' = snapshots
      /\ openedBy' = openedBy /\ from' = from /\ unread' = unread
  BY DEF CopyBegins, Copied, CopyFails, Step, opening
<1>2. /\ version \in Versions /\ version # 0 /\ name \in Names
      /\ ~unread => name = NameOf /\ lastVersion # version
      /\ pc \in {"copy", "copying"}
  BY DEF CopyBegins, Copied, CopyFails, Step, Inv, Types, Stages
<1>3. PICK copy \in Copy :
        /\ unfinished' = [unfinished EXCEPT ![name] = copy]
        /\ copy.data <= clock' /\ copy.at <= clock'
        /\ \/ /\ pc' = "copying" /\ copy.data = data /\ copy.before = 0
              /\ clock' = clock + 1 /\ failures' = failures
           \/ /\ pc' = "move" /\ copy.data = data /\ copy.before = version
              /\ clock' = clock /\ failures' = failures
           \/ /\ pc' = "record only"
              /\ copy.before = 0 \/ copy = unfinished[name]
              /\ clock' = clock /\ failures' = failures + 1
  <2>t. /\ unfinished \in [Names -> Copy] /\ data \in Nat /\ clock \in Nat /\ data <= clock
        /\ unfinished[name].data <= clock /\ unfinished[name].at <= clock
    BY <1>2 DEF Inv, Types, Dated
  <2>1. CASE CopyBegins
    <3>1. PICK copy : copy = [data |-> data, before |-> 0, at |-> clock + 1]
      OBVIOUS
    <3>2. copy \in Copy /\ copy.data = data /\ copy.before = 0 /\ copy.at = clock + 1
      BY <2>t, <3>1 DEF Copy
    <3>3. /\ unfinished' = [unfinished EXCEPT ![name] = copy] /\ pc' = "copying"
          /\ clock' = clock + 1 /\ failures' = failures
      BY <2>1, <3>1 DEF CopyBegins, Step
    <3>4. copy.data <= clock' /\ copy.at <= clock'
      BY <2>t, <3>2, <3>3
    <3> QED BY <3>2, <3>3, <3>4
  <2>2. CASE Copied
    <3>1. PICK copy : copy = [unfinished[name] EXCEPT !.before = version]
      OBVIOUS
    <3>2. copy \in Copy /\ copy.data = unfinished[name].data /\ copy.before = version
          /\ copy.at = unfinished[name].at
      BY <1>2, <2>t, <3>1 DEF Copy
    <3>3. /\ unfinished' = [unfinished EXCEPT ![name] = copy] /\ pc' = "move" /\ pc = "copying"
          /\ clock' = clock /\ failures' = failures
      BY <2>2, <3>1 DEF Copied, Step
    <3>4. unfinished[name].data = data
      BY <3>3 DEF Inv, Stages
    <3> QED BY <2>t, <3>2, <3>3, <3>4
  <2>3. CASE CopyFails
    <3>1. PICK copy \in {NoCopy, unfinished[name]} : unfinished' = [unfinished EXCEPT ![name] = copy]
      BY <2>3 DEF CopyFails
    <3>2. copy \in Copy /\ copy.data <= clock /\ copy.at <= clock
      BY <1>2, <2>t, <3>1, NoCopyIs
    <3>3. pc' = "record only" /\ clock' = clock /\ failures' = failures + 1
      BY <2>3 DEF CopyFails, Step
    <3> QED BY <3>1, <3>2, <3>3, NoCopyIs
  <2> QED BY <2>1, <2>2, <2>3
<1>4. /\ unfinished'[name] = copy /\ unfinished' \in [Names -> Copy]
      /\ \A n \in Names : n # name => unfinished'[n] = unfinished[n]
  BY <1>2, <1>3 DEF Inv, Types
<1>t. Types
  BY DEF Inv
<1>c. (clock' = clock \/ clock' = clock + 1) /\ (failures' = failures \/ failures' = failures + 1)
  BY <1>3
<1>5. clock' \in Nat /\ failures' \in Nat /\ \A k \in Nat : k <= clock => k <= clock'
  BY <1>c, <1>t, Numbers, Later, OneMore
<1>6. Types'
  <2>1. data <= clock' /\ from <= clock' /\ snapshots <= clock'
    BY <1>5, <1>t, Numbers
  <2>2. pc' \in {"off", "running"} \cup Launching
    BY <1>3 DEF Launching
  <2>3. version # 0 /\ name # 0
    BY <1>2 DEF Inv, Types
  <2> QED BY <1>1, <1>4, <1>5, <2>1, <2>2, <2>3 DEF Inv, Types
<1>7. Dated'
  <2>1. \A n \in Names : /\ backups[n].data \in Nat /\ backups[n].at \in Nat
                         /\ unfinished[n].data \in Nat /\ unfinished[n].at \in Nat
                         /\ replaced[n].data \in Nat /\ replaced[n].at \in Nat
    BY <1>t, Numbers
  <2>2. \A n \in Names : unfinished'[n].data <= clock' /\ unfinished'[n].at <= clock'
    <3>1. ASSUME NEW n \in Names PROVE unfinished'[n].data <= clock' /\ unfinished'[n].at <= clock'
      <4>1. CASE n = name
        BY <1>3, <1>4, <4>1
      <4>2. CASE n # name
        BY <1>4, <1>5, <2>1, <4>2 DEF Inv, Dated
      <4> QED BY <4>1, <4>2
    <3> QED BY <3>1
  <2> QED BY <1>1, <1>5, <2>1, <2>2 DEF Inv, Dated
<1>8. Ordered'
  <2>1. copy.before <= version
    <3>1. version \in Nat /\ unfinished[name].before <= version
      BY <1>2, VersionsAre DEF Inv, Ordered
    <3>2. copy.before = 0 \/ copy.before = version \/ copy.before = unfinished[name].before
      BY <1>3
    <3> QED BY ONLY <3>1, <3>2
  <2> QED BY <1>1, <1>4, <2>1 DEF Inv, Ordered
<1>9. NameOf' = NameOf
  BY <1>1 DEF NameOf
<1>f. (failures' <= 1 => failures <= 1) /\ (failures' = 0 => failures = 0)
  BY <1>c, <1>t, Numbers, OneMore
<1>10. Stages'
  <2>1. pc' = "record only" => failures' >= 1
    BY <1>3, <1>t, Numbers, OneMore
  <2>2. failures' = 0 => ~unread
    BY <1>f DEF Inv, Stages
  <2> QED BY <1>1, <1>2, <1>3, <1>4, <1>9, <2>1, <2>2 DEF Inv, Stages
<1>a. ~(failures <= 1 /\ ~unread /\ openedBy = version /\ from # 0)
  BY <1>2 DEF Inv, NotAgain
<1>o. from # 0 => openedBy # 0
  BY DEF Inv, Ordered
<1>11. FromBefore'
  <2>1. openedBy # version => (copy.before = version => copy.data = data)
    BY <1>2, <1>3 DEF Inv, FromBefore
  <2>2. from # 0 /\ failures' <= 1 /\ ~unread => (copy.before = openedBy => copy.data = from)
    BY <1>2, <1>3, <1>a, <1>f, <1>o DEF Inv, FromBefore
  <2> QED BY <1>1, <1>4, <1>f, <2>1, <2>2 DEF Inv, FromBefore
<1>12. NotAgain'
  BY <1>1, <1>3, <1>a, <1>f DEF NotAgain
<1>13. BackedUp'
  <2>2. pc' # "prune"
    BY <1>3
  <2> QED BY <1>1, <1>f, <2>2 DEF Inv, BackedUp
<1> QED BY <1>6, <1>7, <1>8, <1>10, <1>11, <1>12, <1>13 DEF Inv

\* A finished copy is moved into its place, where one of an earlier launch may be:
\* the mark of this version is on the one or on the other throughout.
LEMMA MoveInv ==
  ASSUME Inv, MoveBegins \/ MoveAside \/ MoveIn \/ Clear
  PROVE  Inv'
<1>1. /\ data' = data /\ lastVersion' = lastVersion /\ version' = version /\ name' = name
      /\ snapshots' = snapshots /\ clock' = clock /\ failures' = failures
      /\ openedBy' = openedBy /\ from' = from /\ unread' = unread
  BY DEF MoveBegins, MoveAside, MoveIn, Clear, Step, opening
<1>t. Types /\ Dated /\ NoCopy \in Copy
  BY NoCopyIs DEF Inv
<1>2. /\ version \in Versions /\ version # 0 /\ name \in Names
      /\ ~unread => name = NameOf /\ lastVersion # version
      /\ failures = 0 => ~unread
      /\ name # 0 /\ pc \in {"move", "move aside", "move in", "clear"}
  BY DEF MoveBegins, MoveAside, MoveIn, Clear, Step, Inv, Types, Stages
<1>3. /\ backups \in [Names -> Copy] /\ unfinished \in [Names -> Copy] /\ replaced \in [Names -> Copy]
  BY <1>t DEF Types
<1>4. \/ /\ pc' = "move aside" /\ backups' = backups /\ unfinished' = unfinished
         /\ replaced' = [replaced EXCEPT ![name] = NoCopy] /\ unfinished[name].before = version
      \/ /\ pc' = "move in" /\ backups' = [backups EXCEPT ![name] = NoCopy] /\ unfinished' = unfinished
         /\ replaced' = [replaced EXCEPT ![name] = backups[name]] /\ unfinished[name].before = version
      \/ /\ pc' = "clear" /\ backups' = [backups EXCEPT ![name] = unfinished[name]]
         /\ unfinished' = [unfinished EXCEPT ![name] = NoCopy] /\ replaced' = replaced
         /\ unfinished[name].before = version
      \/ /\ pc' = "record" /\ backups' = backups /\ unfinished' = unfinished
         /\ replaced' = [replaced EXCEPT ![name] = NoCopy] /\ backups[name].before = version
  BY DEF MoveBegins, MoveAside, MoveIn, Clear, Step, Inv, Stages
<1>5. \A n \in Names : n # name =>
        backups'[n] = backups[n] /\ unfinished'[n] = unfinished[n] /\ replaced'[n] = replaced[n]
  BY <1>2, <1>3, <1>4
<1>6. \/ backups'[name] = backups[name] /\ unfinished'[name] = unfinished[name]
      \/ backups'[name] = NoCopy /\ unfinished'[name] = unfinished[name]
      \/ backups'[name] = unfinished[name] /\ unfinished'[name] = NoCopy /\ unfinished[name].before = version
  BY <1>2, <1>3, <1>4
<1>7. replaced'[name] \in {NoCopy, backups[name], replaced[name]}
  BY <1>2, <1>3, <1>4
<1>8. /\ pc' \in {"move aside", "move in"} => unfinished'[name].before = version
      /\ pc' \in {"clear", "record"} => backups'[name].before = version
      /\ pc' \in {"move aside", "move in", "clear", "record"}
  BY <1>2, <1>3, <1>4
<1>9. Types'
  <2>1. backups' \in [Names -> Copy] /\ unfinished' \in [Names -> Copy] /\ replaced' \in [Names -> Copy]
    BY <1>2, <1>3, <1>4, <1>t
  <2>2. pc' \in {"off", "running"} \cup Launching
    BY <1>8 DEF Launching
  <2> QED BY <1>1, <1>2, <1>t, <2>1, <2>2 DEF Types
<1>10. Dated'
  <2>1. ASSUME NEW n \in Names
        PROVE  /\ backups'[n].data <= clock /\ backups'[n].at <= clock
               /\ unfinished'[n].data <= clock /\ unfinished'[n].at <= clock
               /\ replaced'[n].data <= clock /\ replaced'[n].at <= clock
               /\ backups'[n] # NoCopy => backups'[n].before # 0
    <3>1. CASE n = name
      <4>1. NoCopy.data <= clock /\ NoCopy.at <= clock
        <5>1. clock \in Nat
          BY <1>t, Numbers
        <5> QED BY <5>1, NoCopyIs
      <4>2. /\ backups[name].data <= clock /\ backups[name].at <= clock
            /\ unfinished[name].data <= clock /\ unfinished[name].at <= clock
            /\ replaced[name].data <= clock /\ replaced[name].at <= clock
            /\ backups[name] # NoCopy => backups[name].before # 0
        BY <1>2, <1>t DEF Dated
      <4> QED BY <1>2, <1>6, <1>7, <3>1, <4>1, <4>2
    <3>2. CASE n # name
      BY <1>5, <1>t, <3>2 DEF Dated
    <3> QED BY <3>1, <3>2
  <2> QED BY <1>1, <2>1 DEF Dated
<1>11. Ordered'
  <2>0. version \in Nat /\ NoCopy.before = 0
    BY <1>t, Numbers, NoCopyIs
  <2>1. NoCopy.before <= version
    BY ONLY <2>0
  <2>2. ASSUME NEW n \in Names PROVE backups'[n].before <= version /\ unfinished'[n].before <= version
    BY <1>2, <1>5, <1>6, <2>1 DEF Inv, Ordered
  <2> QED BY <1>1, <2>2 DEF Inv, Ordered
<1>n. NameOf' = NameOf
  BY <1>1 DEF NameOf
<1>12. Stages'
  BY <1>1, <1>2, <1>8, <1>n DEF Stages
<1>13. FromBefore'
  <2>0. from # 0 => openedBy # 0
    BY DEF Inv, Ordered
  <2>1. ASSUME openedBy # version, NEW n \in Names
        PROVE  /\ backups'[n].before = version => backups'[n].data = data
               /\ unfinished'[n].before = version => unfinished'[n].data = data
    <3>1. /\ backups[n].before = version => backups[n].data = data
          /\ unfinished[n].before = version => unfinished[n].data = data
      BY <1>2, <2>1 DEF Inv, FromBefore
    <3>2. CASE n = name
      BY <1>2, <1>6, <3>1, <3>2, NoCopyIs
    <3>3. CASE n # name
      BY <1>5, <3>1, <3>3
    <3> QED BY <3>2, <3>3
  <2>2. ASSUME from # 0, failures <= 1, ~unread, NEW n \in Names
        PROVE  /\ backups'[n].before = openedBy => backups'[n].data = from
               /\ unfinished'[n].before = openedBy => unfinished'[n].data = from
    <3>1. /\ backups[n].before = openedBy => backups[n].data = from
          /\ unfinished[n].before = openedBy => unfinished[n].data = from
      BY <2>2 DEF Inv, FromBefore
    <3>2. CASE n = name
      BY <1>6, <2>0, <2>2, <3>1, <3>2, NoCopyIs
    <3>3. CASE n # name
      BY <1>5, <3>1, <3>3
    <3> QED BY <3>2, <3>3
  <2> QED BY <1>1, <2>1, <2>2 DEF FromBefore
<1>14. NotAgain'
  <2>1. ~unread => Settled'
    BY <1>1, <1>2, <1>8, <1>n DEF Settled
  <2> QED BY <1>1, <1>8, <2>1 DEF NotAgain
<1>15. BackedUp'
  <2>1. failures = 0 => openedBy # version
    BY <1>2 DEF Inv, BackedUp
  <2> QED BY <1>1, <1>2, <2>1 DEF BackedUp
<1> QED BY <1>9, <1>10, <1>11, <1>12, <1>13, <1>14, <1>15 DEF Inv

LEMMA RecordInv ==
  ASSUME Inv, RecordVersion
  PROVE  Inv'
<1>1. /\ data' = data /\ version' = version /\ name' = name /\ lastVersion' = version
      /\ backups' = backups /\ unfinished' = unfinished /\ replaced' = replaced
      /\ snapshots' = snapshots /\ clock' = clock /\ failures' = failures
      /\ openedBy' = openedBy /\ from' = from /\ unread' = unread
  BY DEF RecordVersion, Step, folders, opening
<1>2. (pc = "record" /\ pc' = "prune") \/ (pc = "record only" /\ pc' = "open")
  BY DEF RecordVersion, Step
<1>3. version \in Nat /\ failures \in Nat /\ version \in Versions \cup {0}
  BY Numbers DEF Inv, Types
<1>4. Types' /\ Dated'
  <2>1. pc' \in {"off", "running"} \cup Launching
    BY <1>2 DEF Launching
  <2>2. version # 0 /\ name # 0
    BY <1>2 DEF Inv, Types
  <2> QED BY <1>1, <1>3, <2>1, <2>2 DEF Inv, Types, Dated
<1>5. Ordered'
  BY <1>1, <1>3 DEF Inv, Ordered
<1>6. Stages'
  BY <1>1, <1>2 DEF Inv, Stages
<1>7. FromBefore'
  BY <1>1 DEF Inv, FromBefore
<1>8. NotAgain'
  BY <1>1, <1>2 DEF NotAgain, Settled
<1>9. BackedUp'
  <2>1. CASE pc = "record"
    <3>1. backups[name].before = version /\ name \in Names /\ (failures = 0 => lastVersion # version)
      BY <2>1 DEF Inv, Stages, Types
    <3>2. failures = 0 => openedBy # version
      BY <3>1 DEF Inv, BackedUp
    <3> QED BY <1>1, <3>1, <3>2 DEF BackedUp
  <2>2. CASE pc = "record only"
    <3>1. data = 0 \/ failures # 0
      <4>1. data = 0 \/ failures >= 1
        BY <2>2 DEF Inv, Stages
      <4> QED BY ONLY <1>3, <4>1
    <3> QED BY <1>1, <1>2, <2>2, <3>1 DEF Inv, BackedUp
  <2> QED BY <1>2, <2>1, <2>2
<1> QED BY <1>4, <1>5, <1>6, <1>7, <1>8, <1>9 DEF Inv

\* Of the backups, this launch's is never pruned.
LEMMA PruneInv ==
  ASSUME Inv, PruneBackups
  PROVE  Inv'
<1>1. /\ data' = data /\ version' = version /\ name' = name /\ lastVersion' = lastVersion
      /\ clock' = clock /\ failures' = failures /\ openedBy' = openedBy /\ from' = from /\ unread' = unread
      /\ pc = "prune" /\ pc' = "open"
      /\ unfinished' = [n \in Names |-> NoCopy] /\ replaced' = [n \in Names |-> NoCopy]
      /\ snapshots' = snapshots \/ snapshots' = 0
  BY DEF PruneBackups, Step, opening
<1>t. Types /\ Dated /\ NoCopy \in Copy
  BY NoCopyIs DEF Inv
<1>2. /\ version \in Versions /\ version # 0 /\ name \in Names /\ name # 0 /\ lastVersion = version
      /\ backups[name].before = version
  BY <1>1 DEF Inv, Types, Stages
<1>3. /\ backups' \in [Names -> Copy] /\ backups'[name] = backups[name]
      /\ \A n \in Names : backups'[n] = backups[n] \/ backups'[n] = NoCopy
  <2>1. backups' = [n \in Names |-> IF n \in Others /\ IsOld(backups[n].at) THEN NoCopy ELSE backups[n]]
    BY DEF PruneBackups
  <2>2. name \notin Others
    BY DEF Others
  <2>3. backups \in [Names -> Copy]
    BY <1>t DEF Types
  <2> QED BY <1>2, <1>t, <2>1, <2>2, <2>3
<1>n. clock \in Nat /\ snapshots \in Nat /\ snapshots <= clock /\ version \in Nat /\ 0 \in Nat /\ 0 <= clock
      /\ 0 <= version
  BY <1>t, Numbers
<1>4. Types'
  <2>1. unfinished' \in [Names -> Copy] /\ replaced' \in [Names -> Copy]
    BY <1>1, <1>t
  <2>2. snapshots' \in Nat /\ snapshots' <= clock
    BY <1>1, <1>n
  <2> QED BY <1>1, <1>2, <1>3, <1>t, <2>1, <2>2 DEF Types, Launching
<1>5. Dated'
  <2>1. NoCopy.data <= clock /\ NoCopy.at <= clock
    BY <1>n, NoCopyIs
  <2> QED BY <1>1, <1>3, <1>t, <2>1 DEF Dated
<1>6. Ordered'
  <2>1. NoCopy.before <= version
    BY <1>n, NoCopyIs
  <2> QED BY <1>1, <1>3, <2>1 DEF Inv, Ordered
<1>7. Stages'
  <2>1. failures = 0 => ~unread
    BY DEF Inv, Stages
  <2> QED BY <1>1, <1>2, <2>1 DEF Stages
<1>8. FromBefore'
  <2>1. from # 0 => openedBy # 0
    BY DEF Inv, Ordered
  <2> QED BY <1>1, <1>2, <1>3, <2>1, NoCopyIs DEF Inv, FromBefore
<1>9. NotAgain'
  BY <1>1, <1>2 DEF NotAgain, Settled
<1>10. BackedUp'
  <2>1. failures = 0 => openedBy # version
    BY <1>1 DEF Inv, BackedUp
  <2> QED BY <1>1, <1>2, <1>3, <2>1 DEF BackedUp
<1> QED BY <1>4, <1>5, <1>6, <1>7, <1>8, <1>9, <1>10 DEF Inv

\* The data is what the copies marked with this version are of, until it is opened.
LEMMA OpenInv ==
  ASSUME Inv, Open
  PROVE  Inv'
<1>1. /\ lastVersion' = lastVersion /\ version' = version /\ name' = name /\ failures' = failures
      /\ unread' = unread
      /\ backups' = backups /\ unfinished' = unfinished /\ replaced' = replaced /\ snapshots' = snapshots
      /\ pc = "open" /\ pc' = "running" /\ clock' = clock + 1 /\ data' = clock' /\ openedBy' = version
      /\ openedBy = version => from' = from
      /\ openedBy # version => from' = data
  BY DEF Open, folders, counts
<1>t. Types /\ Dated
  BY DEF Inv
<1>2. version \in Versions /\ version # 0 /\ name # 0
  BY <1>1, <1>t DEF Types
<1>n. clock' \in Nat /\ clock' <= clock' /\ \A k \in Nat : k <= clock => k <= clock'
  BY <1>1, <1>t, Numbers
<1>3. Types'
  <2>1. from' \in Nat /\ from' <= clock' /\ snapshots <= clock'
    BY <1>1, <1>n, <1>t, Numbers
  <2> QED BY <1>1, <1>2, <1>n, <1>t, <2>1 DEF Types
<1>4. Dated'
  BY <1>1, <1>n, <1>t, Numbers DEF Dated
<1>5. Ordered'
  <2>1. version <= version
    BY <1>2, VersionsAre
  <2> QED BY <1>1, <1>2, <2>1 DEF Inv, Ordered
<1>6. Stages'
  BY <1>1 DEF Inv, Stages
<1>7. FromBefore'
  BY <1>1, <1>2 DEF Inv, FromBefore
<1>8. NotAgain'
  <2>1. failures <= 1 /\ ~unread /\ from' # 0 => Settled
    BY <1>1 DEF Inv, NotAgain
  <2>2. NameOf' = NameOf
    BY <1>1 DEF NameOf
  <2> QED BY <1>1, <2>1, <2>2 DEF NotAgain, Settled
<1>9. BackedUp'
  <2>1. failures = 0 => lastVersion = version
    BY <1>1 DEF Inv, Stages
  <2>2. failures = 0 /\ from' # 0 => \E n \in Names : backups[n].before = version /\ backups[n].data = from'
    <3>1. CASE openedBy = version
      BY <1>1, <3>1 DEF Inv, BackedUp
    <3>2. CASE openedBy # version
      BY <1>1, <1>2, <2>1, <3>2 DEF Inv, BackedUp, FromBefore
    <3> QED BY <3>1, <3>2
  <2> QED BY <1>1, <2>1, <2>2 DEF BackedUp
<1> QED BY <1>3, <1>4, <1>5, <1>6, <1>7, <1>8, <1>9 DEF Inv

LEMMA StutterInv ==
  ASSUME Inv, UNCHANGED vars
  PROVE  Inv'
<1>1. Types' /\ Dated' /\ Ordered'
  BY DEF vars, folders, opening, counts, Inv, Types, Dated, Ordered
<1>2. Stages'
  BY DEF vars, folders, opening, counts, Inv, Stages, NameOf
<1>3. FromBefore'
  BY DEF vars, folders, opening, counts, Inv, FromBefore
<1>4. NotAgain'
  BY DEF vars, folders, opening, counts, Inv, NotAgain, Settled, NameOf
<1>5. BackedUp'
  BY DEF vars, folders, opening, counts, Inv, BackedUp
<1> QED BY <1>1, <1>2, <1>3, <1>4, <1>5 DEF Inv

-----------------------------------------------------------------------------
\* However the launches of ever newer versions crash and fail, a copy's mark is
\* true of it, and what an upgrade has backed up is there.
THEOREM SpecInv ==
  ASSUME MayDowngrade = FALSE
  PROVE  Spec => []Inv
<1>1. Inv /\ [Next]_vars => Inv'
  <2> SUFFICES ASSUME Inv, [Next]_vars PROVE Inv'
    OBVIOUS
  <2>1. CASE UNCHANGED vars
    BY <2>1, StutterInv
  <2>2. CASE \E v \in Versions, misread \in SUBSET Read : Launch(v, misread)
    BY <2>2, LaunchInv
  <2>3. CASE CopyBegins \/ Copied \/ CopyFails
    BY <2>3, CopyInv
  <2>4. CASE MoveBegins \/ MoveAside \/ MoveIn \/ Clear
    BY <2>4, MoveInv
  <2>5. CASE RecordVersion
    BY <2>5, RecordInv
  <2>6. CASE PruneBackups
    BY <2>6, PruneInv
  <2>7. CASE \/ \E step \in {"move", "move aside", "move in", "clear", "record", "prune", "record only"} : Fails(step)
             \/ Crash \/ TakeSnapshot \/ Quit
    BY <2>7, AsideInv
  <2>8. CASE Open
    BY <2>8, OpenInv
  <2> QED BY <2>1, <2>2, <2>3, <2>4, <2>5, <2>6, <2>7, <2>8 DEF Next
<1> QED BY <1>1, InitInv, PTL DEF Spec

LEMMA InvTyped == Inv => TypeOK
<1> SUFFICES ASSUME Inv PROVE TypeOK
  OBVIOUS
<1>t. Types /\ Dated
  BY DEF Inv
<1>1. ASSUME NEW copy \in Copy, copy.data <= clock, copy.at <= clock PROVE IsCopy(copy)
  <2>1. /\ copy.data \in Nat /\ copy.before \in Versions \cup {0} /\ copy.at \in Nat /\ clock \in Nat
    BY <1>t, Numbers DEF Copy
  <2>2. copy.data \in 0..clock /\ copy.at \in 0..clock
    BY <1>1, <2>1
  <2> QED BY <2>1, <2>2 DEF IsCopy
<1>2. \A n \in Names : IsCopy(backups[n]) /\ IsCopy(unfinished[n]) /\ IsCopy(replaced[n])
  BY <1>1, <1>t DEF Types, Dated
<1>3. data \in 0..clock /\ snapshots \in 0..clock /\ from \in 0..clock
  BY <1>t, Numbers
<1> QED BY <1>2, <1>3, <1>t DEF Types, Dated, TypeOK, Launching

\* What a backup is said to hold it holds: the data as it was before the version
\* it is marked with opened it, whichever launch copied it, moved it into its
\* place and recorded it, unless two things failed or a launch could not read what
\* it goes by.
THEOREM MarksAreTrue ==
  ASSUME MayDowngrade = FALSE
  PROVE  Spec => []CopiedBeforeOpened
<1>1. Inv => CopiedBeforeOpened
  BY InvTyped DEF CopiedBeforeOpened, Inv, FromBefore
<1> QED BY <1>1, SpecInv, PTL

\* Without failures, however many launches crash, a version that runs has left a
\* backup of the data from before it opened it.
THEOREM UpgradesAreBackedUp ==
  ASSUME MayDowngrade = FALSE
  PROVE  Spec => []UpgradeIsBackedUp
<1>1. Inv => UpgradeIsBackedUp
  <2> SUFFICES ASSUME Inv, pc = "running", failures = 0, from # 0
               PROVE  \E n \in Names : backups[n].before # 0 /\ backups[n].data = from
    BY DEF UpgradeIsBackedUp
  <2>1. openedBy = version /\ version # 0
    BY DEF Inv, Stages, Types
  <2> QED BY <2>1 DEF Inv, BackedUp
<1> QED BY <1>1, SpecInv, PTL
=============================================================================
