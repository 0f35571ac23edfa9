----------------------------- MODULE FolderSync -----------------------------
(***************************************************************************)
(* A collection and a folder of files kept in step (main/folder-sync.ts,   *)
(* sync/folder/layout.ts) while the user edits the files, the app edits    *)
(* the documents, and the app is quit and started again.                   *)
(*                                                                         *)
(* The collection is its title, at most one folder ("sub") and requests; a *)
(* request is a name, a text and the directory it is in.  A step is what a *)
(* reconcile does from one read to the next: it READS the folder and the   *)
(* documents, TAKES IN what changed, PLANS what to write (reading both     *)
(* again) and WRITES.  The user and the app act between any two.  What a   *)
(* step writes concerns each file, and each document, apart from the       *)
(* others, so an edit amid its writes comes to one before or after them.   *)
(***************************************************************************)
EXTENDS Integers, FiniteSets

CONSTANTS
  Ids,           \* the requests' ids, the new ones' too
  Names, Texts,  \* what a request's name and text, and the title, may be
  Copies,        \* bound: a name in a directory: "Name", "Name (2)" ...
  UserCopies,    \* bound: those of them the user gives a file
  FirstDocs,     \* what the requests may be when the two are first in step
  FirstTitle,    \* the title then
  FirstFolder,   \* whether there is the folder then
  Overtaking,    \* whether files are removed from the folder between a reconcile's
                 \* two reads of it, or changed between the second and its writes
  MaxUser,       \* bound: edits in the folder
  MaxApp,        \* bound: edits in the app
  MaxFaults      \* bound: quits of the app, and writes that fail

Dirs == {"top", "sub"}
NoDoc == [dir |-> "none", name |-> 0, text |-> 0]
Doc == [dir : Dirs, name : Names, text : Texts]

ASSUME DataAssumption ==
  /\ Ids \subseteq Nat \ {0} /\ Names \subseteq Nat \ {0} /\ Texts \subseteq Nat \ {0}
  /\ Copies \subseteq Nat \ {0} /\ UserCopies \subseteq Copies
  /\ IsFiniteSet(Ids) /\ IsFiniteSet(Names) /\ IsFiniteSet(Copies)
  /\ FirstDocs \subseteq [Ids -> Doc \cup {NoDoc}]
  /\ FirstTitle \in Texts /\ FirstFolder \in BOOLEAN /\ Overtaking \in BOOLEAN
ASSUME EditsAssumption ==
  MaxUser \in Nat /\ MaxApp \in Nat /\ MaxFaults \in Nat

VARIABLES
  disk,      \* the files of the folder
  docs, folder, title,  \* the database: the requests, the folder, the title
  meta,      \* workspaceMeta.folderSyncIds
  written, held, ids,   \* FolderSync's fields
  pc,        \* where start or reconcile is; "off" while the app is closed
  starting,  \* start() has not returned
  timer,     \* SETTLE_MS is running
  queued,    \* the reconciles waiting in `running`
  seen,      \* what the read found
  plan,      \* what writeOut read, and the files it is to write
  was, mine, theirs,  \* history: the documents when last in step, and the last
                      \* value the app, and the user in the folder, gave each since
  behind,    \* history: the requests the app changed whose file was still an older
             \* one when the app quit, or when the write of it failed
  used,      \* history: the ids given out
  userEdits, appEdits, quits, failures

database == <<docs, folder, title>>
memory == <<written, held, ids, pc, starting, timer, queued, seen, plan>>
history == <<was, mine, theirs, behind, used>>
bounds == <<userEdits, appEdits, quits, failures>>
syncVars == <<disk, database, meta, memory, history, bounds>>

-----------------------------------------------------------------------------
\* Paths and what is at them.

Path(dir, name, n) == [dir |-> dir, name |-> name, n |-> n]
Collection == Path("top", 0, 0)   \* insomnium.yaml
FolderFile == Path("sub", 0, 0)   \* _folder.yaml
Requests == [dir : Dirs, name : Names, n : Copies]
Paths == Requests \cup {Collection, FolderFile}

FolderId == 0
NoId == -1

Content(kind, id, name, text) == [kind |-> kind, id |-> id, name |-> name, text |-> text]
Plain(kind) == Content(kind, 0, 0, 0)
Absent == Plain("absent")
Bad == Plain("bad")          \* it does not parse
Foreign == Plain("foreign")  \* it parses, and is not this collection's
Unread == Plain("unread")    \* UNREAD, in `written`
Group == Plain("folder")
Own(text) == Content("collection", 0, 0, text)
RequestFile(id, name, text) == Content("request", id, name, text)

Tree(ds, f) == {i \in Ids : ds[i].dir = "top" \/ (ds[i].dir = "sub" /\ f)}

\* The k-th of the numbers of a set.
Nth(S, k) == CHOOSE n \in S : Cardinality({m \in S : m <= n}) = k

\* unique: the requests of one name in a directory take its free names in the
\* order of their ids.
NameOf(i, ds, f, reserved) ==
  LET free == {n \in Copies : Path(ds[i].dir, ds[i].name, n) \notin reserved}
      before == {j \in Tree(ds, f) : ds[j].dir = ds[i].dir /\ ds[j].name = ds[i].name /\ j <= i}
  IN Path(ds[i].dir, ds[i].name, Nth(free, Cardinality(before)))

\* The files of the collection.  (The folder's directory would be "sub (2)" were its
\* file reserved: that it never is, FixedNames proves.)
CollectionFiles(ds, f, t, reserved) ==
  [p \in Paths |->
     IF p = Collection THEN Own(t)
     ELSE IF p = FolderFile THEN (IF f THEN Group ELSE Absent)
     ELSE LET here == {i \in Tree(ds, f) : ds[i].dir = p.dir /\ ds[i].name = p.name
                                              /\ NameOf(i, ds, f, reserved) = p} IN
          IF here = {} THEN Absent
          ELSE LET i == CHOOSE i \in here : TRUE IN RequestFile(i, ds[i].name, ds[i].text)]

IsOwn(files) == files[Collection].kind = "collection"

\* folderDocs: the requests' files it reads, where the collection's file does and
\* their directory's folder file does.
Readable(files, p) ==
  IsOwn(files) /\ p \in Requests /\ (p.dir = "top" \/ files[FolderFile] = Group)
Parsed(files) == {p \in Requests : Readable(files, p) /\ files[p].kind = "request"}
Failed(files) ==
  {p \in Paths : files[p] = Bad /\ (p = Collection \/ (IsOwn(files) /\ p = FolderFile)
                                     \/ Readable(files, p))}

IsFileOf(content, i) == content.kind = "request" /\ content.id = i
AsDoc(p, c) == [dir |-> p.dir, name |-> c.name, text |-> c.text]

\* The files that hold a document (or, for 0, the title), and what they say of it.
Homes(files, i) ==
  IF i = 0 THEN {p \in {Collection} : IsOwn(files)} ELSE {p \in Parsed(files) : files[p].id = i}
Saying(p, c) == IF p = Collection THEN [NoDoc EXCEPT !.text = c.text] ELSE AsDoc(p, c)

\* The order of folderDocs' paths: by depth, then by name.
Comes(p, q) ==
  \/ p.dir = "top" /\ q.dir = "sub"
  \/ p.dir = q.dir /\ (p.name < q.name \/ (p.name = q.name /\ p.n <= q.n))
First(S) == CHOOSE p \in S : \A q \in S : Comes(p, q)

-----------------------------------------------------------------------------
Quiet == pc = "idle" /\ ~timer /\ queued = 0
AtRest == Quiet /\ failures = 0   \* and the two are in step: see InStep

Nothing == <<>>   \* `seen` and `plan` when there is none

IdsIn(files) == [p \in Paths |->
  IF files[p].kind = "request" THEN {files[p].id}
  ELSE IF files[p] = Group THEN {FolderId} ELSE {}]

\* The collection's documents and, at 0, its title, as LatestWins compares them.
State(ds, f, t) ==
  [i \in Ids \cup {0} |-> IF i = 0 THEN [NoDoc EXCEPT !.text = t]
                           ELSE IF i \in Tree(ds, f) THEN ds[i] ELSE NoDoc]
\* The folder and the documents agree about a request, and the sync knows.
Agree(i) ==
  LET its == {p \in Requests : IsFileOf(disk[p], i) \/ IsFileOf(written[p], i)} IN
  \/ AtRest
  \/ /\ i # 0 /\ pc \in {"plan", "idle"}
     /\ \A p \in its : p \in Homes(disk, i) /\ written[p] = disk[p]
     /\ {AsDoc(p, disk[p]) : p \in its} = {State(docs, folder, title)[i]} \ {NoDoc}
Now == [i \in Ids \cup {0} |-> {State(docs, folder, title)[i]}]
Untouched == [i \in Ids \cup {0} |-> {}]
Anything == Doc \cup {[NoDoc EXCEPT !.text = t] : t \in Texts \cup {0}}

SyncInit ==
  /\ docs \in FirstDocs /\ folder = FirstFolder /\ title = FirstTitle
  /\ disk = CollectionFiles(docs, folder, title, {})
  /\ written = disk /\ held = IdsIn(disk) /\ ids = UNION {held[p] : p \in Paths}
  /\ meta = ids
  /\ pc = "idle" /\ starting = FALSE /\ timer = FALSE /\ queued = 0
  /\ seen = Nothing /\ plan = Nothing
  /\ was = Now /\ mine = Untouched /\ theirs = Untouched /\ behind = {}
  /\ used = {i \in Ids : docs[i] # NoDoc}
  /\ userEdits = 0 /\ appEdits = 0 /\ quits = 0 /\ failures = 0

-----------------------------------------------------------------------------
\* schedule, and the reconcile it puts after the ones that run.

TimerFires ==
  /\ timer
  /\ timer' = FALSE /\ queued' = queued + 1
  /\ UNCHANGED <<disk, database, meta, written, held, ids, pc, starting, seen, plan,
                 history, bounds>>

\* What is in the folder and in the database, and what changed of the files.
Seen(changed, deleted) ==
  [files |-> disk, docs |-> [i \in Ids |-> IF i \in Tree(docs, folder) THEN docs[i] ELSE NoDoc],
   folder |-> folder, title |-> title, changed |-> changed, deleted |-> deleted]

\* reconcile begins.
Read ==
  LET changed == {p \in Paths : disk[p] \notin {Absent, written[p]}}
      deleted == {p \in Paths : written[p] # Absent /\ disk[p] = Absent}
  IN
  /\ pc = "idle" /\ queued > 0
  /\ queued' = queued - 1
  /\ IF changed \cup deleted = {} THEN pc' = "plan" /\ UNCHANGED seen
                                  ELSE pc' = "takeIn" /\ seen' = Seen(changed, deleted)
  /\ UNCHANGED <<disk, database, meta, written, held, ids, starting, timer, plan, history, bounds>>

\* start reads the folder: all of it is new to this run.  It throws, and leaves
\* everything as it is, when the folder has another collection.  (Starts with the
\* collection's own file gone, or not reading, are left out.)
Start ==
  /\ pc = "off" /\ IsOwn(disk)
  /\ starting' = TRUE
  /\ pc' = "takeIn" /\ seen' = Seen({p \in Paths : disk[p] # Absent}, {})
  /\ UNCHANGED <<disk, database, meta, written, held, ids, timer, queued, plan, history, bounds>>

-----------------------------------------------------------------------------
\* takeIn.

\* The file that keeps an id that several hold: one the sync wrote it to, or the first.
Keeper(i) ==
  LET all == {p \in Parsed(seen.files) : seen.files[p].id = i}
      ours == {p \in all : i \in held[p]}
  IN First(IF ours = {} THEN all ELSE ours)

\* The files that hold a new document: without an _id, a copy, or with the _id
\* of a document that is not in the collection.
Anew ==
  {p \in Parsed(seen.files) :
     LET i == seen.files[p].id IN
     \/ i = NoId
     \/ Keeper(i) # p
     \/ p \in seen.changed /\ seen.docs[i] = NoDoc /\ docs[i] # NoDoc}

Free == Ids \ used
IdsLeft == Cardinality(Anew \cap seen.changed) <= Cardinality(Free)
NewId(p) == Nth(Free, Cardinality({q \in Anew \cap seen.changed : Comes(q, p)}))
IdAt(p) == IF p \in Anew THEN (IF p \in seen.changed THEN NewId(p) ELSE NoId)
                         ELSE seen.files[p].id

\* Mutant: what the file says is written whatever the document was.
UpsertedAnyhow(i) ==
  LET here == {p \in Parsed(seen.files) : IdAt(p) = i} IN
  IF here = {} THEN docs[i] ELSE LET p == First(here) IN AsDoc(p, seen.files[p])

\* A changed file's document, if it differs from what was read of it.
Upserted(i) ==
  LET here == {p \in Parsed(seen.files) \cap seen.changed : IdAt(p) = i} IN
  IF here = {} THEN docs[i]
  ELSE LET new == AsDoc(First(here), seen.files[First(here)]) IN
       IF new = seen.docs[i] THEN docs[i] ELSE new

\* The documents of the deleted files, unless they moved to another file.
Gone ==
  {i \in UNION {held[p] : p \in seen.deleted} :
     IF i = FolderId THEN seen.folder /\ seen.files[FolderFile] # Group
     ELSE seen.docs[i] # NoDoc /\ \A p \in Parsed(seen.files) : IdAt(p) # i}

\* removeMissing, at the start: what the folder held before, and does not now.
Missing ==
  IF ~starting \/ Failed(seen.files) # {} THEN {}
  ELSE {i \in meta : IF i = FolderId THEN seen.files[FolderFile] # Group
                     ELSE \A p \in Parsed(seen.files) : seen.files[p].id # i}

Removed(ds, gone) ==
  [i \in Ids |-> IF i \in gone \/ (FolderId \in gone /\ ds[i].dir = "sub") THEN NoDoc ELSE ds[i]]

\* At the start, the collection's files that could not be read are the sync's too.
Marked(w) ==
  [p \in Paths |->
     IF /\ starting /\ seen.files[p] # Absent /\ w[p] = Absent
        /\ p \in Failed(seen.files) \/ (p.dir = "sub" /\ seen.files[FolderFile] # Absent)
     THEN Unread ELSE w[p]]

TakeIn ==
  LET taken == {p \in seen.changed : p \in Parsed(seen.files) \/ seen.files[p] = Group}
      gone == Gone \cup Missing
      new == {IdAt(p) : p \in Anew \cap seen.changed}
  IN
  /\ pc = "takeIn"
  /\ pc' = "plan" /\ seen' = Nothing
  /\ IF IsOwn(seen.files)
       THEN /\ IdsLeft
            /\ docs' = Removed([i \in Ids |-> Upserted(i)], gone)
            /\ folder' = (FolderId \notin gone
                           /\ (folder \/ (FolderFile \in taken /\ ~seen.folder)))
            /\ title' = IF Collection \in seen.changed
                            /\ seen.files[Collection].text # seen.title
                          THEN seen.files[Collection].text ELSE title
            /\ written' = Marked([p \in Paths |-> IF p \in taken THEN seen.files[p]
                                    ELSE IF p \in seen.deleted THEN Absent ELSE written[p]])
            /\ held' = [p \in Paths |->
                 IF p \in taken THEN (IF p = FolderFile THEN {FolderId} ELSE {IdAt(p)})
                 ELSE IF p \in seen.deleted THEN {} ELSE held[p]]
            /\ used' = used \cup new
            /\ theirs' = [i \in Ids \cup {0} |->
                 IF i \in new THEN {AsDoc(p, seen.files[p]) : p \in {q \in Anew \cap seen.changed : IdAt(q) = i}}
                 ELSE theirs[i]]
       ELSE /\ written' = Marked(written)
            /\ UNCHANGED <<database, held, used, theirs>>
  /\ timer' = (timer \/ (~starting /\ <<docs, folder, title>>' # <<docs, folder, title>>))
  /\ UNCHANGED <<disk, meta, ids, starting, queued, plan, was, mine, behind, bounds>>

-----------------------------------------------------------------------------
\* writeOut.

\* What is in the folder and is not the sync's.
Reserved == {p \in Paths : disk[p] # Absent /\ written[p] = Absent}

\* The bound's names suffice.
NamesLeft ==
  \A d \in Dirs, m \in Names :
    Cardinality({i \in Tree(docs, folder) : docs[i].dir = d /\ docs[i].name = m})
      <= Cardinality({n \in Copies : Path(d, m, n) \notin Reserved})

\* Mutant: names are not kept clear of.
PlanOverOthers ==
  /\ pc = "plan" /\ NamesLeft
  /\ pc' = "write"
  /\ plan' = [onDisk |-> disk, files |-> CollectionFiles(docs, folder, title, {})]
  /\ UNCHANGED <<disk, database, meta, written, held, ids, starting, timer, queued, seen,
                 history, bounds>>

Plan ==
  /\ pc = "plan" /\ NamesLeft
  /\ pc' = "write"
  /\ plan' = [onDisk |-> disk, files |-> CollectionFiles(docs, folder, title, Reserved)]
  /\ UNCHANGED <<disk, database, meta, written, held, ids, starting, timer, queued, seen,
                 history, bounds>>

\* An edit in progress: a file of the sync's that changed and was not taken in.
PendingEdit(p) == written[p] # Absent /\ plan.onDisk[p] \notin {Absent, written[p]}

\* Mutant: a folder's own file is left when the folder goes.
ToRemoveRequests == {p \in Requests : /\ plan.files[p] = Absent /\ written[p] # Absent
                                       /\ plan.onDisk[p] # Absent /\ ~PendingEdit(p)}

\* The files to write, and the ones to remove.
ToWrite == {p \in Paths : plan.files[p] \notin {Absent, plan.onDisk[p]} /\ ~PendingEdit(p)}
ToRemove == {p \in Paths : /\ plan.files[p] = Absent /\ written[p] # Absent
                           /\ plan.onDisk[p] # Absent /\ ~PendingEdit(p)}

Attempted == IF pc = "write" THEN ToWrite \cup ToRemove ELSE {}

WrittenOut(done) ==
  [p \in Paths |-> IF p \in done \cap ToWrite THEN plan.files[p]
                   ELSE IF p \in done \cap ToRemove THEN Absent ELSE disk[p]]

\* Mutant: files are written whether they differ or not.
HeardAlways(done) == ~starting

\* The watcher hears what is written.
Heard(done) == ~starting /\ WrittenOut(done) # disk

\* History: the requests of which the folder has a version from before the app's,
\* and those it is said to have, and has none of though nobody deleted it.
Behind(files) ==
  LET now == State(docs, folder, title)
      versions == [i \in Ids |-> {AsDoc(p, files[p]) : p \in {q \in Requests : IsFileOf(files[q], i)}}]
  IN {i \in Ids : mine[i] # {} /\ versions[i] \notin {{}, {now[i]}}}
       \cup {i \in Ids \cap meta : versions[i] = {} /\ NoDoc \notin {now[i]} \cup theirs[i]}
       \cup {i \in Ids : docs[i] # now[i]}

\* The files are written, but for those that fail.
Write(failing) ==
  LET done == Attempted \ failing IN
  /\ pc = "write"
  /\ failing \subseteq Attempted
  /\ quits + failures + Cardinality(failing) <= MaxFaults
  /\ failures' = failures + Cardinality(failing)
  /\ disk' = WrittenOut(done)
  /\ written' = [p \in Paths |->
       IF PendingEdit(p) \/ p \in failing \cap ToRemove THEN written[p]
       ELSE IF p \in failing THEN Absent ELSE plan.files[p]]
  /\ held' = IdsIn(plan.files)
  /\ ids' = UNION {IdsIn(plan.files)[p] : p \in Paths}
  /\ pc' = IF ids' # ids THEN "record" ELSE "idle"
  /\ starting' = (starting /\ pc' = "record")
  /\ timer' = (timer \/ Heard(done))
  /\ plan' = Nothing
  /\ behind' = behind \cup {i \in Behind(disk') : \E p \in failing : IsFileOf(plan.files[p], i) \/ IsFileOf(disk[p], i)}
  /\ UNCHANGED <<database, meta, queued, seen, was, mine, theirs, used, userEdits, appEdits, quits>>

\* The ids the folder has are kept for the next start.
Record ==
  /\ pc = "record"
  /\ meta' = ids
  /\ pc' = "idle" /\ starting' = FALSE
  /\ UNCHANGED <<disk, database, written, held, ids, timer, queued, seen, plan, history, bounds>>

\* The app quits, perhaps amid the writes, of which the removals come last.  (A
\* request that the folder is said to have, and that no file there has, may go at
\* the next start: see GoesWhenDeleted.)
Quit(done) ==
  /\ pc # "off" /\ done \subseteq Attempted
  /\ \A p \in done : plan.files[p] = Absent => \A q \in Attempted \ done : plan.files[q] = Absent
  /\ quits + failures < MaxFaults
  /\ quits' = quits + 1
  /\ disk' = IF pc = "write" THEN WrittenOut(done) ELSE disk
  /\ written' = [p \in Paths |-> Absent] /\ held' = [p \in Paths |-> {}] /\ ids' = {}
  /\ pc' = "off" /\ starting' = FALSE /\ timer' = FALSE /\ queued' = 0
  /\ seen' = Nothing /\ plan' = Nothing
  /\ was' = IF AtRest THEN Now ELSE was
  /\ mine' = IF AtRest THEN Untouched ELSE mine
  /\ theirs' = IF AtRest THEN Untouched ELSE theirs
  /\ behind' = IF AtRest THEN {} ELSE behind \cup Behind(disk')
  /\ UNCHANGED <<database, meta, used, userEdits, appEdits, failures>>

-----------------------------------------------------------------------------
\* The user edits the folder, with the app open or closed: the watcher schedules.

\* What an edit says of a document: what was said before, what it is now, that it is gone, or
\* (it reads no more, or twice, or something else is in its place) nothing certain.
Says(before, after, i, earlier) ==
  LET then == Homes(before, i)
      now == Homes(after, i)
      edited == {p \in Paths : after[p] # before[p]}
      deleted == \A p \in Requests : before[p].kind = "request" /\ before[p].id = i
                                       => after[p] = Absent
  IN
  IF \/ ~IsOwn(after) /\ earlier # {}
     \/ /\ now \cup then = {}
        /\ \E p \in Paths, q \in edited :
             before[p] = Bad /\ (q \in {p, FolderFile} \/ (p = FolderFile /\ q.dir = "sub"))
     \/ \E p \in edited : IsFileOf(written[p], i) /\ after[p] # Absent /\ ~IsFileOf(after[p], i)
     \/ \E p \in edited : (IsFileOf(before[p], i) /\ p \notin then) \/ (IsFileOf(after[p], i) /\ p \notin now)
    THEN Anything
  ELSE IF now = then /\ \A p \in now : after[p] = before[p] THEN earlier
  ELSE IF Cardinality(now) = 1 /\ Cardinality(then) <= 1
         THEN {Saying(p, after[p]) : p \in now}
                \cup (IF \E p \in now : after[p] = written[p] THEN {State(docs, folder, title)[i]} ELSE {})
  ELSE IF now = {} /\ i # 0 /\ deleted /\ IsOwn(after) THEN {NoDoc}
  ELSE Anything

\* An edit that a reconcile has read past, and does not see.
Overtakes(files) ==
  LET edited == {p \in Paths : files[p] # disk[p]} IN
  \/ pc \in {"takeIn", "plan"} /\ \E p \in edited : files[p] = Absent
  \/ edited \cap Attempted # {}
  \/ FolderFile \in Attempted /\ \E p \in edited : p.dir = "sub"

\* (Edits during start(), before it watches and listens, are left out.)
Edits(files) ==
  /\ ~starting
  /\ Overtakes(files) => Overtaking
  /\ userEdits < MaxUser /\ userEdits' = userEdits + 1
  /\ disk' = files
  /\ timer' = (timer \/ pc # "off")
  /\ theirs' = [i \in Ids \cup {0} |-> Says(disk, files, i, IF Agree(i) THEN {} ELSE theirs[i])]
  /\ was' = [i \in Ids \cup {0} |->
       IF Agree(i) THEN {State(docs, folder, title)[i]}
       ELSE was[i] \cup (IF theirs'[i] # theirs[i] THEN theirs[i] ELSE {})]
  /\ mine' = [i \in Ids \cup {0} |-> IF Agree(i) THEN {} ELSE mine[i]]
  /\ behind' = IF AtRest THEN {} ELSE behind
  /\ UNCHANGED <<database, meta, written, held, ids, pc, starting, queued, seen, plan,
                 used, appEdits, quits, failures>>

\* Whether there is an id left for a file that will need one.
IdLeft ==
  /\ Free # {}
  /\ \A p, q \in Requests : disk[p].kind = "request" =>
       disk[p].id # NoId /\ (disk[q].id = disk[p].id => p = q)

IsRequest(p) == disk[p].kind = "request"

\* What a file says when it reads: the id of a request's is its own, or that of
\* a request which no file has.
Readings(p) ==
  IF p = Collection THEN {Own(t) : t \in Texts}
  ELSE IF p = FolderFile THEN {Group}
  ELSE {RequestFile(i, p.name, t) : t \in Texts,
          i \in IF IsRequest(p) THEN {disk[p].id}
                ELSE {j \in used : \A q \in Requests : disk[q].id # j}}

\* A file is edited, or put right.
Save(p, content) ==
  /\ disk[p] \notin {Absent, Foreign, content}
  /\ Edits([disk EXCEPT ![p] = content])
Spoil(p) ==
  /\ disk[p] \notin {Absent, Bad, Foreign}
  /\ Edits([disk EXCEPT ![p] = Bad])
PutForeign(p) ==
  /\ p # FolderFile /\ disk[p] \in {Absent, disk[Collection]} \ {Foreign}
  /\ Edits([disk EXCEPT ![p] = Foreign])
Delete(p) ==
  /\ disk[p] # Absent
  /\ Edits([disk EXCEPT ![p] = Absent])
Move(p, q) ==
  /\ IsRequest(p) /\ disk[q] = Absent
  /\ Edits([disk EXCEPT ![p] = Absent, ![q] = disk[p]])
Copy(p, q) ==
  /\ IsRequest(p) /\ disk[q] = Absent /\ IdLeft
  /\ Edits([disk EXCEPT ![q] = disk[p]])
PutNew(p, t) ==
  /\ disk[p] = Absent /\ IdLeft
  /\ Edits([disk EXCEPT ![p] = RequestFile(NoId, p.name, t)])

User ==
  \/ \E p \in Paths : Spoil(p) \/ Delete(p) \/ \E content \in Readings(p) : Save(p, content)
  \/ \E q \in Paths : q.n \in UserCopies \cup {0} /\ PutForeign(q)
  \/ \E q \in Requests : q.n \in UserCopies /\
       \/ \E t \in Texts : PutNew(q, t)
       \/ \E p \in Requests : Move(p, q) \/ Copy(p, q)

-----------------------------------------------------------------------------
\* The app changes the documents; a change of one that is ours schedules.

Changes(ds, f, t, ours) ==
  /\ pc # "off" /\ ~starting
  /\ appEdits < MaxApp /\ appEdits' = appEdits + 1
  /\ docs' = ds /\ folder' = f /\ title' = t
  /\ timer' = (timer \/ ours)
  /\ was' = [i \in Ids \cup {0} |-> IF Agree(i) THEN {State(docs, folder, title)[i]} ELSE was[i]]
  /\ mine' = [i \in Ids \cup {0} |->
       IF State(ds, f, t)[i] # State(docs, folder, title)[i] THEN {State(ds, f, t)[i]}
       ELSE IF Agree(i) THEN {} ELSE mine[i]]
  /\ theirs' = [i \in Ids \cup {0} |-> IF Agree(i) THEN {} ELSE theirs[i]]
  /\ behind' = IF AtRest THEN {} ELSE behind
  /\ UNCHANGED <<disk, meta, written, held, ids, pc, starting, queued, seen, plan,
                 userEdits, quits, failures>>

IsOurs(i, dir) == i \in ids \/ dir = "top" \/ FolderId \in ids

\* A request in the collection is edited, renamed or moved; the title changes.
ChangeDoc(i, doc) ==
  /\ i \in Tree(docs, folder) /\ doc # docs[i] /\ (doc.dir = "sub" => folder)
  /\ Changes([docs EXCEPT ![i] = doc], folder, title, IsOurs(i, doc.dir))
  /\ UNCHANGED used
ChangeTitle(t) ==
  /\ t # title
  /\ Changes(docs, folder, t, TRUE)
  /\ UNCHANGED used
CreateDoc(i, doc) ==
  /\ IdLeft /\ i \in Free /\ \A j \in Free : i <= j
  /\ doc.dir = "sub" => folder
  /\ Changes([docs EXCEPT ![i] = doc], folder, title, IsOurs(i, doc.dir))
  /\ used' = used \cup {i}
DeleteDoc(i) ==
  /\ i \in Tree(docs, folder)
  /\ Changes([docs EXCEPT ![i] = NoDoc], folder, title, IsOurs(i, docs[i].dir))
  /\ UNCHANGED used
DeleteFolder ==
  /\ folder
  /\ Changes(Removed(docs, {FolderId}), FALSE, title, TRUE)
  /\ UNCHANGED used

App ==
  \/ \E i \in Ids, doc \in Doc : ChangeDoc(i, doc) \/ CreateDoc(i, doc)
  \/ \E t \in Texts : ChangeTitle(t)
  \/ \E i \in Ids : DeleteDoc(i)
  \/ DeleteFolder

Sync == TimerFires \/ Read \/ TakeIn \/ Plan \/ Write({}) \/ Record

SyncNext ==
  \/ Sync
  \/ \E failing \in SUBSET Attempted : failing # {} /\ Write(failing)
  \/ \E done \in SUBSET Attempted : Quit(done)
  \/ Start
  \/ User
  \/ App

SyncSpec == SyncInit /\ [][SyncNext]_syncVars

\* The timer fires, and a reconcile goes on.
FairSpec == SyncSpec /\ WF_syncVars(Sync)

-----------------------------------------------------------------------------
\* A file that is left as it is: it does not read, or its folder's file or the
\* collection's does not, or it is not the collection's.
LeftAlone(p) ==
  \/ disk[p] \in {Bad, Foreign}
  \/ ~IsOwn(disk) /\ disk[Collection] # Absent
  \/ /\ p.dir = "sub" /\ disk[FolderFile] # Group
     /\ disk[FolderFile] # Absent \/ disk[p] # written[p]

\* A file that was there when the app started, and that it did not read as the
\* folder's file was gone, which it then put back: the next reconcile reads it.
NotYetRead(p) == quits # 0 /\ written[p] = Absent /\ p.dir = "sub"

\* When nothing is under way, and no write failed, the two are in step: each file that is not left
\* alone, or yet to be read, is what the collection's documents make of it, and no other is there.
InStep ==
  AtRest => LET files == CollectionFiles(docs, folder, title, Reserved) IN
           \A p \in Paths : disk[p] = files[p] \/ LeftAlone(p) \/ NotYetRead(p)

\* A document is what it was when the two last agreed, unless it was changed since:
\* then it is the last that the app, or the user in the folder, made of it.  Or it
\* went with the folder it was put in; or its file was edited while the sync was
\* giving it another name, and a new request says what that edit did.
Latest(i) ==
  LET now == State(docs, folder, title)[i]
      changes == mine[i] \cup theirs[i]
  IN
  \/ now \in IF changes = {} THEN was[i] ELSE changes
  \/ ~folder /\ now = NoDoc /\ \E m \in changes : m.dir = "sub"
  \/ \E j \in used : was[j] = {NoDoc} /\ theirs[j] \cap theirs[i] # {} /\ now \in mine[i] \cup was[i]

\* When nothing is under way, each document is the latest that the app, or the user
\* in the folder, made of it: however a reconcile met the edits, it wrote nothing
\* older, in the documents or from the documents.  This is of every request but the
\* ones whose change by the app had not reached the folder when the app quit, or
\* when the write of it failed (`behind`): LatestAlwaysWins is of those too.  (With an
\* edit more than the run's one, a file deleted while the app was closed is written
\* again when another did not read at the start, as removeMissing is skipped then.)
LatestWins == Quiet => \A i \in Ids \ behind : Latest(i)

\* The latest change wins, and after the app is quit and started again, or a write
\* of a file has failed, too.  (MCFolderSyncLatest.cfg: it does not.)
LatestAlwaysWins == Quiet => \A i \in Ids : Latest(i)

\* So with the collection's title.
RenamesKept ==
  Quiet => State(docs, folder, title)[0] \in
             IF mine[0] \cup theirs[0] = {} THEN was[0] ELSE mine[0] \cup theirs[0]

\* A document goes when its file is deleted (or in the app): never while no file
\* has been.
GoesWhenDeleted ==
  [][\A i \in Ids : docs[i] # NoDoc /\ docs'[i] = NoDoc =>
       appEdits' # appEdits \/ userEdits # 0]_syncVars

\* So it does not go either, once the app has started, because of a file that is
\* not its own, or its folder's.
\* (MCFolderSyncForeign.cfg: it does.)
GoesWithItsOwnFile ==
  [][\A i \in Ids : docs[i] # NoDoc /\ docs'[i] = NoDoc =>
       starting \/ appEdits' # appEdits \/ ~folder' \/ theirs[i] # {}]_syncVars

\* What a reconcile writes over, or removes, is the sync's own and as the sync left
\* it: never a file of others, however it came to have the name, nor an edit that
\* was not taken in.  (But for the collection's own file, whose name is fixed, once
\* a write of it failed.  And where the user changes nothing between writeOut's read
\* of the folder and its writes, Overtaking = FALSE: MCFolderSyncOthers.cfg.)
OthersKept ==
  [][pc = "write" => \A p \in Paths : disk'[p] # disk[p] =>
       \/ userEdits' # userEdits
       \/ disk[p] \in {Absent, written[p]}
       \/ p = Collection /\ failures # 0]_syncVars

\* Whatever is edited, the two come to rest (unless the bound's ids, or names, run
\* out): neither answers the other's writes for ever.
Settles ==
  <>[](Quiet \/ pc = "off" \/ (pc = "takeIn" /\ ~IdsLeft) \/ (pc = "plan" /\ ~NamesLeft))
=============================================================================
