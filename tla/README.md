# Insomnium in TLA+

Models, model-checking runs and proofs for Insomnium (`src/packages/insomnia`
and the packages around it), a desktop client for HTTP, gRPC, WebSocket, MQTT
and MCP that keeps its documents in a local SQLite database. What is modelled
is the program's own control: what it does between its `await`s, in its timers
and callbacks, and across crashes and restarts. HTTP, TLS, SQLite, Electron,
isomorphic-git and React are not the program's own and appear only as far as
the code's use of them shows (external definitions).

All paths below are under `src/packages/insomnia/src/` unless they say otherwise.

## 1. Inventory

### Modelled

| Component | State | Operations | Interacts with | What is hard | What makes it correct |
|---|---|---|---|---|---|
| **Change feed**, `common/database.ts` 45-102, 240-310, 772-798 | `openBuffers`, `bufferChangesId`, `changeBuffer`, the array `changeListeners` | `bufferChanges`, `bufferChangesIndefinitely`, the timer, `flushChanges`, `notifyOfChange`, `onChange`, `offChange` | every write announces here; the delete hooks, folder sync and what follows the settings listen; batches go to all windows by IPC | `flushChanges` awaits each listener, so flushes overtake each other; listeners come and go in the middle of one; several buffered operations overlap; a listener rejects | no change is stranded, lost, told twice, told to the hooks out of order, or published out of somebody's open buffer |
| **SQLite store's write log**, `common/sqlite-store.ts` 115-143, 391-473 | the rows, `version`, the last `writes` | `insert`, `update`, `upsert`, `removeByIds`, `wrote`, `changesSince` | the facade writes, the collection reader asks | writes that changed no row, or were rolled back, are logged; the log is cut | a reader is told all that was written, or that it cannot be told |
| **Collection reader**, `ui/routes/workspace.tsx` 240-400 | `lastRead` | `readCollection`, `readAll`, `readChanges` | queries over IPC, one round trip each | the store is written between the round trips; loads overlap; folders move | "what it gives must be what reading it all gives" |
| **Credential guard**, `common/credential-guard.ts`, `main/credential-keys.ts`, `common/sqlite-store.ts` 164-212, `common/database.ts` 384-396, 691-702 | keys on disk and in memory, the guard's state, the fields on disk, the session's values | `load`, `ensureKey`, `sealDoc`, `openDoc`, the startup pass | the OS keychain; every write and read of a document | another keyring, a weak one, none, or one that stops answering, on any launch; several first saves at once | no credential is lost, written in plain, sealed under a weaker key, or read back wrong |
| **WebSocket connections**, `main/network/websocket.ts` | `WebSocketConnections`, the log streams, `Reconnects`, `ClosingOnPurpose` | open, the socket's events, `afterDrop`, the reconnect timer, close | windows (by `broadcastReadyState`), the database, the socket | every map is keyed by the request, and each call awaits several times before it has a socket | maps, files and windows agree; a drop is settled; Disconnect is final |
| **Snapshots and restore**, `main/snapshots.ts` | the snapshot files, the database, its log and their copies, the marker | `takeSnapshot`, `prune`, `restoreSnapshotOnRestart`, `restorePendingSnapshot` | SQLite; the next launch | calls overlap; a launch crashes or fails between renames | what the user may want back is there; the database opened is the one asked for or the one there was |
| **Backup before an upgrade**, `main/backup.ts` | `backups/`, the unfinished and replaced folders, `last-run-version` | `backupDataIfVersionChanged` with copying, moving into place, recording, pruning | the launch after a restore and before the database opens; shares `backups/` with the snapshots | crashes and failures at every step; versions in any order | a backup named for a version holds the data from before it |
| **UI revalidation**, `ui/revalidate-on-changes.ts` | `pending`, `loadingThen`, `loadedSince`, `dataThen` | the listener of the feed, the subscriber of the router | the change feed tells it; it revalidates the router, whose navigations, actions and loads it waits for | a change comes in the middle of an action that fails, redirects or is submitted again | each change is followed by a load begun after it, and no redirect is lost |
| **Folder sync**, `main/folder-sync.ts`, `sync/folder/layout.ts` | `written`, `held`, `ids`, the timer, `running`, `folderSyncIds` in the database | `start`, `reconcile`, `takeIn`, `removeMissing`, `writeOut` | the user's files; the database, whose changes schedule it; the file watcher | edits on either side between a read and the write that relies on it; failing writes; quits | the two come to agree on the last edit, and other files are left alone |
| **MCP client**, `main/network/mcp-client.ts`, `ui/components/mcp/`, `main/mcp/tools/mcp-requests.ts` | `connecting`, `connections`, what the window shows | connect over two transports, disconnect, `onclose` | the window and the automation server's agents call it; servers and commands | connects, disconnects and the server's answers race | one connection a request; a disconnect is final; the window knows |
| **Team server**, `server/team/` (partly) | accounts, collections and members in SQLite, the repositories, the audit log | the API, the admin commands, pushes by `git http-backend` | Git clients, the app, the administrator's shell | calls wait for a password or a body and act after; git's processes run beside the server | there is always an admin, as far as a command's count goes; the log tells of every commit pushed |

### Not modelled yet

| Component | Source | State and operations | Hard behaviour | Property to state |
|---|---|---|---|---|
| Writes of the facade | `common/database.ts` | `batchModifyDocs`, `upsert`, `remove`, `duplicate` over the store | each reads before an `await` and writes after it; events of a transaction are announced with awaits in between | the events tell what was done, in order; no orphan |
| Event streams | `main/network/curl.ts` | the same kind of maps as the WebSocket connections | `respond()` awaits before the stream's end removes entries | as for WebSockets |
| gRPC calls | `main/ipc/grpc.ts` | calls and channels by request | cancel during `start`'s awaits; a call's end removes a later call | a cancelled call is not made |
| Cancellation | `network/cancellation.ts`, `network/network.ts` | cancel functions by request id | a second send of the same request | whatever is sent can be cancelled |
| Runner, load test, flows | `network/runner.ts`, `network/load-test.ts`, `flows/` | a stopped run and its send in flight; walk of the flow graph | stop between the iterations | nothing is sent after a stop |
| Spec sync, document merge | `common/spec-sync.ts`, `sync/git/merge-docs.ts` | pure algorithms | ambiguous matches | checked against reference definitions |
| MQTT | `main/network/mqtt.ts` | packet ids, framing | wrap-around of ids, split packets | ids in use are not reused |
| Rest of the team server | `server/team/` | tokens, passwords, single sign-on, the sign-in limiter, logged fetches | tokens that lapse; a limiter's window | a token revoked is not accepted |
| OAuth 2 | `network/o-auth-2/get-token.ts` | the token, its refresh | refresh of the same request by two sends | one refresh per expiry |

Left out for good: the headless server and the CLI (glue over the runner, git
and the mock server), git sync apart from the document merge (calls of
isomorphic-git), the plugin sandbox, scripting and templating (evaluators), the
mock server and capture proxy (lists of routes), the proto worker, import and
export, the models (records with defaults), React components, windows and deep
links (Electron glue), tests and packaging. `PROJECT.json` lists each with its
files and its reason.

### Interactions

A write goes through the facade (`database.ts`) into the store
(`sqlite-store.ts`), where the credential guard seals it and the log numbers it;
the facade announces it to the change feed, which tells the listeners in the
main process and then all windows. A window that hears of a change revalidates
(`Revalidation`), and its loader reads what the log says was written
(`CollectionReader`). Folder sync listens to the same feed in the main process. At launch, in this order
(`main.development.ts` 177-181): a pending restore swaps the database, the
upgrade backup copies it, `database.init` opens it and runs the credential
guard's startup pass, and the daily snapshots begin.

## 2. Modules

| Module | Models | Extends |
|---|---|---|
| `ChangeFeed` | what the change feed promises (abstract) | |
| `ChangeBuffer` | the change feed, shown to implement `ChangeFeed` | instances `ChangeFeed` |
| `Revalidation` | a window over the feed | instances `ChangeFeed` |
| `FolderSync` | a collection and its folder | |
| `McpClient` | one MCP request's connection | |
| `TeamServer` | accounts, collections and pushes | |
| `ChangeBuffer_proofs` | its safety, and that it implements `ChangeFeed`, proved | `ChangeBuffer` |
| `WriteLog` | the store's rows and log | |
| `CollectionReader` | the loader over the log | `WriteLog` |
| `WindowLoads_proofs` | what a window loads and when, proved: the safety of the log, the loader and the revalidation | `CollectionReader`, `Revalidation` |
| `SharedCollections_proofs` | a collection that leaves the app, proved: the safety of the folder's sync and of the team server | `FolderSync`, `TeamServer` |
| `CredentialGuard` | credentials over several launches | |
| `WebSocketConnection` | one request's connection | |
| `Snapshots` | snapshots and restore | |
| `UpgradeBackup` | the backups, over several versions | |
| `McpClient_proofs`, `CredentialGuard_proofs`, `WebSocketConnection_proofs`, `Snapshots_proofs`, `UpgradeBackup_proofs` | the safety of each, proved | the module each is named for |
| `MC...` | the instance TLC checks, with its constants in the `.cfg` files | |

Mutated definitions (named for what they do wrong, and said so in the comment
above them) stand beside the definitions they are mutants of. No step of any
`Next` uses them: they show that each property fails for a plausible mistake.

Two proof modules are about two components each. Names that both components
would have begin with `Window` in `Revalidation` and with `Sync` (`sync`) in
`FolderSync`. The first conjunct of several invariants is the module's `TypeOK`;
where it says more than types, the comment above it says what.

### ChangeFeed and ChangeBuffer

`ChangeFeed` is what a window may rely on: changes wait in order, go out in
batches, and a batch is told to every window or to none. `ChangeBuffer!Feed`
maps the buffer to what waits, the flights to the batches under way, and what
was rejected or dropped to what is lost; `KeepsThePromise` checks the step-wise
refinement, `Revalidation` builds on the promise alone.

A change is its number in the order of `notifyOfChange`. A call of
`flushChanges` that awaits a listener is a *flight*: its batch, the listener it
awaits, the ones left, and whether the array it iterates is still the current
one (`onChange` pushes onto that array, so a flight reaches the new listener;
`offChange` replaces it, so a flight still calls the old one). The first
listener is called in the step that drains the buffer, as in the code, which has
no `await` before it. `NotifyOfChange(k)` is `k` announcements with no `await`
between them. What the listeners do is left out.

- `NothingStranded`: the buffer is empty when no buffer is open.
- `HooksHearAllInOrder`: the models' delete hooks have heard of exactly the
  changes announced, but for those still buffered or dropped by a fake flush,
  once each and in order.
- `ToldOnce`: nobody hears of a change twice, whoever is registered in between.
- `OverlapsCoalesce`: no step takes a change out while some buffer stays open.
- `ReachesWindows`: under fairness every change reaches every window, unless a
  listener rejected its batch. That a rejection loses the batch for the windows
  is what the code does; the property says so rather than hiding it.

Windows may get batches out of order, as flights overtake each other; no
property says otherwise, and `ChangeFeed` allows it.

### Revalidation

The router (React Router) is external. Its state is the part the code looks at:
each fetcher and the navigation, idle, submitting or loading; what a load reads
is the number of changes made before it began. What the router does around them
(a redirect gives way to a revalidation begun since; an older load is dropped
when a newer one of every route ends; an action refused with 4xx or 5xx goes
through `loading` and loads nothing) is as the repository's tests of
`revalidateOnDatabaseChanges` show it. A fetcher's plain load is left out, since
`busy` does not look at it. The loads under way are in the order they began
(`earlier`), as that is what the router drops them by. The microtask in which the subscriber revalidates is
part of its step, as nothing runs between.

- `NothingMissed`: a change the window was told of is read, pending, or being
  read by a load of every route that began after it; a change is pending only
  while the window is busy.
- `RedirectsKept`: an action's redirect never gives way to a revalidation.
- `ShownInTheEnd`: under fairness every change told is read in the end.

`FailuresOverlap` says whether an action may fail while another load is under
way. With it (`MCRevalidationRefused.cfg`) `NothingMissed` fails: see Findings.

### FolderSync

A file is a path (a directory, a name, and which copy of that name) and what it
says: a request, the folder's or the collection's own file, something foreign,
something that does not parse. One folder and one level stand for the tree, a
text for all other fields. A reconcile is cut where it awaits between reads: it
reads the folder and the documents (`Read`, or `Start`), takes in (`TakeIn`),
reads both again and plans (`Plan`), and writes (`Write`). The user and the app
act between any two. Writes concern each file apart, so an edit amid them comes
to one before or after. Editing, moving, copying, deleting, spoiling and
creating files are the user's actions (external); the app edits, creates,
moves, renames and deletes documents.

For the properties the model keeps what each document was when the two were last
in step (`was`), the last value the app (`mine`) and the user (`theirs`) gave it
since, and whose change by the app had not reached the folder when the app quit
or when the write of it failed (`behind`).

- `InStep`: at rest, each file that is not left alone is what the documents make
  of it, and no other is there. Exempt are files that were there when the app
  started and that it could not read yet (`NotYetRead`, see Limits).
- `LatestWins`: at rest each request is the last that the app or the user made of
  it, or what it was if neither touched it: nothing older comes back, on either
  side. It is of the requests that are not `behind`; `LatestAlwaysWins` is of
  those too, and does not hold (Finding 14).
- `OthersKept`: no file that is not the sync's, or that changed and was not taken
  in, is written over or removed, by what is there when the file is written. The
  run has the user change nothing between `writeOut`'s read of the folder and its
  writes (`Overtaking = FALSE`); with such a change it fails (Finding 13).
- `Settles`: the sync comes to rest, though it hears its own writes.

`InStep` is proved with `Overtaking` too.

### McpClient

One request's entries in `connecting` and `connections`, the clients outside
them, and each call of connect or disconnect as the places between its awaits.
The window makes some calls, an agent of the automation server the others. What
the main process tells the window arrives in order. Calls of tools, prompts and
resources change none of this and are left out.

- `OneConnection`: a client whose server accepted it is the request's
  connection, or some call is about to close it.
- `StopIsFinal`: what a stopped connect opens never becomes the connection.
- `ShownIsThere`: with nothing under way, a connection the window shows is there.
- `ConnectingEnds`: the window is not left showing "Connecting", whatever an agent
  does meanwhile, unless an agent's call stopped a connect of the window's (`cut`,
  see Limits).

`Amid` lets a call come while another loads the SDK or closes an earlier
connection; FALSE in the run, see Limits.

### TeamServer

The store's tables of accounts, collections and members, the repository at each
collection's path, the API's calls with what they read at sign-in and use after
their body has come, and pushes: the refs before, git's own process, the refs
after. Git moves a ref only from the commit its client saw. Wherever the code
refuses a call, the call's step is not enabled and `Refuse` ends it.

An admin command runs in a process of its own, and its check and its write are
statements of their own without a transaction (`store.ts` 181-197): two steps,
between which the server's calls and other commands write. The server's own check
and write are one step: they have no `await` between them, and a command that does
come between leaves what it leaves when it has checked before both and writes
after them.

- `SomeoneManages`: there is an admin, and so everyone's collections have
  someone who may manage them, whichever calls overlap, and until a command takes
  an admin away on a count that another has crossed since (Finding 15).
- `PushesInLog`: every commit a push put on a ref is in an entry of the log, as
  the one moved to or, by a push that overlapped, moved from; not when a
  collection or the server went under a push.

### WriteLog and CollectionReader

A document is its parent and the number of its last write. `Wrote` appends to
the log and cuts it to the last `WritesKept` when it has more than twice as
many; `Kept(n, k)` says how many are left after `k` more. `PutInVain` is a write
that is logged and changes nothing (an update of a row that is gone, or one
rolled back), `RemoveInVain` a removal that is logged and rolled back, when its
COMMIT throws (`sqlite-store.ts` 456, 468-470): its documents are there (`undone`),
and the log says they are not. `ChangesSince` is the last write per id.

Every query of the loader is a step; between any two the store may be written.
One request type stands for the four, and one type of metas for two, whose
handling is the same; the steps of `readChanges` that have nothing to fetch are
steps all the same; the epoch that tells one process's store from another's is
left out. Sorting is left out.

- `LogTellsAll`: what `changesSince` tells is exactly the ids written since,
  each once, and no document is left of one it calls removed, unless its last
  write is a removal rolled back.
- `GivesWhatReadingItAllGives`: the tree the loader builds from its last read is
  the database's, for every document not written since the read's stamp, unless
  a folder was (after which all is read again), and but for a document whose
  removal was rolled back; without that it fails (`GivesAllThatIsThere`, Finding
  16). `TreeFolders` is the tree's least fixed point, written without recursion.

### CredentialGuard

A launch finds a keychain: one of two keyrings, the weak fallback, or one that
refuses, and it may stop answering after some keys. A ciphertext is what it
opens to, its key and its envelope's version; keys are numbered. The data folder
is one from before encryption or one of version 1. What `load` decides is
`StandsInFor` (a weak key does not stand in for a keyring's) and `StartsOver`
(none opens: a new one is made only when nothing is merely locked).

- `NothingLost`: what was saved is on disk, in an envelope and under a key that
  are still accepted, until it is replaced or cleared by somebody who saw it.
- `ReadsBack`, `SealedUnderCurrent`, `NoNewPlaintext`: what opens reads as
  saved; after the startup pass nothing that can be sealed is plain or under an
  older key; no step writes plaintext.
- `KeyringNotDowngraded`, `KeyringComesBack`: a keyring's key is not replaced by
  the fallback's, and is used again when its keyring is back.

### WebSocketConnection

All maps are keyed by the request's id, so one request is modelled and each map
is one variable. Calls of `openWebSocketConnection` are numbered; a call's
socket, streams and `Reconnects` entry bear its number, which is how "the code
compares entries by identity" is kept. The steps of a call are its awaits:
reading the request, the environment, then certificates, settings and proxy.

Overlapping opens break most of what the maps are for
(`MCWebSocketConnectionShown.cfg` shows one way), so the properties of the maps
are stated for behaviours without (`~overlapped`); `StatusIsShown` holds with
them.

- `Tracked`: a live socket is in its map, an open log file has its connection.
- `NotForgotten`, `DropSettled`: a connection that dropped is being decided
  about, waits or is being opened, and in the end is open or given up.
- `AttemptsRunOut`: no more reconnects than the setting's `maxAttempts` without
  a stable connection.
- `CloseIsFinal`: Disconnect, with no call in its awaits, is final.
- `StatusIsShown`: the windows' last broadcast agrees
  with the maps.

Frames, authentication, redirects and what is written to the log are left out.

### Snapshots

What a database holds is a number, a new one with every write; the write-ahead
log holds what both hold and the database it is of. Each rename and each `await`
of a call and of a launch is a step. An operation on a file may fail, and a
launch may end at any step; the app may quit at any time while calls are under
way. A database opened without a main file is a new one, whatever log lies
there (SQLite).

- `NeverMixed`: a log is never opened with a database it is not of, however many
  crashes and failures.
- `RestorePointsKept`, `DailyHistoryKept`: the snapshot to restore, the one
  taken before it and the newest daily ones of all that were put in place are
  there, whichever calls overlap, but for those that another call's pruning
  removed without knowing what they are for (`missed`): put in place after it had
  listed the names, or about to be restored by another call. Finding 10 is of
  those; with one call at a time there are none (`RestoreCanBeUndone`).
- `OpensRestoredOrAsBefore`: a launch opens the snapshot asked for or the data
  as it was, whatever crashes, or with one failure. With a crash *and* a failure
  it does not: what the first launch moved aside the second does not know of
  (`moved` is its own), and when its copy of the snapshot fails it moves nothing
  back, removes the marker and opens an empty database, with the data still in
  `insomnia.sqlite.replaced`.

Left out: the `-shm` file (SQLite rebuilds it), names that collide within one
second, markers that name no snapshot, power loss. `prune`'s `readdir` and the
removals after it are one step; so are writing the marker and exiting.

### UpgradeBackup

The data is the number of its last change. A copy is what it holds, the version
in `.copied-before` (0 while unmarked) and its time. A failure at any step makes
the launch go on to open the data, as the code's outer `catch` does; a failure
to copy records the version instead. What a launch reads before it copies may
fail, too (`misread`): the version recorded and the marks count as none then; a
data folder that cannot be listed ends the backup, with no copy and no version
recorded (`backup.ts` 126, to the `catch` at 147). Copying several files is one step with an
unmarked copy before it and a marked one after it. The folder of the snapshots
is one of the folders pruned.

- `CopiedBeforeOpened`: a backup marked with the version in use holds what the
  data was before that version opened it, whichever launch finished it. A fresh
  install is exempt, and so is a history in which two things failed (a launch
  that could neither copy nor record its version opens the data all the same, and
  the next launch of that version copies what it finds then), or in which a launch
  could not read what it goes by (`unread`; Finding 17).
- `UpgradeIsBackedUp`: without failures, once a version runs some finished backup
  holds the data from before.
- `SnapshotsKept`: pruning the backups does not remove the snapshots.

## 3. Runs, bounds and what they show

| Run | Result | Bounds |
|---|---|---|
| `change_feed` | holds, safety, liveness and the refinement of `ChangeFeed` | 3 changes, 2 buffers, the hooks and one listener that may reject, one window: two buffers overlap, and a third batch overtakes two |
| `ws_connection` | holds, safety and liveness | 4 calls, 2 where a call begins before an earlier one is over, 2 attempts: a first connection, its reconnects until the attempts run out, a Connect by hand in between, and two calls that overlap |
| `credential_guard` | holds | 3 launches, 3 keys, 2 keyrings, the fallback and a refusing keychain, 2 fields (one a legacy certificate), 2 values: a key can be made, left behind and come back to |
| `collection_reader` | holds | the union of seven instances: a folder and a request, or a request and its meta, with 3 writes; a folder, a request and its meta, or a folder and its meta, or two folders and a request, with 2 writes; two loads at once, of a request and its meta with 2 writes and of a folder with one. 1 write kept (so 2 at most), which makes the log unable to tell within 3 writes |
| `snapshots` | holds | two calls that overlap, 1 snapshot of each kind kept, 3 taken, 2 writes, 1 crash, 1 failure: a pruning and a snapshot taken meanwhile, and one more of a kind than is kept |
| `upgrade_backup` | holds | 3 versions, none followed by an older one, 5 launches, 2 crashes, 2 failures, misreadings among them (one more than `CopiedBeforeOpened` allows for), 3 backups kept as in the code |
| `revalidation` | holds, safety and liveness | 3 changes, one of them of a type that is not shown, 2 fetchers, 2 actions, 1 navigation: an action submitted over another, a redirect, and a change that comes during the load after the first |
| `folder_sync` | holds, safety and liveness | two requests of one name and an empty folder, 3 ids, 4 copies of a name, 2 texts, 1 edit in the folder, 1 in the app, 1 quit or failing write: each edit meets the other, and the fault, at every step of the reconciles they cause |
| `mcp_client` | holds | 2 connects and a disconnect of the window, a connect of an agent, 1 time off screen: a connect is stopped by another and by a disconnect, at either transport |
| `team_server` | holds | 2 people, a collection made up to twice, 3 calls, 1 command in two steps, 2 pushes to one branch, 5 of the six in all: two demotions and a removal at once, a collection deleted and made again under a push |
| `folder_sync_failed` | **violated** | 1 request, 1 edit in the app, a failing write and a quit |
| `upgrade_backup_snapshots` | **violated** | 4 versions, no crash, no failure |

The bounds are in the guards of the actions that use them up (`MaxChanges`,
`MaxBuffers`, `MaxOpens`, `MaxOverlapped`, `MaxKeys`, `MaxLaunches`,
`MaxVersion`, `Instances`, `MaxTaken`, `MaxWrites`, `MaxCrashes`, `MaxFailures`,
`MaxActions`, `MaxNavigations`, `MaxUser`, `MaxApp`, `MaxFaults`, `MaxLeaves`,
`MaxRepos`, `MaxBegun`, `Commands`, and the sets of calls and pushes), and deadlock is not
checked, because a system may stop: when a bound is reached, and because an app
with nothing to do does nothing. In `FolderSync` the sync stops, too, when the
bound's ids or names run out (`IdsLeft`, `NamesLeft`); `Settles` says so.
Symmetry is used over keyrings, loads, calls and pushes, and only in runs
without liveness.

More configurations are kept for use by hand:

    tlc -config MCFolderSyncEdits.cfg MCFolderSync       # two edits in the folder and one in the app: holds
    tlc -config MCFolderSyncRenamed.cfg MCFolderSync     # RenamesKept fails
    tlc -config MCFolderSyncForeign.cfg MCFolderSync     # GoesWithItsOwnFile fails
    tlc -config MCFolderSyncOthers.cfg MCFolderSync      # OthersKept fails, with Overtaking
    tlc -config MCFolderSyncLatest.cfg MCFolderSync      # LatestAlwaysWins fails
    tlc -config MCRevalidationRefused.cfg MCRevalidation # NothingMissed fails
    tlc -config MCMcpClientShown.cfg MCMcpClient         # AgentsConnectionIsShown fails
    tlc -config MCTeamServerLog.cfg MCTeamServer         # LogsItsOwn fails
    tlc -config MCTeamServerCommand.cfg MCTeamServer     # AnAdminStays fails
    tlc -config MCWebSocketConnectionShown.cfg MCWebSocketConnection   # OpenIsShown fails
    tlc -config MCWebSocketConnectionClosed.cfg MCWebSocketConnection  # UserCloseIsFinal fails
    tlc -config MCCredentialGuardSession.cfg MCCredentialGuard         # SessionReadsBack fails
    tlc -config MCCollectionReaderUndone.cfg MCCollectionReader        # GivesAllThatIsThere fails
    tlc -config MCSnapshotsUndo.cfg MCSnapshots                        # RestoreCanBeUndone fails
    tlc -config MCUpgradeBackupAgain.cfg MCUpgradeBackup               # UpgradeIsBackedUp fails
    tlc -config MCUpgradeBackupUnread.cfg MCUpgradeBackup              # NotTriedAgain fails

### Fairness

`ChangeBuffer`: timers that are set fire, and the promise of a listener settles
one way or the other. Nothing is assumed of who opens or closes buffers; the
property asks for behaviours that do not keep a buffer without a timer open for
ever (only the tests call `bufferChangesIndefinitely` so far).
`WebSocketConnection`: timers fire; the database answers; preparing a connection
ends or throws; a socket that connects or closes gets there or fails. That the
server accepts, or a drop happens, is not assumed.
`Revalidation`: an action settles in one of its four ways and a load ends, as
the promises of the router do; that a change is made or told is not assumed.
`FolderSync`: the timer fires and a reconcile goes on to its end, as long as the
app runs; nothing is assumed of the user, the app, a write that fails or a
start after a quit.

### Findings

What the code's comments or docs say and a run shows not to hold. The first two
are runs of the project, the others are checked by hand with the configurations
above.

1. `folder_sync_failed`: `writeOut` records in `folderSyncIds` the ids of every
   file it meant to write (`folder-sync.ts` 358-366), also of one whose write
   failed. If the app then quits, the next start takes the request for one whose
   file was deleted and removes it (266-277). `docs/folder-sync.md`: "A request
   goes from the collection only when its file is deleted."
   It takes no failure either (`MCFolderSyncLatest.cfg` with its last property):
   the app moves a request, so that another of its name is renumbered and written
   over its old file; a quit before the new file is written leaves it none, and the
   next start removes it.
2. `upgrade_backup_snapshots`: `pruneBackups` takes `backups/snapshots` for a
   backup. After upgrades with no snapshot between them it is the oldest folder
   and is removed with all the snapshots in it.
3. `RenamesKept`: `takeIn` records every file it takes in except the
   collection's own (`folder-sync.ts` 218-224, 238-241). Once its title was
   edited in `insomnium.yaml`, that file counts as changed at every reconcile and
   is taken in again, so a later rename in the app is undone until a restart.
4. `NothingMissed` with `FailuresOverlap`: a change comes while an action is
   under way that is then refused (4xx), and a load begun before the change ends
   meanwhile. The subscriber sees an action's load begin and the routes' data
   replaced, takes the change for read, and revalidates nothing; the comment
   (`revalidate-on-changes.ts` 24-34) says it is revalidated once the window is
   idle unless an action's load has read it.
5. `AgentsConnectionIsShown`: when an agent connects a request, nothing tells
   the window. `docs/mcp-requests.md`: "An agent connected to the automation
   server can open the same connection and call the same tools; the app's window
   shows it."
6. `LogsItsOwn`: of two pushes that overlap, each logs the refs the other moved
   between its two readings as its own (`git-http.ts` 2-3: "A push is logged with
   the refs it moved").
7. `OpenIsShown`: `websocket.ts` 178 checks for a connection before its
   awaits and registers the socket after them (343). Of two overlapping opens the
   first socket is out of the map when the second registers; one's close removes
   the other's entry, and a socket stays open that every window shows as closed.
8. `UserCloseIsFinal`: Disconnect removes the `Reconnects` entry, but a
   reconnect whose timer has fired looks at none again and opens its socket.
9. `SessionReadsBack`: with the keychain unavailable, a value equal to the one
   stored in plaintext leaves the field's earlier session value in place: enter
   `b` over a stored `a`, then `a`, and the field reads `b`.
10. `RestoreCanBeUndone`: `prune` keeps what it listed first and removes whatever
    else it finds after two awaits, a snapshot just renamed into place by another
    call too: the one that makes a restore undoable, for instance. By the same
    race the snapshot a restore waits for is removed, by a pruning that read the
    marker before it was written.
11. `UpgradeIsBackedUp` with downgrades: after an upgrade, a downgrade and the
    same upgrade again, the first upgrade's backup is taken for this one's, and
    nothing is copied. `CopiedBeforeOpened` fails with downgrades for the same
    reason: a launch that crashed before it recorded its version leaves a backup
    marked with it, and an older version may run before that version comes back.
    Hence `MayDowngrade = FALSE` in the run and in the theorems.
12. `GoesWithItsOwnFile`: at a start every file of a folder that has a
    `_folder.yaml` is marked `UNREAD`, another's too (`folder-sync.ts` 112-116,
    whose comment speaks of "the collection's files it couldn't read"). `UNREAD`
    is an entry of `written`, so `writeOut` no longer reserves its name: a new
    request of that name is given the path, is not written, since the file there
    is pending, and counts as held by it. Deleting the other file then removes the
    request from the app. `docs/folder-sync.md`: "A request goes from the
    collection only when its file is deleted."
13. `OthersKept` with `Overtaking`: `writeOut` compares with what it read before it
    wrote the first file (`folder-sync.ts` 323), so an edit made meanwhile is
    written over and lost.
14. `LatestAlwaysWins`: an edit in the app less than 300 ms before a quit has not
    been written; the next start takes in the older file over it. A failed write
    does the same: it drops the path from `written` (330-366), so that the next
    reconcile takes in the old file. `docs/folder-sync.md`: "The latest change
    wins".
15. `AnAdminStays`: a command counts two admins, a call (or a second command)
    demotes one, and the command's write demotes the other. `store.ts` 183: "The
    last admin stays an admin"; 181-197 check and write without a transaction, and
    `index.ts` 187-191 runs commands in a process of their own.
16. `GivesAllThatIsThere`: `removeByIds` logs a removal before its COMMIT; one that
    throws is rolled back and stays logged, so a loader drops a document that is
    there, until it is written again or all is read. `workspace.tsx`: "what it
    gives must be what reading it all gives".
17. `NotTriedAgain`: of a copy that fails, `backup.ts` 136-138 says that it is
    given up, as "a copy taken by a later launch would not hold the data from
    before the upgrade". But listing the data folder (126) is outside that `try`:
    when it fails, nothing is recorded, and the next launch copies, and marks as
    from before, the data this version has opened. A `last-run-version` that could
    not be read (112) makes one too.

### Limits

Behaviours the checked instances leave out because a property does not hold in
them; each was seen in TLC with the constant set the other way, or read in the
code where no constant stands for it.

*Folder sync.* `Overtaking`: besides Finding 13, a file removed between a
reconcile's two reads of the folder is written back, and an edit in a directory
whose `_folder.yaml` is being written is lost. Starts without a collection's file
that reads are left out (`Start`); read in the code: with `insomnium.yaml` gone or
unreadable, no file is the sync's, and the folders and requests are written again
beside them, under names with "(2)" that `unique` finds free (`layout.ts` 82, 123).
Read in the code, too: after a write that failed nothing retries; a quit amid the
writes of a move leaves both files; a request moved into a folder deleted meanwhile
has no parent any more; edits during `start()` are not heard; `stop()` does not
wait for a reconcile that runs. Seen in TLC: when, while the app is closed,
`_folder.yaml` is deleted and another file is spoiled, the start keeps the folder
(`removeMissing` is skipped, as a file failed) and writes `_folder.yaml` again
before it watches, so the folder's files stay unread until the next change, and
their requests are written a second time with "(2)" (`NotYetRead`); and a document
whose file was deleted in that time stays, and its file is written again. The
latter breaks `LatestWins`, and takes two edits and a quit, one edit more than
`folder_sync` has. Where an edit leaves open what the user makes of a request (its
file reads no more, or there are two, or another's is in its place), any value of
it counts as the user's (`Says`).

*MCP client.* `Amid`: two connects that overlap while the SDK loads or an old
connection closes both register, and the first client stays open in no map
(`mcp-client.ts` 113); a disconnect in the same place comes too early to stop
the connect (see `StopIsFinal`). A window's connect that an agent's call stops
leaves "Connecting" (`mcp-request-pane.tsx` 62-65 shows nothing for "Stopped
connecting", and the agent's call answers the agent), hence `cut` in
`ConnectingEnds`. A closing told
while the pane is off screen is not heard (`mcp-connection.ts` 38), hence
`unheard`. A listing that fails after the client was registered leaves it
connected and shown as failed.

*Team server.* A collection deleted under a push makes the reading of its refs
throw in an event handler, which stops the server (`Close`, `Restart`). A create
whose owner's account went while its body was read leaves a collection without
an owner, and one whose `git init` fails leaves a folder that takes the name.

## 4. What is proved

Each theorem holds for every value of the constants: any number of listeners,
windows, calls, documents, readers, keys, launches, crashes, failures, and so on.
What each module assumes of its constants is its named `ASSUME`s (sets that are
not empty, bounds that are numbers), which TLC evaluates in the module's run.
Where a theorem holds only for one value of a constant that says what may
happen, it says so itself, and the counterexample for the other value is among
the Findings and Limits.

| Module | Theorem | Says | Only where |
|---|---|---|---|
| `ChangeBuffer_proofs` | `TypeCorrect` | `Spec => []TypeOK` | |
| | `NeverStranded` | `Spec => []NothingStranded` | |
| | `HooksHearInOrder` | `Spec => []HooksHearAllInOrder` | |
| | `NobodyIsToldTwice` | `Spec => []ToldOnce` | |
| | `OverlapsAreKept` | `Spec => OverlapsCoalesce` | |
| | `ImplementsFeed` | `Spec => KeepsThePromise` | |
| `WindowLoads_proofs` | `LogTold` | `Spec => []LogTellsAll` | |
| | `GivesTheTree` | `Spec => []GivesWhatReadingItAllGives` | |
| | `NothingMissedAlways` | `WindowSpec => []NothingMissed` | `FailuresOverlap = FALSE` |
| | `RedirectsKeptAlways` | `WindowSpec => []RedirectsKept` | |
| `McpClient_proofs` | `OneConnectionHolds` | `Spec => []OneConnection` | `~Amid` |
| | `StopIsFinalHolds` | `Spec => StopIsFinal` | `~Amid` |
| | `ShownIsThereHolds` | `Spec => []ShownIsThere` | `~Amid` |
| | `ConnectingEndsHolds` | `Spec => []ConnectingEnds` | |
| `CredentialGuard_proofs` | `NothingIsLost` | `Spec => []NothingLost` | |
| | `ReadsBackAlways` | `Spec => []ReadsBack` | |
| | `AllSealed` | `Spec => []SealedUnderCurrent` | |
| | `NotDowngraded` | `Spec => []KeyringNotDowngraded` | |
| | `NeverInPlain` | `Spec => NoNewPlaintext` | |
| | `ComesBack` | `Spec => KeyringComesBack` | |
| `WebSocketConnection_proofs` | `ConnectionsTracked` | `Spec => []Tracked` | |
| | `NeverForgotten` | `Spec => []NotForgotten` | |
| | `ReconnectsRunOut` | `Spec => []AttemptsRunOut` | |
| | `ClosedForGood` | `Spec => []CloseIsFinal` | |
| | `StatusShown` | `Spec => []StatusIsShown` | |
| `SharedCollections_proofs` | `SomeoneAlwaysManages` | `Spec => []SomeoneManages` | |
| | `EveryPushInLog` | `Spec => []PushesInLog` | |
| | `SyncSafe` | `SyncSpec => []SyncInv` | |
| | `InStepAlways` | `SyncSpec => []InStep` | |
| | `OthersKeptAlways` | `SyncSpec => OthersKept` | `Overtaking = FALSE` |
| | `EachHasItsFile` | each document's file in `CollectionFiles` is at a path of its own, not reserved | the names suffice (as in `NamesLeft`) |
| `Snapshots_proofs` | `LogIsTheDatabases` | `Spec => []NeverMixed` | |
| | `RestoredOrAsBefore` | `Spec => []OpensRestoredOrAsBefore` | |
| | `RestorePoints` | `Spec => []RestorePointsKept` | |
| | `DailyHistory` | `Spec => []DailyHistoryKept` | |
| | `UndoneOneAtATime` | `Spec => []RestoreCanBeUndone` | `OneAtATime` |
| `UpgradeBackup_proofs` | `MarksAreTrue` | `Spec => []CopiedBeforeOpened` | `MayDowngrade = FALSE` |
| | `UpgradesAreBackedUp` | `Spec => []UpgradeIsBackedUp` | `MayDowngrade = FALSE` |

Hardly any of these properties is inductive. For each there is an invariant that
is, shown to hold at first, to be kept by each action (one lemma per action or
kind of action) and to imply the property. The arguments:

*The change feed.* A flush needs a listener to begin with: `Inv` adds
`HooksFirst`, that the hooks are registered first and stay there. Then only
`flushChanges` closes a buffer, and it drains when the last one closes. For the
order, `Ordered` ties the hooks' history to the numbers announced, less what is
buffered or dropped. For `ToldOnce`, `Separate` says that the batches under way
hold different changes, and that none of them is one a listener left in that
flight has heard. The refinement maps each step: a flush that drains to
`ChangeFeed`'s `SendOut`, the last listener's answer to `Tell`, a rejection to a
loss, and the others to stutters.

*The log.* `LogTellsAll` says nothing of what a cut log holds beyond the stamps
it can answer for. `LogInv` says where each entry is: the kept writes are the
last ones, contiguous; no id has an entry later than `lastWrite` says; the entry
there is that id's, with no document left when it was a removal that was not
rolled back.

*The reads.* `ReadInv` says of each load, at each of its steps, which of its maps
agree with the database on every document not written since the read's stamp
(`Sound`); when the load ends, all do (`Full`). A write only makes documents
written. A query of the loader makes one map agree, for the parents or ids it
asks for. A load that asks for changes starts from a full read and is told of
all that was written since (by `LogInv`), so what it does not fetch again is as
it was. That both trees are the same follows from `TreeFolders` being a least
fixed point: each is closed under what the other adds.

*The revalidation.* A window that is told of a change while it is idle reads it
at once; the others must be accounted for until the window is idle. `Reading`
says that once a load has begun since, everything told is read, or a load of
every route that reads it is under way, or an action that was submitted over
such a load is still to settle, or what loads now loads nothing and leaves the
routes' data as it was (so the subscriber, finding it unchanged, revalidates).
Two more facts carry it. `ReadInOrder`: a load of every route that ends drops
the older ones, and has read no less than they, as loads begin in the order they
read; the navigation that does not load every route begins only when no other
load is under way. `Submitting`: an action that fails was alone since it was
submitted, so nothing else is under way that its failure could be taken for.
What goes through the subscriber keeps `Reading` by one lemma
(`SubscriberReads`), whose premises each action is shown to meet. `RedirectsKept`
needs only that a revalidation is started by the listener in an idle window, in
which no action is under way, so it holds whichever actions fail.

*The MCP client.* A client is a call and the transport it tries. `ConnInv` says
that while a client connects the request has no connection, that one call at a
time takes earlier ones away (`Single`, which is what `~Amid` is for), and that a
stopped connect's client is not the one that is connecting (`StoppedIsOut`). For
the window, `ShownInv` says what the messages on their way will leave it showing,
and `Awaited`, whose proof needs no `~Amid`, that a window that shows
"Connecting" has an answer coming, or had its connect cut.

*Credentials.* `Inv` says what is on disk between the operations (`Contents`:
what was saved is stored, its key is among those stored, nothing that can be
sealed is not) and how the stored keys are wrapped (`Wraps`: the fallback's are
known to be weak, and no weak key follows a keyring's). That `load` finds a newest
key among those that open is the well-foundedness of the numbers (`NewestFacts`).

*WebSockets.* `Stages` says what a call's socket and streams can be at each of
its awaits, `Entries` what the maps' entries refer to. Those hold with calls that
overlap; `Apart`, that only the last call is unfinished and has the maps, and
`Attempts`, that nothing else reconnects while a call is on its way, without.
`StatusIsShown` rests on the first two and on `Told`, that a window shows
Disconnect only with something under way.

*The team server.* A call that takes an admin away counts the others in the same
step; a command counted them in an earlier one. `AccountsInv` therefore says of each
command that has counted, and whose count nobody has crossed, that there is
another admin still than the one it takes away; it holds until a command writes
late. For the log, a commit is where its
push, still under way, will find it after git is done, or is what another push
under way moved the ref from, or is logged (`Accounts`); since git puts a push's
commit on a ref once, a ref that left a commit does not come back to it
(`CommitsMoved`).

*The folder sync.* `InStep` says nothing but at rest, so `SyncInv` says at each
step what the sync has in hand as long as no edit is still to be heard of and no
write failed: what it read is what is there (`Looked`); each file is as it was
written or taken in, or cannot be (`Taken`); the plan is made of the files and
the documents as they are (`Planned`); the writes done, the two are in step
(`Agreed`). For that the folder's own changes must not go unheard
(`FolderKnown`). `Alone` says what holds while the app is off and starts, when
nothing hears the user, and `FixedNames` whose the two files are whose names are
not chosen. `WritesAgree` and `WritesKeepOthers` treat the writes of all
files, whichever fail or are cut short by a quit, at once; the latter from
`Undisturbed`, that without `Overtaking` what is to be written over is still as
`writeOut` read it. The names rest on
`unique`: the k-th request of a name takes the k-th number that is not reserved
(`Nth`), so each has a rank of its own, and `EachHasItsFile` shows that each
document has a file to itself at a path that was free.

*Snapshots.* A restore goes on to put the snapshot in place or moves back what
it moved aside, so the invariant says of each step what it would move back: the
log is the database's (`Matched`), and it is the data as it was, unless a launch
crashed and nothing failed (`AsItWas`). For the pruning, `PlacedInv` says that
what a call listed was put in place, and that what it keeps are the newest of
those: so a pruning removes one of the newest only if it was put in place after
the listing, or is to be restored by another call, and then it is `missed`.
`TakenInv` says, of one call at a time, that it listed all there is.

*Backups.* `FromBefore` says what a copy marked with a version holds until and
after that version opens the data; `NotAgain`, that a version that has opened
the data does not copy it again unless two things failed or a launch could not
read what it goes by; `BackedUp`, that
without failures the backup is there from when the version is recorded.

Only model-checked:

- liveness (`ReachesWindows`, `DropSettled`, `ShownInTheEnd`, `Settles`), as nothing
  about fairness and `ENABLED` can be proved here;
- `LatestWins` of `FolderSync`: it relates each document to the last edit of
  either side, so an inductive invariant has to say of each file in the folder
  which edits it stands for, through copies, moves and new ids. It is not true
  for every value of the constants either (Finding 12, Limits), so there is no hypothesis,
  short of the bounds themselves, to prove it from;
- what the runs find violated, and the properties checked by hand.

## 5. Plan

1. *Done*: `ChangeBuffer` implementing `ChangeFeed`, `WriteLog` with
   `CollectionReader`, `CredentialGuard`, `WebSocketConnection`, `Snapshots`,
   `UpgradeBackup`, `Revalidation`, `FolderSync`, `McpClient`, `TeamServer`.
2. *Done*: the theorems of section 4.
3. `DatabaseWrites`: the facade's operations with their awaits over `WriteLog`
   and `ChangeFeed`.
4. `EventStream`, `GrpcCall`, `Cancellation`: maps keyed by request with awaits
   before registration, and an abstract specification of such a connection
   (closed, opening, open; closed is final until opened again) that each, and
   `McpClient` and `WebSocketConnection`, implement as far as they do.
5. The pure algorithms (`merge-docs`, `spec-sync`, MQTT packet ids) against
   reference definitions; the rest of the team server (tokens, the limiter).
6. `Launch`: `Snapshots` and `UpgradeBackup` composed in the order of
   `main.development.ts`, sharing the data folder; environments and examples in
   `FolderSync`.

The models cover a small share of the repository's lines: most of those are
vendored (`bin/yarn-standalone.js`, more than half of them), rendering
(`ui/components`, `ui/routes`), format conversions (`utils/importers`) and calls
of libraries, which keep no state of their own between two steps.
