----------------------------- MODULE TeamServer -----------------------------
(***************************************************************************)
(* The team server (server/team): its accounts, its collections with their *)
(* members and repositories (store.ts, api.ts), and the pushes that git's  *)
(* own processes carry out and the server logs (git-http.ts).              *)
(*                                                                         *)
(* The server is one thread: an action is what a request does between two  *)
(* awaits (its sign-in, which checks a password off the thread, and its    *)
(* body).  Git's processes run beside it; git is external: it opens the    *)
(* repository at the path it is given, and moves a ref only from the       *)
(* commit its client saw there.  An admin command runs in a process of its *)
(* own, on the same database: the server and other commands may write to   *)
(* it between its check and its write, which are no transaction.  (A       *)
(* command's write between the server's own check and write leaves what it *)
(* would leave before the one or after the other.)                         *)
(***************************************************************************)
EXTENDS Integers, FiniteSets

CONSTANTS
  Users, Slugs, Refs,
  FirstAdmin,  \* the account of the first start
  Granted,     \* bound: the roles that are given
  Calls,       \* bound: the API's calls
  Commands,    \* bound: the admin commands
  Pushes,      \* bound: pushes; each brings a commit of its own, or deletes its ref
  MaxRepos,    \* bound: repositories made
  MaxBegun     \* bound: how many of the calls, commands and pushes are begun

ASSUME FirstAdminAssumption == FirstAdmin \in Users
ASSUME GrantedAssumption == Granted \subseteq {"viewer", "editor", "owner"}
ASSUME BoundsAssumption == MaxRepos \in Nat /\ MaxBegun \in Nat

VARIABLES
  account,      \* each name's: none, user or admin
  collections,  \* the slugs the store has
  member,       \* each collection's roles, by name
  repo,         \* the repository at a slug's path
  refs,         \* each repository's refs, wherever it has been moved
  requests,     \* the API's calls under way
  pushes,       \* the pushes under way
  log,          \* the audit log's pushes
  up,           \* whether the server runs
  made,
  commands      \* the admin commands under way

store == <<account, collections, member>>
repositories == <<repo, refs, made>>
vars == <<store, repositories, requests, pushes, log, up, commands>>

None == "none"
Repos == 1..MaxRepos
Rank == [none |-> 0, viewer |-> 1, editor |-> 2, owner |-> 3]
Commits == Pushes \cup {None}

\* What a call asks for
Asks ==
  [do : {"create", "delete"}, slug : Slugs]
    \cup [do : {"set"}, slug : Slugs, user : Users, role : Granted]
    \cup [do : {"unset"}, slug : Slugs, user : Users]
    \cup [do : {"add", "admin"}, user : Users, admin : BOOLEAN]
    \cup [do : {"remove"}, user : Users]

Idle == [at |-> "idle"]
Done == [at |-> "done"]

Init ==
  /\ account = [u \in Users |-> IF u = FirstAdmin THEN "admin" ELSE None]
  /\ collections = {} /\ member = [s \in Slugs |-> [u \in Users |-> None]]
  /\ repo = [s \in Slugs |-> 0] /\ refs = [r \in Repos |-> [f \in Refs |-> None]] /\ made = 0
  /\ requests = [c \in Calls |-> Idle]
  /\ pushes = [p \in Pushes |-> Idle]
  /\ log = {} /\ up = TRUE
  /\ commands = [k \in Commands |-> Idle]

(***************************************************************************)
(* The store                                                               *)
(***************************************************************************)
Has(u) == account[u] # None
Admins == {u \in Users : account[u] = "admin"}
Owners(s) == {u \in Users : member[s][u] = "owner"}

\* roleOf: of a user as its sign-in read it, who may be an admin no longer
RoleOf(u, isAdmin, s) ==
  IF s \notin collections THEN None ELSE IF isAdmin THEN "owner" ELSE member[s][u]
AtLeast(role, needed) == Rank[role] >= Rank[needed]

SetRole(s, u, role) ==
  /\ s \in collections /\ Has(u)
  /\ ~(role # "owner" /\ Owners(s) = {u})   \* the last owner stays
  /\ member' = [member EXCEPT ![s][u] = role]
  /\ UNCHANGED <<account, collections, repositories>>

RemoveMember(s, u) ==
  /\ Owners(s) # {u}
  /\ member' = [member EXCEPT ![s][u] = None]
  /\ UNCHANGED <<account, collections, repositories>>

\* Mutant: that nobody removes themselves is taken to be enough
RemovesAny(ask) ==
  \/ ask.do = "add" /\ ~Has(ask.user)
  \/ ask.do = "admin" /\ ~(~ask.admin /\ Admins = {ask.user})
  \/ ask.do = "remove"

\* What addUser, setAdmin and removeUser look at before they write: the last
\* admin stays one
Passes(ask) ==
  \/ ask.do = "add" /\ ~Has(ask.user)
  \/ ask.do = "admin" /\ ~(~ask.admin /\ Admins = {ask.user})
  \/ ask.do = "remove" /\ Admins # {ask.user}

\* and what they write: an INSERT of a name that is there fails, and an UPDATE or
\* a DELETE of one that is not changes nothing, and throws (memberships go with
\* their account: ON DELETE CASCADE)
Writes(ask) ==
  /\ (ask.do = "add") # Has(ask.user)
  /\ IF ask.do = "remove"
     THEN /\ account' = [account EXCEPT ![ask.user] = None]
          /\ member' = [s \in Slugs |-> [member[s] EXCEPT ![ask.user] = None]]
     ELSE /\ account' = [account EXCEPT ![ask.user] = IF ask.admin THEN "admin" ELSE "user"]
          /\ UNCHANGED member
  /\ UNCHANGED <<collections, repositories>>

\* A new collection, on a name and a path that are free; its owner's account may
\* have gone since the sign-in: the collection is then made without an owner
CreateCollection(s, owner) ==
  /\ s \notin collections /\ repo[s] = 0 /\ made < MaxRepos
  /\ made' = made + 1
  /\ repo' = [repo EXCEPT ![s] = made + 1]
  /\ collections' = collections \cup {s}
  /\ member' = [member EXCEPT ![s] = [u \in Users |-> IF u = owner /\ Has(u) THEN "owner" ELSE None]]
  /\ UNCHANGED <<account, refs>>

\* git init fails: its folder stays, and the name is taken
CreateFails(s) ==
  /\ s \notin collections /\ repo[s] = 0 /\ made < MaxRepos
  /\ made' = made + 1
  /\ repo' = [repo EXCEPT ![s] = made + 1]
  /\ UNCHANGED <<store, refs>>

\* The repository is moved to the trash
DeleteCollection(s) ==
  /\ repo' = [repo EXCEPT ![s] = 0]
  /\ collections' = collections \ {s}
  /\ member' = [member EXCEPT ![s] = [u \in Users |-> None]]
  /\ UNCHANGED <<account, refs, made>>

OfAccounts(ask) == ask.do \in {"add", "admin", "remove"}

Does(ask, by) ==
  \/ ask.do = "create" /\ (CreateCollection(ask.slug, by) \/ CreateFails(ask.slug))
  \/ ask.do = "delete" /\ DeleteCollection(ask.slug)
  \/ ask.do = "set" /\ SetRole(ask.slug, ask.user, ask.role)
  \/ ask.do = "unset" /\ RemoveMember(ask.slug, ask.user)
  \/ OfAccounts(ask) /\ ~(ask.do = "remove" /\ ask.user = by) /\ Passes(ask) /\ Writes(ask)

(***************************************************************************)
(* The API                                                                 *)
(***************************************************************************)
InFlight(p) == pushes[p].at = "posted"

\* History: of the commands that may take an admin away, those that have checked
\* that another is left before a call or a command that may, too, writes
TakesAway(ask) == ask.do = "remove" \/ (ask.do = "admin" /\ ~ask.admin)
Crossed(ask) ==
  [k \in Commands |-> IF commands[k].at = "checked" /\ TakesAway(commands[k].ask) /\ TakesAway(ask)
                      THEN [commands[k] EXCEPT !.crossed = TRUE] ELSE commands[k]]

\* History: the pushes whose collection goes, or whose server stops, under them
Cut(cut) == [p \in Pushes |-> IF p \in cut THEN [pushes[p] EXCEPT !.cut = TRUE] ELSE pushes[p]]

MayBegin ==
  LET begun(call, S) == Cardinality({x \in S : call[x].at # "idle"})
  IN begun(requests, Calls) + begun(commands, Commands) + begun(pushes, Pushes) < MaxBegun

SignIn(c, u, ask) ==
  /\ requests[c].at = "idle" /\ Has(u) /\ MayBegin
  /\ requests' = [requests EXCEPT ![c] =
       [at |-> "asked", by |-> u, isAdmin |-> account[u] = "admin", ask |-> ask]]
  /\ UNCHANGED <<store, repositories, pushes, log, up, commands>>

\* requireRole and requireAdmin, as the call comes to be handled
Allowed(request) ==
  LET ask == request.ask
  IN \/ ask.do = "create"
     \/ ask.do \in {"delete", "set", "unset"} /\ RoleOf(request.by, request.isAdmin, ask.slug) = "owner"
     \/ OfAccounts(ask) /\ request.isAdmin

HasBody(ask) == ask.do \in {"create", "set", "add", "admin"}

ReadBody(c) ==
  /\ requests[c].at = "asked" /\ HasBody(requests[c].ask) /\ Allowed(requests[c])
  /\ requests' = [requests EXCEPT ![c].at = "reading"]
  /\ UNCHANGED <<store, repositories, pushes, log, up, commands>>

Handle(c) ==
  LET request == requests[c]
      ask == request.ask
  IN /\ \/ request.at = "reading"
        \/ request.at = "asked" /\ ~HasBody(ask) /\ Allowed(request)
     /\ Does(ask, request.by)
     /\ pushes' = IF ask.do = "delete"
                  THEN Cut({p \in Pushes : InFlight(p) /\ pushes[p].slug = ask.slug}) ELSE pushes
     /\ requests' = [requests EXCEPT ![c] = Done]
     /\ commands' = Crossed(ask)
     /\ UNCHANGED <<log, up>>

\* A call is refused, or its client has gone
Refuse(c) ==
  /\ requests[c].at \in {"asked", "reading"}
  /\ requests' = [requests EXCEPT ![c] = Done]
  /\ UNCHANGED <<store, repositories, pushes, log, up, commands>>

\* insomnium-server team user add, admin, remove: what is to be done is checked
CommandChecks(k, ask) ==
  /\ commands[k].at = "idle" /\ OfAccounts(ask) /\ Passes(ask) /\ MayBegin
  /\ commands' = [commands EXCEPT ![k] = [at |-> "checked", ask |-> ask, crossed |-> FALSE]]
  /\ UNCHANGED <<store, repositories, requests, pushes, log, up>>

\* and done, whatever has been written since
CommandWrites(k) ==
  /\ commands[k].at = "checked" /\ Writes(commands[k].ask)
  /\ commands' = [Crossed(commands[k].ask) EXCEPT ![k] = [at |-> "done", crossed |-> commands[k].crossed]]
  /\ UNCHANGED <<requests, pushes, log, up>>

\* The name is not there (any more), or is there by now
CommandFails(k) ==
  /\ commands[k].at = "checked" /\ (commands[k].ask.do = "add") = Has(commands[k].ask.user)
  /\ commands' = [commands EXCEPT ![k] = [at |-> "done", crossed |-> FALSE]]
  /\ UNCHANGED <<store, repositories, requests, pushes, log, up>>

(***************************************************************************)
(* Pushes                                                                  *)
(***************************************************************************)
\* (git signs in with an access token, which is looked up without an await)
MayPush(u, s) == Has(u) /\ AtLeast(RoleOf(u, account[u] = "admin", s), "editor")

NoRefs == [f \in Refs |-> None]
RefsAt(s) == IF repo[s] = 0 THEN NoRefs ELSE refs[repo[s]]

\* GET info/refs: the client learns where its ref is
Advertise(p, u, s, f, new) ==
  /\ pushes[p].at = "idle" /\ MayBegin /\ MayPush(u, s) /\ repo[s] # 0
  /\ new \in {p, None} /\ new # RefsAt(s)[f]
  /\ pushes' = [pushes EXCEPT ![p] =
       [at |-> "advertised", by |-> u, slug |-> s, ref |-> f, new |-> new,
        old |-> RefsAt(s)[f], before |-> NoRefs, repo |-> 0, moved |-> FALSE, cut |-> FALSE]]
  /\ UNCHANGED <<store, repositories, requests, log, up, commands>>

\* POST git-receive-pack: signed in anew; the refs are read, and git is started
Post(p) ==
  /\ pushes[p].at = "advertised"
  /\ MayPush(pushes[p].by, pushes[p].slug) /\ repo[pushes[p].slug] # 0
  /\ pushes' = [pushes EXCEPT ![p].at = "posted", ![p].before = RefsAt(pushes[p].slug)]
  /\ UNCHANGED <<store, repositories, requests, log, up, commands>>

\* What matters of a push that is over
Ended(p) == [pushes[p] EXCEPT !.at = "done", !.before = NoRefs, !.old = None, !.repo = 0]

\* (the role is gone, or the repository, or the push is too big)
PostRefused(p) ==
  /\ pushes[p].at = "advertised"
  /\ pushes' = [pushes EXCEPT ![p] = Ended(p)]
  /\ UNCHANGED <<store, repositories, requests, log, up, commands>>

\* git's own process, which goes on if the server stops, opens the repository
\* at its path
GitRuns(p) == pushes[p].at \in {"posted", "left"}

GitOpens(p) ==
  /\ GitRuns(p) /\ pushes[p].repo = 0 /\ repo[pushes[p].slug] # 0
  /\ pushes' = [pushes EXCEPT ![p].repo = repo[pushes[p].slug]]
  /\ UNCHANGED <<store, repositories, requests, log, up, commands>>

\* and moves the ref, if it is where the client saw it
GitMoves(p) ==
  LET push == pushes[p]
  IN /\ GitRuns(p) /\ push.repo # 0 /\ ~push.moved
     /\ refs[push.repo][push.ref] = push.old
     /\ refs' = [refs EXCEPT ![push.repo][push.ref] = push.new]
     /\ pushes' = [pushes EXCEPT ![p].moved = TRUE]
     /\ UNCHANGED <<store, repo, made, requests, log, up, commands>>

\* A push that goes past the size allowed: git is killed before it has all of it
TooBig(p) ==
  /\ InFlight(p) /\ ~pushes[p].moved
  /\ pushes' = [pushes EXCEPT ![p] = Ended(p)]
  /\ UNCHANGED <<store, repositories, requests, log, up, commands>>

\* Mutant: only the refs that are there after the push are looked at
RefChangesAfter(before, after) ==
  {[ref |-> f, from |-> before[f], to |-> after[f]] :
     f \in {g \in Refs : after[g] # None /\ before[g] # after[g]}}

\* refChanges
RefChanges(before, after) ==
  {[ref |-> f, from |-> before[f], to |-> after[f]] : f \in {g \in Refs : before[g] # after[g]}}

\* git has ended (its push moved the ref, or was rejected): the refs are read
\* again, and what changed is logged.  With no repository at the path any more,
\* reading them throws in an event of git's process: the server stops, with
\* every request it had.
Close(p) ==
  LET push == pushes[p]
      changes == RefChanges(push.before, RefsAt(push.slug))
  IN /\ InFlight(p)
     /\ IF repo[push.slug] = 0
        THEN /\ up' = FALSE
             /\ requests' = [c \in Calls |-> IF requests[c].at = "idle" THEN Idle ELSE Done]
             /\ pushes' = [q \in Pushes |-> IF InFlight(q)
                             THEN [pushes[q] EXCEPT !.at = "left", !.cut = TRUE] ELSE pushes[q]]
             /\ UNCHANGED log
        ELSE /\ pushes' = [pushes EXCEPT ![p] = Ended(p)]
             /\ log' = log \cup IF changes = {} THEN {}
                                ELSE {[push |-> p, by |-> push.by, slug |-> push.slug, refs |-> changes]}
             /\ UNCHANGED <<requests, up>>
     /\ UNCHANGED <<store, repositories, commands>>

\* (docker's restart policy)
Restart ==
  /\ ~up /\ up' = TRUE
  /\ UNCHANGED <<store, repositories, requests, pushes, log, commands>>

(***************************************************************************)
(* The specification                                                       *)
(***************************************************************************)
Serves ==
  \/ \E c \in Calls :
       \/ \E u \in Users, ask \in Asks : SignIn(c, u, ask)
       \/ ReadBody(c) \/ Handle(c) \/ Refuse(c)
  \/ \E p \in Pushes :
       \/ \E u \in Users, s \in Slugs, f \in Refs, new \in Commits : Advertise(p, u, s, f, new)
       \/ Post(p) \/ PostRefused(p) \/ TooBig(p) \/ Close(p)

Next ==
  \/ up /\ Serves
  \/ Restart
  \/ \E k \in Commands :
       (\E ask \in Asks : CommandChecks(k, ask)) \/ CommandWrites(k) \/ CommandFails(k)
  \/ \E p \in Pushes : GitOpens(p) \/ GitMoves(p)

Spec == Init /\ [][Next]_vars

(***************************************************************************)
(* Properties                                                              *)
(***************************************************************************)

\* There is always an admin to manage the accounts, however calls overlap and
\* wherever the steps of commands fall between theirs ("The last admin stays an
\* admin", store.ts:183), and so every collection has someone who may manage it,
\* also one whose owner's account went while it was being made (api.ts:124-137,
\* store.ts:251-260).  Until a command takes an admin away though a call, or
\* another command, did or may have done so after it had counted the admins
\* (store.ts:181-197): AnAdminStays fails then.
WrittenLate(k) == commands[k].at = "done" /\ commands[k].crossed

SomeoneManages ==
  (\A k \in Commands : ~WrittenLate(k)) =>
    /\ Admins # {}
    /\ \A s \in collections : \E u \in Users : Has(u) /\ RoleOf(u, account[u] = "admin", s) = "owner"

\* There is always an admin, whichever calls and commands overlap ("The last admin
\* stays an admin", store.ts:183).  It fails when a command and a call, or two
\* commands, both count two admins and then each take one away.
AnAdminStays == Admins # {}

\* Every commit that a push put on a ref is in the log ("The log records each
\* push (who, and which branches moved from which commit to which)",
\* packages/insomnium-server/README.md:238): moved to, or, by a push that
\* overlapped its own, moved from, though the refs are read around git's own
\* process.  Not while a push is under way, and not when a collection or the
\* server went under one.
CutShort(p) == pushes[p].at # "idle" /\ pushes[p].cut

PushesInLog ==
  (\A p \in Pushes : ~InFlight(p) /\ ~CutShort(p)) =>
    \A p \in Pushes : pushes[p].at = "done" /\ pushes[p].moved /\ pushes[p].new # None =>
      \E entry \in log : \E change \in entry.refs :
        /\ entry.slug = pushes[p].slug
        /\ change.ref = pushes[p].ref /\ p \in {change.from, change.to}

\* Each entry holds what its own push moved (git-http.ts:2-3: "A push is logged
\* with the refs it moved").
LogsItsOwn ==
  \A entry \in log : \A change \in entry.refs : change.ref = pushes[entry.push].ref

=============================================================================
