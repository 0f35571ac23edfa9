---------------------- MODULE SharedCollections_proofs ----------------------
(***************************************************************************)
(* Proofs about the two ways a collection leaves the app that holds it: to *)
(* the team server and to a folder of the user's, for every value of the   *)
(* constants.                                                              *)
(*                                                                         *)
(* The team server: the accounts keep an admin, as long as no command      *)
(* takes one away on a count that another has crossed (AccountsInv), and   *)
(* every commit that a push put on a ref is in the log. The second is an   *)
(* argument about two overlapping pushes: git puts a push's commit on a    *)
(* ref once, so the refs cannot come back to it (CommitsMoved); a push     *)
(* that moves the ref away from a commit read that commit before it began  *)
(* (Flight); so each commit is either where its push, still under way,     *)
(* will find it, or is what another push under way moved the ref from, or  *)
(* is logged (Accounts).                                                   *)
(*                                                                         *)
(* The folder: with nothing left to sync, the files are what the           *)
(* collection makes of them (InStep), and what is not the collection's is  *)
(* neither written over nor removed (OthersKept), as long as the user      *)
(* changes nothing while it writes (Undisturbed). Both rest on what the    *)
(* sync has in hand at each of its steps: unless an edit is still to be    *)
(* heard of, what it read is what is there (Looked), what it could read it *)
(* has taken in (Taken), and its plan is what the documents make of the    *)
(* folder, which leaves the others' files out (Planned). No two documents  *)
(* are given one path, nor any a path that is reserved, as the numbers     *)
(* left to the requests of a name are given in order (EachHasItsFile).     *)
(***************************************************************************)
EXTENDS TeamServer, FolderSync, FiniteSetTheorems, TLAPS

-----------------------------------------------------------------------------
(* The accounts *)

CommandStates ==
  {Idle} \cup [at : {"checked"}, ask : {a \in Asks : OfAccounts(a)}, crossed : BOOLEAN] \cup [at : {"done"}, crossed : BOOLEAN]

NoneLate == \A k \in Commands : ~WrittenLate(k)

\* A command that has counted the admins, and whose count still holds
Counted(k) == commands[k].at = "checked" /\ TakesAway(commands[k].ask) /\ ~commands[k].crossed

SomeAdmin ==
  /\ Admins # {}
  /\ \A k \in Commands : Counted(k) => Admins # {commands[k].ask.user}

AccountsInv ==
  /\ account \in [Users -> {None, "user", "admin"}]
  /\ commands \in [Commands -> CommandStates]
  /\ NoneLate => SomeAdmin

\* What a write leaves: the other accounts, and the admins but for the one it may
\* take away.
LEMMA WritesFacts ==
  ASSUME account \in [Users -> {None, "user", "admin"}], NEW ask, OfAccounts(ask), Writes(ask)
  PROVE  /\ account' \in [Users -> {None, "user", "admin"}]
         /\ Admins \ {ask.user} \subseteq Admins'
         /\ ~TakesAway(ask) => Admins \subseteq Admins'
<1>1. account' \in [Users -> {None, "user", "admin"}]
  BY DEF Writes
<1>2. \A u \in Users : u # ask.user => account'[u] = account[u]
  BY DEF Writes
<1>3. Admins \ {ask.user} \subseteq Admins'
  BY <1>2 DEF Admins
<1>4. ASSUME ~TakesAway(ask) PROVE Admins \subseteq Admins'
  <2>1. CASE ask.do = "add"
    <3>1. account[ask.user] = None
      BY <2>1 DEF Writes, Has
    <3>2. ask.user \notin Admins
      BY <3>1 DEF Admins, None
    <3> QED BY <1>3, <3>2
  <2>2. CASE ask.do = "admin"
    <3>1. ask.admin
      BY <1>4, <2>2 DEF TakesAway
    <3>2. ask.user \in Users => account'[ask.user] = "admin"
      BY <2>2, <3>1 DEF Writes
    <3> QED BY <1>2, <3>2 DEF Admins
  <2> QED BY <1>4, <2>1, <2>2 DEF OfAccounts, TakesAway
<1> QED BY <1>1, <1>3, <1>4

\* A write keeps an admin, and each count that it does not cross, if it was itself
\* counted on what it finds.
LEMMA WriteKeepsSome ==
  ASSUME account \in [Users -> {None, "user", "admin"}], SomeAdmin, NEW ask, OfAccounts(ask), Writes(ask),
         TakesAway(ask) => Admins # {ask.user},
         \A k \in Commands : Counted(k)' =>
           Counted(k) /\ commands'[k].ask = commands[k].ask /\ ~TakesAway(ask)
  PROVE  SomeAdmin'
<1>1. /\ Admins \ {ask.user} \subseteq Admins'
      /\ ~TakesAway(ask) => Admins \subseteq Admins'
  BY WritesFacts
<1>2. Admins' # {}
  BY <1>1 DEF SomeAdmin
<1>3. ASSUME NEW k \in Commands, Counted(k)' PROVE Admins' # {commands'[k].ask.user}
  BY <1>1, <1>3 DEF SomeAdmin
<1> QED BY <1>2, <1>3 DEF SomeAdmin

LEMMA SpecAccountsInv == Spec => []AccountsInv
<1>1. Init => AccountsInv
  <2> SUFFICES ASSUME Init PROVE AccountsInv
    OBVIOUS
  <2>1. account \in [Users -> {None, "user", "admin"}]
    BY DEF Init
  <2>2. account[FirstAdmin] = "admin" /\ FirstAdmin \in Users
    BY FirstAdminAssumption DEF Init
  <2>3. commands \in [Commands -> CommandStates] /\ \A k \in Commands : commands[k].at # "checked"
    BY DEF Init, CommandStates, Idle
  <2> QED BY <2>1, <2>2, <2>3 DEF AccountsInv, SomeAdmin, Admins, Counted
<1>2. AccountsInv /\ [Next]_vars => AccountsInv'
  <2> SUFFICES ASSUME AccountsInv, [Next]_vars PROVE AccountsInv'
    OBVIOUS
  <2>t. /\ account \in [Users -> {None, "user", "admin"}]
        /\ commands \in [Commands -> CommandStates]
        /\ NoneLate => SomeAdmin
    BY DEF AccountsInv
  <2>k. ASSUME NEW k \in Commands, commands[k].at = "checked"
        PROVE  commands[k].ask \in Asks /\ OfAccounts(commands[k].ask) /\ commands[k].crossed \in BOOLEAN
               /\ commands[k] \in [at : {"checked"}, ask : {a \in Asks : OfAccounts(a)}, crossed : BOOLEAN]
    <3>1. commands[k] \in CommandStates
      BY <2>t
    <3> QED BY <2>k, <3>1 DEF CommandStates, Idle
  <2>1. CASE account' = account /\ commands' = commands
    BY <2>1, <2>t DEF AccountsInv, SomeAdmin, NoneLate, WrittenLate, Counted, Admins
  <2>3. ASSUME NEW ask, NEW k \in Commands
        PROVE  /\ Crossed(ask)[k] \in CommandStates /\ Crossed(ask)[k].at = commands[k].at
               /\ commands[k].at # "checked" => Crossed(ask)[k] = commands[k]
               /\ commands[k].at = "checked" => Crossed(ask)[k].ask = commands[k].ask
               /\ commands[k].at = "checked" /\ TakesAway(commands[k].ask) /\ ~Crossed(ask)[k].crossed =>
                    ~commands[k].crossed /\ ~TakesAway(ask)
    <3>0. commands[k] \in CommandStates
      BY <2>t
    <3>1. CASE commands[k].at = "checked" /\ TakesAway(commands[k].ask) /\ TakesAway(ask)
      <4>1. Crossed(ask)[k] = [commands[k] EXCEPT !.crossed = TRUE]
        BY <3>1 DEF Crossed
      <4>2. commands[k] \in [at : {"checked"}, ask : {a \in Asks : OfAccounts(a)}, crossed : BOOLEAN]
        BY <3>1, <2>k
      <4>3. /\ Crossed(ask)[k] \in [at : {"checked"}, ask : {a \in Asks : OfAccounts(a)}, crossed : BOOLEAN]
            /\ Crossed(ask)[k].crossed = TRUE /\ Crossed(ask)[k].ask = commands[k].ask
            /\ Crossed(ask)[k].at = "checked"
        BY <4>1, <4>2
      <4> QED BY <3>1, <4>3 DEF CommandStates
    <3>2. CASE ~(commands[k].at = "checked" /\ TakesAway(commands[k].ask) /\ TakesAway(ask))
      <4>1. Crossed(ask)[k] = commands[k]
        BY <3>2 DEF Crossed
      <4> QED BY <3>0, <3>2, <4>1
    <3> QED BY <3>1, <3>2
  <2>4. ASSUME NEW c \in Calls, Handle(c) PROVE AccountsInv'
    <3> DEFINE ask == requests[c].ask
    <3>1. Does(ask, requests[c].by) /\ commands' = Crossed(ask)
      BY <2>4 DEF Handle
    <3>2. commands' \in [Commands -> CommandStates]
      BY <3>1, <2>3 DEF Crossed
    <3>3. NoneLate' => NoneLate
      BY <3>1, <2>3, <2>t DEF NoneLate, WrittenLate
    <3>4. \A k \in Commands : Counted(k)' =>
            Counted(k) /\ commands'[k].ask = commands[k].ask /\ ~TakesAway(ask)
      BY <3>1, <2>3 DEF Counted
    <3>5. CASE OfAccounts(ask) /\ Passes(ask) /\ Writes(ask)
      <4>1. TakesAway(ask) => Admins # {ask.user}
        BY <3>5 DEF Passes, TakesAway
      <4>2. account' \in [Users -> {None, "user", "admin"}]
        BY <3>5, <2>t, WritesFacts
      <4>3. SomeAdmin => SomeAdmin'
        BY <3>4, <3>5, <4>1, <2>t, WriteKeepsSome
      <4> QED BY <3>2, <3>3, <4>2, <4>3, <2>t DEF AccountsInv
    <3>6. CASE account' = account
      <4>1. SomeAdmin => SomeAdmin'
        BY <3>4, <3>6 DEF SomeAdmin, Admins
      <4> QED BY <3>2, <3>3, <3>6, <4>1, <2>t DEF AccountsInv
    <3>7. account' = account \/ (OfAccounts(ask) /\ Passes(ask) /\ Writes(ask))
      BY <3>1 DEF Does, CreateCollection, CreateFails, DeleteCollection, SetRole, RemoveMember, store
    <3> QED BY <3>5, <3>6, <3>7
  <2>5. ASSUME NEW k \in Commands, NEW ask \in Asks, CommandChecks(k, ask) PROVE AccountsInv'
    <3>1. /\ account' = account /\ Passes(ask) /\ OfAccounts(ask)
          /\ commands' = [commands EXCEPT ![k] = [at |-> "checked", ask |-> ask, crossed |-> FALSE]]
      BY <2>5 DEF CommandChecks, store
    <3>2. commands' \in [Commands -> CommandStates]
      <4>1. [at |-> "checked", ask |-> ask, crossed |-> FALSE] \in CommandStates
        BY <3>1 DEF CommandStates
      <4> QED BY <3>1, <4>1, <2>t
    <3>3. commands'[k] = [at |-> "checked", ask |-> ask, crossed |-> FALSE]
          /\ \A j \in Commands : j # k => commands'[j] = commands[j]
      BY <3>1, <2>t
    <3>4. NoneLate' => NoneLate
      BY <3>3, <2>5 DEF NoneLate, WrittenLate, CommandChecks
    <3>5. ASSUME SomeAdmin PROVE SomeAdmin'
      <4>1. TakesAway(ask) => Admins # {ask.user}
        BY <3>1 DEF Passes, TakesAway
      <4>2. Admins' = Admins
        BY <3>1 DEF Admins
      <4>3. ASSUME NEW j \in Commands, Counted(j)' PROVE Admins # {commands'[j].ask.user}
        BY <4>1, <4>3, <3>3, <3>5 DEF SomeAdmin, Counted
      <4> QED BY <4>2, <4>3, <3>5 DEF SomeAdmin
    <3> QED BY <3>1, <3>2, <3>4, <3>5, <2>t DEF AccountsInv
  <2>6. ASSUME NEW k \in Commands, CommandWrites(k) PROVE AccountsInv'
    <3> DEFINE ask == commands[k].ask
    <3>1. /\ commands[k].at = "checked" /\ Writes(ask)
          /\ commands' = [Crossed(ask) EXCEPT ![k] = [at |-> "done", crossed |-> commands[k].crossed]]
      BY <2>6 DEF CommandWrites
    <3>2. ask \in Asks /\ commands[k].crossed \in BOOLEAN
      BY <3>1, <2>k
    <3>3. Crossed(ask) \in [Commands -> CommandStates]
      BY <2>3 DEF Crossed
    <3>4. commands' \in [Commands -> CommandStates]
      <4>1. [at |-> "done", crossed |-> commands[k].crossed] \in CommandStates
        BY <3>2 DEF CommandStates
      <4> QED BY <3>1, <3>3, <4>1
    <3>5. /\ commands'[k] = [at |-> "done", crossed |-> commands[k].crossed]
          /\ \A j \in Commands : j # k => commands'[j] = Crossed(ask)[j]
      BY <3>1, <3>3
    <3>6. NoneLate' => NoneLate /\ ~commands[k].crossed
      <4>1. ASSUME NoneLate' PROVE ~commands[k].crossed
        BY <4>1, <3>5 DEF NoneLate, WrittenLate
      <4>2. ASSUME NoneLate', NEW j \in Commands PROVE ~WrittenLate(j)
        BY <4>2, <3>1, <3>5, <2>3 DEF NoneLate, WrittenLate
      <4> QED BY <4>1, <4>2 DEF NoneLate
    <3>7. \A j \in Commands : Counted(j)' =>
            Counted(j) /\ commands'[j].ask = commands[j].ask /\ ~TakesAway(ask)
      BY <3>5, <2>3 DEF Counted
    <3>8. OfAccounts(ask)
      BY <3>1, <2>k
    <3>9. account' \in [Users -> {None, "user", "admin"}]
      BY <3>1, <3>8, <2>t, WritesFacts
    <3>10. NoneLate' => SomeAdmin'
      <4> SUFFICES ASSUME NoneLate' PROVE SomeAdmin'
        OBVIOUS
      <4>1. SomeAdmin /\ (TakesAway(ask) => Counted(k))
        BY <3>1, <3>6, <2>t DEF Counted
      <4>2. TakesAway(ask) => Admins # {ask.user}
        BY <4>1 DEF SomeAdmin
      <4> QED BY <3>1, <3>7, <3>8, <4>1, <4>2, <2>t, WriteKeepsSome
    <3> QED BY <3>4, <3>9, <3>10 DEF AccountsInv
  <2>7. ASSUME NEW k \in Commands, CommandFails(k) PROVE AccountsInv'
    <3>1. /\ account' = account /\ commands[k].at = "checked"
          /\ commands' = [commands EXCEPT ![k] = [at |-> "done", crossed |-> FALSE]]
      BY <2>7 DEF CommandFails, store
    <3>2. commands' \in [Commands -> CommandStates]
      <4>1. [at |-> "done", crossed |-> FALSE] \in CommandStates
        BY DEF CommandStates
      <4> QED BY <3>1, <4>1, <2>t
    <3>3. commands'[k] = [at |-> "done", crossed |-> FALSE]
          /\ \A j \in Commands : j # k => commands'[j] = commands[j]
      BY <3>1, <2>t
    <3>4. NoneLate' => NoneLate
      BY <3>1, <3>3 DEF NoneLate, WrittenLate
    <3>5. SomeAdmin => SomeAdmin'
      BY <3>1, <3>3 DEF SomeAdmin, Admins, Counted
    <3> QED BY <3>1, <3>2, <3>4, <3>5, <2>t DEF AccountsInv
  <2>8. ASSUME account' = account, commands' = commands PROVE AccountsInv'
    BY <2>8 DEF AccountsInv, NoneLate, WrittenLate, SomeAdmin, Admins, Counted
  <2>9. CASE up /\ Serves
    <3>1. ASSUME NEW c \in Calls, \/ \E u \in Users, ask \in Asks : SignIn(c, u, ask)
                                  \/ ReadBody(c) \/ Refuse(c)
          PROVE  AccountsInv'
      BY <3>1, <2>8 DEF SignIn, ReadBody, Refuse, store
    <3>2. ASSUME NEW p \in Pushes,
                 \/ \E u \in Users, s \in Slugs, f \in Refs, new \in Commits : Advertise(p, u, s, f, new)
                 \/ Post(p) \/ PostRefused(p) \/ TooBig(p) \/ Close(p)
          PROVE  AccountsInv'
      BY <3>2, <2>8 DEF Advertise, Post, PostRefused, TooBig, Close, store
    <3> QED BY <2>9, <2>4, <3>1, <3>2 DEF Serves
  <2>10. CASE Restart
    BY <2>10, <2>8 DEF Restart, store
  <2>11. ASSUME NEW p \in Pushes, GitOpens(p) \/ GitMoves(p) PROVE AccountsInv'
    BY <2>11, <2>8 DEF GitOpens, GitMoves, store
  <2>12. CASE UNCHANGED vars
    BY <2>12, <2>8 DEF vars, store
  <2> QED BY <2>1, <2>5, <2>6, <2>7, <2>9, <2>10, <2>11, <2>12 DEF Next
<1> QED BY <1>1, <1>2, PTL DEF Spec

\* However calls overlap, and wherever commands' steps fall between theirs, the
\* accounts have an admin and each collection has someone who may manage it, until
\* a command takes an admin away on a count that no longer holds.
THEOREM SomeoneAlwaysManages == Spec => []SomeoneManages
<1>1. AccountsInv => SomeoneManages
  <2> SUFFICES ASSUME AccountsInv, NoneLate
               PROVE  /\ Admins # {}
                      /\ \A s \in collections : \E u \in Users : Has(u) /\ RoleOf(u, account[u] = "admin", s) = "owner"
    BY DEF SomeoneManages, NoneLate
  <2>1. PICK a \in Users : account[a] = "admin"
    BY DEF AccountsInv, SomeAdmin, Admins
  <2>2. Has(a) /\ \A s \in collections : RoleOf(a, account[a] = "admin", s) = "owner"
    BY <2>1 DEF Has, RoleOf, None
  <2> QED BY <2>1, <2>2 DEF Admins
<1> QED BY <1>1, SpecAccountsInv, PTL

-----------------------------------------------------------------------------
(* The pushes *)

Push ==
  [at : {"advertised", "posted", "left", "done"}, by : Users, slug : Slugs, ref : Refs,
   new : Commits, old : Commits, before : [Refs -> Commits], repo : 0..MaxRepos,
   moved : BOOLEAN, cut : BOOLEAN]

PushesTyped ==
  /\ repo \in [Slugs -> 0..MaxRepos] /\ made \in 0..MaxRepos
  /\ refs \in [Repos -> [Refs -> Commits]]
  /\ pushes \in [Pushes -> {Idle} \cup Push]

\* A repository is at one path only, whatever was there before it.
ReposApart ==
  /\ \A s \in Slugs : repo[s] <= made
  /\ \A s, t \in Slugs : repo[s] = repo[t] /\ repo[s] # 0 => s = t


Begun(p) == pushes[p].at # "idle"
HasMoved(c) == c \in Pushes /\ Begun(c) /\ pushes[c].moved /\ pushes[c].new = c

Stages ==
  \A p \in Pushes : Begun(p) =>
    /\ pushes[p].new \in {p, None}
    /\ pushes[p].at = "advertised" => ~pushes[p].moved /\ pushes[p].repo = 0
    /\ pushes[p].at = "left" => pushes[p].cut

\* A commit that is seen on a ref was put there by its push, which puts it there once.
CommitsMoved ==
  /\ \A r \in Repos, f \in Refs : refs[r][f] # None => HasMoved(refs[r][f])
  /\ \A p \in Pushes : Begun(p) =>
       /\ pushes[p].old # None => HasMoved(pushes[p].old)
       /\ \A f \in Refs : pushes[p].before[f] # None => HasMoved(pushes[p].before[f])

Clean == \A p \in Pushes : ~CutShort(p)

RefNow(p) == refs[repo[pushes[p].slug]][pushes[p].ref]
Before(p) == pushes[p].before[pushes[p].ref]

Flight(p) ==
  /\ repo[pushes[p].slug] # 0
  /\ pushes[p].repo \in {0, repo[pushes[p].slug]}
  /\ pushes[p].moved => pushes[p].repo # 0
  /\ p # None => Before(p) # p
  /\ ~pushes[p].moved /\ pushes[p].old # None /\ RefNow(p) = pushes[p].old => Before(p) = pushes[p].old
  /\ pushes[p].moved /\ Before(p) # None => RefNow(p) # Before(p)

Flights == Clean => \A p \in Pushes : InFlight(p) => Flight(p)

\* A push in flight has moved the ref away from p's commit, and will log it.
Takes(q, p) ==
  /\ InFlight(q) /\ pushes[q].moved
  /\ pushes[q].slug = pushes[p].slug /\ pushes[q].ref = pushes[p].ref
  /\ Before(q) = p

Logged(p) ==
  \E entry \in log : \E change \in entry.refs :
    /\ entry.slug = pushes[p].slug
    /\ change.ref = pushes[p].ref /\ p \in {change.from, change.to}

Accounted(p) == Logged(p) \/ \E q \in Pushes : Takes(q, p)

Accounts ==
  Clean => \A p \in Pushes : HasMoved(p) /\ p # None =>
    Accounted(p) \/ (InFlight(p) /\ RefNow(p) = p)

PInv == PushesTyped /\ ReposApart /\ Stages /\ CommitsMoved /\ Flights /\ Accounts

\* A push under way or over, field by field.
LEMMA PushFacts ==
  ASSUME PushesTyped, NEW p \in Pushes, Begun(p)
  PROVE  /\ pushes[p] \in Push
         /\ pushes[p].at \in {"advertised", "posted", "left", "done"}
         /\ pushes[p].by \in Users /\ pushes[p].slug \in Slugs /\ pushes[p].ref \in Refs
         /\ pushes[p].new \in Commits /\ pushes[p].old \in Commits
         /\ pushes[p].before \in [Refs -> Commits] /\ pushes[p].repo \in 0..MaxRepos
         /\ pushes[p].moved \in BOOLEAN /\ pushes[p].cut \in BOOLEAN
<1>1. pushes[p] # Idle
  BY DEF Begun, Idle
<1>2. pushes[p] \in Push
  BY <1>1 DEF PushesTyped
<1> QED BY <1>2 DEF Push

\* Where a push looks, and what it finds there.
LEMMA FlightFacts ==
  ASSUME PInv, Clean, NEW p \in Pushes, InFlight(p)
  PROVE  /\ Flight(p) /\ Begun(p) /\ pushes[p].slug \in Slugs /\ pushes[p].ref \in Refs
         /\ repo[pushes[p].slug] \in Repos
<1>1. Begun(p)
  BY DEF InFlight, Begun
<1>2. Flight(p)
  BY DEF PInv, Flights
<1>3. pushes[p].slug \in Slugs /\ pushes[p].ref \in Refs
  BY <1>1, PushFacts DEF PInv
<1>4. repo[pushes[p].slug] \in 0..MaxRepos /\ repo[pushes[p].slug] # 0
  BY <1>2, <1>3 DEF Flight, PInv, PushesTyped
<1>5. repo[pushes[p].slug] \in Repos
  BY <1>4, BoundsAssumption DEF Repos
<1> QED BY <1>1, <1>2, <1>3, <1>5

LEMMA InitPInv == Init => PInv
<1> SUFFICES ASSUME Init PROVE PInv
  OBVIOUS
<1>1. /\ repo = [s \in Slugs |-> 0] /\ made = 0
      /\ refs = [r \in Repos |-> [f \in Refs |-> None]]
      /\ pushes = [p \in Pushes |-> Idle]
  BY DEF Init
<1>2. \A p \in Pushes : ~Begun(p) /\ ~InFlight(p)
  BY <1>1 DEF Begun, InFlight, Idle
<1>3. PushesTyped
  BY <1>1, BoundsAssumption DEF PushesTyped, Commits
<1>4. ReposApart
  BY <1>1 DEF ReposApart
<1>5. Stages
  BY <1>2 DEF Stages
<1>6. CommitsMoved
  BY <1>1, <1>2 DEF CommitsMoved
<1>7. Flights /\ Accounts
  BY <1>2 DEF Flights, Accounts, HasMoved
<1> QED BY <1>3, <1>4, <1>5, <1>6, <1>7 DEF PInv

\* A step after which some push is cut: what is kept of the pushes then.
LEMMA CutStep ==
  ASSUME PInv, refs' = refs, ReposApart',
         repo' \in [Slugs -> 0..MaxRepos], made' \in 0..MaxRepos,
         NEW cut \in SUBSET Pushes,
         \A p \in cut : Begun(p),
         \/ pushes' = [p \in Pushes |-> IF p \in cut THEN [pushes[p] EXCEPT !.cut = TRUE] ELSE pushes[p]]
         \/ pushes' = [p \in Pushes |-> IF p \in cut THEN [pushes[p] EXCEPT !.at = "left", !.cut = TRUE]
                                        ELSE pushes[p]]
  PROVE  /\ PushesTyped' /\ Stages' /\ CommitsMoved'
         /\ cut # {} => ~Clean'
<1>t. PushesTyped /\ Stages /\ CommitsMoved
  BY DEF PInv
<1>1. ASSUME NEW p \in Pushes, p \in cut
      PROVE  /\ pushes'[p] \in Push /\ pushes'[p].cut = TRUE
             /\ pushes'[p].at = pushes[p].at \/ pushes'[p].at = "left"
             /\ pushes'[p].new = pushes[p].new /\ pushes'[p].moved = pushes[p].moved
             /\ pushes'[p].old = pushes[p].old /\ pushes'[p].before = pushes[p].before
             /\ pushes'[p].repo = pushes[p].repo
             /\ Begun(p) /\ Begun(p)'
  <2>1. pushes[p] \in Push /\ Begun(p)
    BY <1>1, <1>t, PushFacts
  <2>2. \/ pushes'[p] = [pushes[p] EXCEPT !.cut = TRUE]
        \/ pushes'[p] = [pushes[p] EXCEPT !.at = "left", !.cut = TRUE]
    BY <1>1
  <2>3. CASE pushes'[p] = [pushes[p] EXCEPT !.cut = TRUE]
    BY <2>1, <2>3 DEF Push, Begun
  <2>4. CASE pushes'[p] = [pushes[p] EXCEPT !.at = "left", !.cut = TRUE]
    BY <2>1, <2>4 DEF Push, Begun
  <2> QED BY <2>2, <2>3, <2>4
<1>2. \A p \in Pushes : p \notin cut => pushes'[p] = pushes[p]
  OBVIOUS
<1>3. \A p \in Pushes : HasMoved(p) => HasMoved(p)'
  BY <1>1, <1>2 DEF HasMoved, Begun
<1>4. PushesTyped'
  <2>1. \A p \in Pushes : pushes'[p] \in {Idle} \cup Push
    BY <1>1, <1>2, <1>t DEF PushesTyped
  <2>2. pushes' \in [Pushes -> {Idle} \cup Push]
    BY <2>1
  <2> QED BY <2>2, <1>t DEF PushesTyped
<1>5. Stages'
  <2> SUFFICES ASSUME NEW p \in Pushes, Begun(p)'
               PROVE  /\ pushes'[p].new \in {p, None}
                      /\ pushes'[p].at = "advertised" => ~pushes'[p].moved /\ pushes'[p].repo = 0
                      /\ pushes'[p].at = "left" => pushes'[p].cut
    BY DEF Stages
  <2>1. CASE p \in cut
    BY <2>1, <1>1, <1>t DEF Stages
  <2>2. CASE p \notin cut
    BY <2>2, <1>2, <1>t DEF Stages, Begun
  <2> QED BY <2>1, <2>2
<1>6. CommitsMoved'
  <2>1. \A c : HasMoved(c) => HasMoved(c)'
    BY <1>3 DEF HasMoved
  <2>2. ASSUME NEW r \in Repos, NEW f \in Refs, refs'[r][f] # None PROVE HasMoved(refs[r][f])'
    <3>1. PICK c : c = refs[r][f]
      OBVIOUS
    <3>2. HasMoved(c)
      BY <2>2, <3>1, <1>t DEF CommitsMoved
    <3>3. HasMoved(c)'
      BY <3>2, <2>1
    <3>4. c = refs'[r][f]
      BY <3>1
    <3> QED BY <3>3, <3>4
  <2>3. ASSUME NEW p \in Pushes, Begun(p)'
        PROVE  /\ pushes'[p].old = pushes[p].old /\ pushes'[p].before = pushes[p].before /\ Begun(p)
    BY <2>3, <1>1, <1>2 DEF Begun
  <2>4. ASSUME NEW p \in Pushes, Begun(p)', pushes'[p].old # None PROVE HasMoved(pushes[p].old)'
    <3>1. PICK c : c = pushes[p].old
      OBVIOUS
    <3>2. HasMoved(c)
      BY <2>3, <2>4, <3>1, <1>t DEF CommitsMoved
    <3>3. HasMoved(c)' /\ c = pushes'[p].old
      BY <3>1, <3>2, <2>1, <2>3, <2>4
    <3> QED BY <3>3
  <2>5. ASSUME NEW p \in Pushes, Begun(p)', NEW f \in Refs, pushes'[p].before[f] # None
        PROVE  HasMoved(pushes[p].before[f])'
    <3>1. PICK c : c = pushes[p].before[f]
      OBVIOUS
    <3>2. HasMoved(c)
      BY <2>3, <2>5, <3>1, <1>t DEF CommitsMoved
    <3>3. HasMoved(c)' /\ c = pushes'[p].before[f]
      BY <3>1, <3>2, <2>1, <2>3, <2>5
    <3> QED BY <3>3
  <2> QED BY <2>2, <2>4, <2>5 DEF CommitsMoved
<1>7. ASSUME cut # {} PROVE ~Clean'
  <2>1. PICK p \in Pushes : p \in cut
    BY <1>7
  <2>2. CutShort(p)'
    BY <2>1, <1>1 DEF CutShort, Begun
  <2> QED BY <2>2 DEF Clean
<1> QED BY <1>4, <1>5, <1>6, <1>7

\* A step that touches one push and no ref: what the push must be after it.
LEMMA OnePush ==
  ASSUME PInv, NEW p \in Pushes, NEW x \in Push, pushes' = [pushes EXCEPT ![p] = x],
         repo' = repo, made' = made, refs' = refs, log \subseteq log',
         x.new \in {p, None}, x.at = "advertised" => ~x.moved /\ x.repo = 0,
         x.at = "left" => x.cut,
         ~Begun(p) => ~x.moved,
         Begun(p) => /\ x.moved = pushes[p].moved /\ x.new = pushes[p].new
                     /\ x.slug = pushes[p].slug /\ x.ref = pushes[p].ref /\ x.cut = pushes[p].cut,
         x.old # None => HasMoved(x.old),
         \A f \in Refs : x.before[f] # None => HasMoved(x.before[f]),
         x.at = "posted" /\ Clean => Flight(p)',
         x.at = "posted" /\ InFlight(p) => x.before = pushes[p].before,
         x.at # "posted" /\ InFlight(p) /\ Clean =>
           \A q \in Pushes : HasMoved(q) /\ q # None /\ (Takes(p, q) \/ (q = p /\ RefNow(p) = p))
                             => Logged(q)'
  PROVE  PInv'
<1>t. PushesTyped /\ ReposApart /\ Stages /\ CommitsMoved /\ Flights /\ Accounts
  BY DEF PInv
<1>1. pushes'[p] = x /\ \A q \in Pushes : q # p => pushes'[q] = pushes[q]
  BY <1>t DEF PushesTyped
<1>2. Begun(p)' /\ (\A q \in Pushes : q # p => Begun(q)' = Begun(q))
  BY <1>1 DEF Begun, Push
<1>3. \A c : HasMoved(c) = HasMoved(c)'
  <2> SUFFICES ASSUME NEW c \in Pushes PROVE HasMoved(c) = HasMoved(c)'
    BY DEF HasMoved
  <2>1. CASE c # p
    BY <2>1, <1>1 DEF HasMoved, Begun
  <2>2. CASE c = p
    BY <2>2, <1>1, <1>2 DEF HasMoved
  <2> QED BY <2>1, <2>2
<1>4. PushesTyped'
  <2>1. pushes' \in [Pushes -> {Idle} \cup Push]
    BY <1>t DEF PushesTyped
  <2> QED BY <2>1, <1>t DEF PushesTyped
<1>5. ReposApart'
  BY <1>t DEF ReposApart
<1>6. Stages'
  <2> SUFFICES ASSUME NEW q \in Pushes, Begun(q)'
               PROVE  /\ pushes'[q].new \in {q, None}
                      /\ pushes'[q].at = "advertised" => ~pushes'[q].moved /\ pushes'[q].repo = 0
                      /\ pushes'[q].at = "left" => pushes'[q].cut
    BY DEF Stages
  <2>1. CASE q = p
    BY <2>1, <1>1
  <2>2. CASE q # p
    BY <2>2, <1>1, <1>2, <1>t DEF Stages
  <2> QED BY <2>1, <2>2
<1>7. CommitsMoved'
  <2>1. ASSUME NEW r \in Repos, NEW f \in Refs, refs'[r][f] # None PROVE HasMoved(refs[r][f])'
    <3>1. PICK c : c = refs[r][f]
      OBVIOUS
    <3>2. HasMoved(c)' /\ c = refs'[r][f]
      BY <2>1, <3>1, <1>3, <1>t DEF CommitsMoved
    <3> QED BY <3>2
  <2>2. ASSUME NEW q \in Pushes, Begun(q)', pushes'[q].old # None PROVE HasMoved(pushes[q].old)'
    <3>1. PICK c : c = pushes'[q].old
      OBVIOUS
    <3>2. HasMoved(c)
      BY <2>2, <3>1, <1>1, <1>2, <1>t DEF CommitsMoved
    <3>3. HasMoved(c)'
      BY <3>2, <1>3
    <3> QED BY <3>1, <3>3
  <2>3. ASSUME NEW q \in Pushes, Begun(q)', NEW f \in Refs, pushes'[q].before[f] # None
        PROVE  HasMoved(pushes[q].before[f])'
    <3>1. PICK c : c = pushes'[q].before[f]
      OBVIOUS
    <3>2. HasMoved(c)
      BY <2>3, <3>1, <1>1, <1>2, <1>t DEF CommitsMoved
    <3>3. HasMoved(c)'
      BY <3>2, <1>3
    <3> QED BY <3>1, <3>3
  <2> QED BY <2>1, <2>2, <2>3 DEF CommitsMoved
<1>8. Clean' => Clean
  <2> SUFFICES ASSUME Clean', NEW q \in Pushes PROVE ~CutShort(q)
    BY DEF Clean
  <2>1. CASE q = p
    BY <2>1, <1>1, <1>2 DEF Clean, CutShort, Begun
  <2>2. CASE q # p
    BY <2>2, <1>1 DEF Clean, CutShort
  <2> QED BY <2>1, <2>2
<1>9. Flights'
  <2> SUFFICES ASSUME Clean', NEW q \in Pushes, InFlight(q)' PROVE Flight(q)'
    BY DEF Flights
  <2>1. CASE q = p
    BY <2>1, <1>1, <1>8 DEF InFlight
  <2>2. CASE q # p
    <3>1. pushes'[q] = pushes[q]
      BY <2>2, <1>1
    <3>2. InFlight(q)
      BY <3>1 DEF InFlight
    <3>3. Flight(q)
      BY <1>8, <3>2, <1>t DEF Flights
    <3> QED BY <3>1, <3>3 DEF Flight, RefNow, Before
  <2> QED BY <2>1, <2>2
<1>10. Accounts'
  <2> SUFFICES ASSUME Clean', NEW q \in Pushes, HasMoved(q)', q # None
               PROVE  Accounted(q)' \/ (InFlight(q)' /\ RefNow(q)' = q)
    BY DEF Accounts
  <2>1. HasMoved(q) /\ Begun(q)
    BY <1>3 DEF HasMoved
  <2>2. pushes'[q].slug = pushes[q].slug /\ pushes'[q].ref = pushes[q].ref
    BY <2>1, <1>1
  <2>3. Accounted(q) \/ (InFlight(q) /\ RefNow(q) = q)
    BY <2>1, <1>8, <1>t DEF Accounts
  <2>4. CASE Logged(q)
    <3>1. Logged(q)'
      BY <2>2, <2>4 DEF Logged
    <3> QED BY <3>1 DEF Accounted
  <2>5. ASSUME NEW z \in Pushes, Takes(z, q) PROVE Accounted(q)'
    <3>1. CASE z # p
      <4>1. pushes'[z] = pushes[z]
        BY <3>1, <1>1
      <4>2. Takes(z, q)'
        BY <2>2, <2>5, <4>1 DEF Takes, InFlight, Before
      <4> QED BY <4>2 DEF Accounted
    <3>2. CASE z = p /\ x.at = "posted"
      <4>1. InFlight(p) /\ Begun(p)
        BY <2>5, <3>2 DEF Takes, InFlight, Begun
      <4>2. Takes(p, q)'
        BY <2>2, <2>5, <3>2, <4>1, <1>1 DEF Takes, InFlight, Before
      <4> QED BY <4>2 DEF Accounted
    <3>3. CASE z = p /\ x.at # "posted"
      BY <2>1, <2>5, <3>3, <1>8 DEF Accounted, Takes
    <3> QED BY <3>1, <3>2, <3>3
  <2>6. CASE InFlight(q) /\ RefNow(q) = q
    <3>1. CASE q # p \/ x.at = "posted"
      <4>1. InFlight(q)'
        BY <2>6, <3>1, <1>1 DEF InFlight
      <4>2. RefNow(q)' = q
        BY <2>2, <2>6 DEF RefNow
      <4> QED BY <4>1, <4>2
    <3>2. CASE q = p /\ x.at # "posted"
      BY <2>1, <2>6, <3>2, <1>8 DEF Accounted
    <3> QED BY <3>1, <3>2
  <2> QED BY <2>3, <2>4, <2>5, <2>6 DEF Accounted
<1> QED BY <1>4, <1>5, <1>6, <1>7, <1>9, <1>10 DEF PInv

LEMMA AdvertiseInv ==
  ASSUME PInv, NEW p \in Pushes, NEW u \in Users, NEW s \in Slugs, NEW f \in Refs, NEW new \in Commits,
         Advertise(p, u, s, f, new)
  PROVE  PInv'
<1>t. PushesTyped /\ CommitsMoved
  BY DEF PInv
<1>1. PICK x : x = [at |-> "advertised", by |-> u, slug |-> s, ref |-> f, new |-> new,
                    old |-> RefsAt(s)[f], before |-> NoRefs, repo |-> 0, moved |-> FALSE, cut |-> FALSE]
  OBVIOUS
<1>2. /\ pushes' = [pushes EXCEPT ![p] = x] /\ repo' = repo /\ made' = made /\ refs' = refs /\ log' = log
      /\ pushes[p].at = "idle" /\ repo[s] # 0 /\ new \in {p, None}
  BY <1>1 DEF Advertise, repositories
<1>3. repo[s] \in Repos
  BY <1>2, <1>t, BoundsAssumption DEF PushesTyped, Repos
<1>4. RefsAt(s) = refs[repo[s]]
  BY <1>2 DEF RefsAt
<1>5. refs[repo[s]] \in [Refs -> Commits]
  BY <1>3, <1>t DEF PushesTyped
<1>6. NoRefs \in [Refs -> Commits]
  BY DEF NoRefs, Commits
<1>7. x \in Push
  BY <1>1, <1>4, <1>5, <1>6, BoundsAssumption DEF Push
<1>8. x.old # None => HasMoved(x.old)
  BY <1>1, <1>3, <1>4, <1>t DEF CommitsMoved
<1>9. \A g \in Refs : x.before[g] = None
  BY <1>1 DEF NoRefs
<1>10. ~Begun(p) /\ ~InFlight(p)
  BY <1>2 DEF Begun, InFlight
<1>11. /\ x.at = "advertised" /\ ~x.moved /\ x.repo = 0 /\ x.new \in {p, None}
  BY <1>1, <1>2
<1> QED BY <1>2, <1>7, <1>8, <1>9, <1>10, <1>11, OnePush

LEMMA PostInv ==
  ASSUME PInv, NEW p \in Pushes, Post(p)
  PROVE  PInv'
<1>t. PushesTyped /\ CommitsMoved /\ Stages
  BY DEF PInv
<1>1. PICK x : x = [pushes[p] EXCEPT !.at = "posted", !.before = RefsAt(pushes[p].slug)]
  OBVIOUS
<1>2. /\ pushes[p].at = "advertised" /\ repo[pushes[p].slug] # 0
      /\ repo' = repo /\ made' = made /\ refs' = refs /\ log' = log
  BY DEF Post, repositories
<1>3. Begun(p) /\ ~InFlight(p)
  BY <1>2 DEF Begun, InFlight
<1>4. /\ pushes[p] \in Push /\ pushes[p].slug \in Slugs /\ pushes[p].ref \in Refs
      /\ pushes[p].new \in {p, None} /\ ~pushes[p].moved
  BY <1>2, <1>3, <1>t, PushFacts DEF Stages
<1>5. repo[pushes[p].slug] \in Repos
  BY <1>2, <1>4, <1>t, BoundsAssumption DEF PushesTyped, Repos
<1>6. RefsAt(pushes[p].slug) = refs[repo[pushes[p].slug]]
  BY <1>2 DEF RefsAt
<1>7. refs[repo[pushes[p].slug]] \in [Refs -> Commits]
  BY <1>5, <1>t DEF PushesTyped
<1>8. /\ x \in Push /\ x.at = "posted" /\ x.before = refs[repo[pushes[p].slug]]
      /\ x.moved = pushes[p].moved /\ x.new = pushes[p].new
      /\ x.slug = pushes[p].slug /\ x.ref = pushes[p].ref /\ x.cut = pushes[p].cut
      /\ x.old = pushes[p].old /\ x.repo = pushes[p].repo
  BY <1>1, <1>4, <1>6, <1>7 DEF Push
<1>9. pushes' = [pushes EXCEPT ![p] = x]
  BY <1>1, <1>t DEF Post, PushesTyped
<1>10. pushes'[p] = x
  BY <1>9, <1>t DEF PushesTyped
<1>11. x.old # None => HasMoved(x.old)
  BY <1>3, <1>8, <1>t DEF CommitsMoved
<1>12. \A f \in Refs : x.before[f] # None => HasMoved(x.before[f])
  BY <1>5, <1>8, <1>t DEF CommitsMoved
<1>13. pushes[p].repo = 0
  BY <1>2, <1>3, <1>t DEF Stages
<1>14. Flight(p)'
  <2>1. Before(p)' = RefNow(p)'
    BY <1>2, <1>8, <1>10 DEF Before, RefNow
  <2>2. p # None => Before(p)' # p
    <3>1. Before(p)' = x.before[pushes[p].ref]
      BY <1>8, <1>10 DEF Before
    <3> QED BY <3>1, <1>4, <1>12 DEF HasMoved
  <2> QED BY <2>1, <2>2, <1>2, <1>4, <1>8, <1>10, <1>13 DEF Flight
<1> QED BY <1>2, <1>3, <1>4, <1>8, <1>9, <1>11, <1>12, <1>14, OnePush

\* A push that ends, however: refused, too big, or closed and logged.
LEMMA EndedInv ==
  ASSUME PInv, NEW p \in Pushes, Begun(p), pushes' = [pushes EXCEPT ![p] = Ended(p)],
         repo' = repo, made' = made, refs' = refs, log \subseteq log',
         InFlight(p) /\ Clean =>
           \A q \in Pushes : HasMoved(q) /\ q # None /\ (Takes(p, q) \/ (q = p /\ RefNow(p) = p))
                             => Logged(q)'
  PROVE  PInv'
<1>t. PushesTyped /\ Stages
  BY DEF PInv
<1>1. PICK x : x = Ended(p)
  OBVIOUS
<1>2. pushes[p] \in Push /\ pushes[p].new \in {p, None}
  BY <1>t, PushFacts DEF Stages
<1>3. NoRefs \in [Refs -> Commits] /\ \A f \in Refs : NoRefs[f] = None
  BY DEF NoRefs, Commits
<1>4. /\ x \in Push /\ x.at = "done" /\ x.before = NoRefs /\ x.old = None
      /\ x.moved = pushes[p].moved /\ x.new = pushes[p].new
      /\ x.slug = pushes[p].slug /\ x.ref = pushes[p].ref /\ x.cut = pushes[p].cut
  <2> HIDE DEF NoRefs
  <2>1. x = [pushes[p] EXCEPT !.at = "done", !.before = NoRefs, !.old = None, !.repo = 0]
    BY <1>1 DEF Ended
  <2>2. None \in Commits /\ 0 \in 0..MaxRepos /\ NoRefs \in [Refs -> Commits]
    BY <1>3, BoundsAssumption DEF Commits
  <2> HIDE DEF None
  <2>3. x \in Push
    BY <2>1, <2>2, <1>2 DEF Push
  <2>4. /\ x.at = "done" /\ x.before = NoRefs /\ x.old = None
        /\ x.moved = pushes[p].moved /\ x.new = pushes[p].new
        /\ x.slug = pushes[p].slug /\ x.ref = pushes[p].ref /\ x.cut = pushes[p].cut
    BY <2>1, <1>2 DEF Push
  <2> QED BY <2>3, <2>4
<1>5. pushes' = [pushes EXCEPT ![p] = x]
  BY <1>1
<1> QED BY <1>2, <1>3, <1>4, <1>5, OnePush

LEMMA RefusedInv ==
  ASSUME PInv, NEW p \in Pushes, PostRefused(p) \/ TooBig(p)
  PROVE  PInv'
<1>1. /\ Begun(p) /\ pushes' = [pushes EXCEPT ![p] = Ended(p)]
      /\ repo' = repo /\ made' = made /\ refs' = refs /\ log' = log
      /\ InFlight(p) => ~pushes[p].moved
  BY DEF PostRefused, TooBig, InFlight, Begun, repositories
<1>2. InFlight(p) => \A q \in Pushes : ~Takes(p, q) /\ ~(q = p /\ HasMoved(q))
  BY <1>1 DEF Takes, HasMoved
<1> QED BY <1>1, <1>2, EndedInv

\* git ends, and what its push moved is logged: what the push took the ref from,
\* or its own commit.
LEMMA ClosedInv ==
  ASSUME PInv, NEW p \in Pushes, Close(p), repo[pushes[p].slug] # 0
  PROVE  PInv'
<1>t. PushesTyped
  BY DEF PInv
<1>1. /\ InFlight(p) /\ Begun(p) /\ pushes' = [pushes EXCEPT ![p] = Ended(p)]
      /\ repo' = repo /\ made' = made /\ refs' = refs
  BY DEF Close, InFlight, Begun, repositories
<1> DEFINE changes == RefChanges(pushes[p].before, RefsAt(pushes[p].slug))
<1>2. log' = log \cup IF changes = {} THEN {}
                      ELSE {[push |-> p, by |-> pushes[p].by, slug |-> pushes[p].slug, refs |-> changes]}
  BY DEF Close
<1>3. ASSUME Clean, NEW q \in Pushes, HasMoved(q), q # None,
             Takes(p, q) \/ (q = p /\ RefNow(p) = p)
      PROVE  Logged(q)'
  <2>1. Flight(p) /\ pushes[p].ref \in Refs
    BY <1>1, <1>3, FlightFacts
  <2>2. RefsAt(pushes[p].slug)[pushes[p].ref] = RefNow(p)
    BY DEF RefsAt, RefNow
  <2>3. Before(p) # RefNow(p) /\ q \in {Before(p), RefNow(p)}
    BY <1>3, <2>1 DEF Flight, Takes
  <2>4. PICK change : change = [ref |-> pushes[p].ref, from |-> Before(p), to |-> RefNow(p)]
    OBVIOUS
  <2>5. change \in changes
    BY <2>1, <2>2, <2>3, <2>4 DEF RefChanges, Before
  <2>6. PICK entry : entry = [push |-> p, by |-> pushes[p].by, slug |-> pushes[p].slug, refs |-> changes]
    OBVIOUS
  <2>7. entry \in log' /\ entry.refs = changes /\ entry.slug = pushes[p].slug
    <3> HIDE DEF changes
    <3> QED BY <1>2, <2>5, <2>6
  <2>8. pushes'[q].slug = pushes[p].slug /\ pushes'[q].ref = pushes[p].ref
    <3>1. pushes[q].slug = pushes[p].slug /\ pushes[q].ref = pushes[p].ref
      BY <1>3 DEF Takes
    <3>2. q # p => pushes'[q] = pushes[q]
      BY <1>1
    <3>3. pushes[p] \in Push
      BY <1>1, <1>t, PushFacts
    <3>4. pushes'[p] = Ended(p)
      BY <1>1, <1>t DEF PushesTyped
    <3>5. Ended(p).slug = pushes[p].slug /\ Ended(p).ref = pushes[p].ref
      BY <3>3 DEF Ended, Push
    <3> QED BY <3>1, <3>2, <3>4, <3>5
  <2>9. change.ref = pushes[p].ref /\ q \in {change.from, change.to}
    BY <2>3, <2>4
  <2> QED BY <2>5, <2>7, <2>8, <2>9 DEF Logged
<1>4. log \subseteq log'
  BY <1>2
<1> QED BY <1>1, <1>3, <1>4, EndedInv

LEMMA GitOpensInv ==
  ASSUME PInv, NEW p \in Pushes, GitOpens(p)
  PROVE  PInv'
<1>t. PushesTyped /\ CommitsMoved /\ Stages
  BY DEF PInv
<1>1. PICK x : x = [pushes[p] EXCEPT !.repo = repo[pushes[p].slug]]
  OBVIOUS
<1>2. /\ pushes[p].at \in {"posted", "left"} /\ pushes[p].repo = 0 /\ repo[pushes[p].slug] # 0
      /\ repo' = repo /\ made' = made /\ refs' = refs /\ log' = log
  BY DEF GitOpens, GitRuns, repositories
<1>3. Begun(p)
  BY <1>2 DEF Begun
<1>4. /\ pushes[p] \in Push /\ pushes[p].slug \in Slugs
      /\ pushes[p].new \in {p, None}
      /\ pushes[p].at = "left" => pushes[p].cut
  BY <1>3, <1>t, PushFacts DEF Stages
<1>5. repo[pushes[p].slug] \in 0..MaxRepos
  BY <1>4, <1>t DEF PushesTyped
<1>6. /\ x \in Push /\ x.at = pushes[p].at /\ x.before = pushes[p].before
      /\ x.moved = pushes[p].moved /\ x.new = pushes[p].new
      /\ x.slug = pushes[p].slug /\ x.ref = pushes[p].ref /\ x.cut = pushes[p].cut
      /\ x.old = pushes[p].old /\ x.repo = repo[pushes[p].slug]
  BY <1>1, <1>4, <1>5 DEF Push
<1>7. pushes' = [pushes EXCEPT ![p] = x]
  BY <1>1, <1>t DEF GitOpens, PushesTyped
<1>8. pushes'[p] = x
  BY <1>7, <1>t DEF PushesTyped
<1>9. /\ x.old # None => HasMoved(x.old)
      /\ \A f \in Refs : x.before[f] # None => HasMoved(x.before[f])
  BY <1>3, <1>6, <1>t DEF CommitsMoved
<1>10. x.at = "posted" /\ Clean => Flight(p)'
  <2> SUFFICES ASSUME x.at = "posted", Clean PROVE Flight(p)'
    OBVIOUS
  <2>1. Flight(p)
    BY <1>6, FlightFacts DEF InFlight
  <2> QED BY <2>1, <1>2, <1>6, <1>8 DEF Flight, Before, RefNow
<1>11. x.at # "posted" => ~InFlight(p)
  BY <1>6 DEF InFlight
<1>12. x.at # "advertised"
  BY <1>2, <1>6
<1> QED BY <1>2, <1>3, <1>4, <1>6, <1>7, <1>9, <1>10, <1>11, <1>12, OnePush

\* git moves a ref: its commit is on it, and the commit it took is accounted for.
LEMMA GitMovesInv ==
  ASSUME PInv, NEW p \in Pushes, GitMoves(p)
  PROVE  PInv'
<1>t. PushesTyped /\ ReposApart /\ CommitsMoved /\ Stages /\ Flights /\ Accounts
  BY DEF PInv
<1>1. /\ pushes[p].at \in {"posted", "left"} /\ pushes[p].repo # 0 /\ ~pushes[p].moved
      /\ refs[pushes[p].repo][pushes[p].ref] = pushes[p].old
      /\ repo' = repo /\ made' = made /\ log' = log
  BY DEF GitMoves, GitRuns
<1>2. Begun(p)
  BY <1>1 DEF Begun
<1>3. /\ pushes[p] \in Push /\ pushes[p].slug \in Slugs /\ pushes[p].ref \in Refs
      /\ pushes[p].new \in Commits /\ pushes[p].new \in {p, None} /\ pushes[p].repo \in 0..MaxRepos
      /\ pushes[p].at = "left" => pushes[p].cut
  BY <1>2, <1>t, PushFacts DEF Stages
<1>4. pushes[p].repo \in Repos
  BY <1>1, <1>3, BoundsAssumption DEF Repos
<1>5. PICK r \in Repos : r = pushes[p].repo
  BY <1>4
<1>6. PICK f \in Refs : f = pushes[p].ref
  BY <1>3
<1>7. PICK new \in Commits : new = pushes[p].new
  BY <1>3
<1>8. refs' = [refs EXCEPT ![r][f] = new]
  BY <1>5, <1>6, <1>7 DEF GitMoves
<1>9. PICK x : x = [pushes[p] EXCEPT !.moved = TRUE]
  OBVIOUS
<1>10. /\ x \in Push /\ x.at = pushes[p].at /\ x.before = pushes[p].before
       /\ x.moved = TRUE /\ x.new = pushes[p].new
       /\ x.slug = pushes[p].slug /\ x.ref = pushes[p].ref /\ x.cut = pushes[p].cut
       /\ x.old = pushes[p].old /\ x.repo = pushes[p].repo
  BY <1>3, <1>9 DEF Push
<1>11. pushes' = [pushes EXCEPT ![p] = x]
  BY <1>9, <1>t DEF GitMoves, PushesTyped
<1>12. pushes'[p] = x /\ \A q \in Pushes : q # p => pushes'[q] = pushes[q]
  BY <1>11, <1>t DEF PushesTyped
<1>13. \A q \in Pushes : Begun(q)' = Begun(q) /\ InFlight(q)' = InFlight(q)
  BY <1>10, <1>12 DEF Begun, InFlight
<1>14. \A c : HasMoved(c) => HasMoved(c)'
  BY <1>10, <1>12, <1>13 DEF HasMoved
<1>15. ~HasMoved(p) /\ (new # None => new = p /\ HasMoved(p)')
  BY <1>1, <1>2, <1>3, <1>7, <1>10, <1>12, <1>13 DEF HasMoved
<1>16. /\ refs'[r][f] = new
       /\ \A s \in Repos, g \in Refs : ~(s = r /\ g = f) => refs'[s][g] = refs[s][g]
  BY <1>8, <1>t DEF PushesTyped
<1>17. PushesTyped'
  <2>1. pushes' \in [Pushes -> {Idle} \cup Push]
    BY <1>10, <1>11, <1>t DEF PushesTyped
  <2>2. refs' \in [Repos -> [Refs -> Commits]]
    BY <1>8, <1>t DEF PushesTyped
  <2> QED BY <2>1, <2>2, <1>1, <1>t DEF PushesTyped
<1>18. ReposApart'
  BY <1>1, <1>t DEF ReposApart
<1>19. Stages'
  <2> SUFFICES ASSUME NEW q \in Pushes, Begun(q)'
               PROVE  /\ pushes'[q].new \in {q, None}
                      /\ pushes'[q].at = "advertised" => ~pushes'[q].moved /\ pushes'[q].repo = 0
                      /\ pushes'[q].at = "left" => pushes'[q].cut
    BY DEF Stages
  <2>1. CASE q = p
    BY <2>1, <1>1, <1>3, <1>10, <1>12
  <2>2. CASE q # p
    BY <2>2, <1>12, <1>13, <1>t DEF Stages
  <2> QED BY <2>1, <2>2
<1>20. CommitsMoved'
  <2>1. ASSUME NEW s \in Repos, NEW g \in Refs, refs'[s][g] # None PROVE HasMoved(refs[s][g])'
    <3>1. PICK c : c = refs'[s][g]
      OBVIOUS
    <3>2. HasMoved(c)'
      <4>1. CASE s = r /\ g = f
        BY <2>1, <3>1, <4>1, <1>15, <1>16
      <4>2. CASE ~(s = r /\ g = f)
        BY <2>1, <3>1, <4>2, <1>14, <1>16, <1>t DEF CommitsMoved
      <4> QED BY <4>1, <4>2
    <3> QED BY <3>1, <3>2
  <2>2. ASSUME NEW q \in Pushes, Begun(q)', pushes'[q].old # None PROVE HasMoved(pushes[q].old)'
    <3>1. PICK c : c = pushes'[q].old
      OBVIOUS
    <3>2. pushes[q].old = c
      BY <3>1, <1>10, <1>12
    <3>3. HasMoved(c)
      BY <2>2, <3>1, <3>2, <1>13, <1>t DEF CommitsMoved
    <3>4. HasMoved(c)'
      BY <3>3, <1>14
    <3> QED BY <3>1, <3>4
  <2>3. ASSUME NEW q \in Pushes, Begun(q)', NEW g \in Refs, pushes'[q].before[g] # None
        PROVE  HasMoved(pushes[q].before[g])'
    <3>1. PICK c : c = pushes'[q].before[g]
      OBVIOUS
    <3>2. pushes[q].before[g] = c
      BY <3>1, <1>10, <1>12
    <3>3. HasMoved(c)
      BY <2>3, <3>1, <3>2, <1>13, <1>t DEF CommitsMoved
    <3>4. HasMoved(c)'
      BY <3>3, <1>14
    <3> QED BY <3>1, <3>4
  <2> QED BY <2>1, <2>2, <2>3 DEF CommitsMoved
<1>21. Clean' => Clean /\ InFlight(p)
  <2> SUFFICES ASSUME Clean' PROVE Clean /\ InFlight(p)
    OBVIOUS
  <2>1. \A q \in Pushes : CutShort(q)' = CutShort(q)
    BY <1>10, <1>12 DEF CutShort
  <2>2. Clean
    BY <2>1 DEF Clean
  <2>3. ~CutShort(p)
    BY <2>2 DEF Clean
  <2>4. pushes[p].at # "left"
    BY <2>3, <1>2, <1>3 DEF CutShort, Begun
  <2> QED BY <2>2, <2>4, <1>1 DEF InFlight
\* The ref moved is the one the push finds at its path.
<1>22. ASSUME Clean' PROVE Flight(p) /\ repo[pushes[p].slug] = r /\ RefNow(p) = pushes[p].old
  <2>1. Flight(p)
    BY <1>21, <1>22, FlightFacts
  <2> QED BY <2>1, <1>1, <1>5 DEF Flight, RefNow
<1>23. Flights'
  <2> SUFFICES ASSUME Clean', NEW q \in Pushes, InFlight(q)' PROVE Flight(q)'
    BY DEF Flights
  <2>1. /\ Flight(q) /\ Begun(q) /\ repo[pushes[q].slug] \in Repos /\ pushes[q].ref \in Refs
    BY <1>13, <1>21, FlightFacts
  <2>2. /\ pushes'[q].slug = pushes[q].slug /\ pushes'[q].ref = pushes[q].ref /\ Before(q)' = Before(q)
        /\ pushes'[q].old = pushes[q].old /\ pushes'[q].repo = pushes[q].repo
    BY <1>10, <1>12 DEF Before
  <2>3. Before(q) # None => HasMoved(Before(q))
    BY <2>1, <1>t DEF CommitsMoved, Before
  <2>4. pushes[q].old # None => HasMoved(pushes[q].old)
    BY <2>1, <1>t DEF CommitsMoved
  <2>5. RefNow(q)' = refs'[repo[pushes[q].slug]][pushes[q].ref]
    BY <2>2, <1>1 DEF RefNow
  <2>6. RefNow(q)' \in {RefNow(q), new}
    BY <2>1, <2>5, <1>16 DEF RefNow
  <2>7. RefNow(q)' = new /\ new # None => Before(q) # RefNow(q)' /\ pushes[q].old # RefNow(q)'
    BY <2>3, <2>4, <1>15, <1>7, <1>3
  <2>8. CASE q = p
    <3>1. RefNow(p)' = new
      BY <2>5, <2>8, <1>5, <1>6, <1>16, <1>22
    <3>2. Before(p)' # None => RefNow(p)' # Before(p)'
      BY <3>1, <2>2, <2>7, <2>8
    <3>3. pushes'[p].moved = TRUE
      BY <1>10, <1>12
    <3> QED BY <3>2, <3>3, <2>1, <2>2, <2>8, <1>1 DEF Flight
  <2>9. CASE q # p
    <3>1. pushes'[q] = pushes[q]
      BY <2>9, <1>12
    <3>2. CASE RefNow(q)' = RefNow(q)
      BY <3>1, <3>2, <2>1, <2>2, <1>1 DEF Flight
    <3>3. CASE RefNow(q)' = new
      BY <3>1, <3>3, <2>1, <2>2, <2>7, <1>1 DEF Flight
    <3> QED BY <2>6, <3>2, <3>3
  <2> QED BY <2>8, <2>9
<1>24. Accounts'
  <2> SUFFICES ASSUME Clean', NEW q \in Pushes, HasMoved(q)', q # None
               PROVE  Accounted(q)' \/ (InFlight(q)' /\ RefNow(q)' = q)
    BY DEF Accounts
  <2>0. /\ \A z \in Pushes : pushes'[z].slug = pushes[z].slug /\ pushes'[z].ref = pushes[z].ref
                              /\ Before(z)' = Before(z)
    BY <1>10, <1>12 DEF Before
  <2>1. CASE q = p
    <3>1. new = p
      BY <2>1, <1>7, <1>10, <1>12 DEF HasMoved
    <3>2. RefNow(p)' = new
      BY <2>0, <1>1, <1>6, <1>16, <1>22 DEF RefNow
    <3> QED BY <2>1, <3>1, <3>2, <1>13, <1>21
  <2>2. CASE q # p
    <3>1. HasMoved(q)
      BY <2>2, <1>12, <1>13 DEF HasMoved
    <3>2. Accounted(q) \/ (InFlight(q) /\ RefNow(q) = q)
      BY <3>1, <1>21, <1>t DEF Accounts
    <3>3. CASE Logged(q)
      <4>1. Logged(q)'
        BY <2>0, <3>3, <1>1 DEF Logged
      <4> QED BY <4>1 DEF Accounted
    <3>4. ASSUME NEW z \in Pushes, Takes(z, q) PROVE Accounted(q)'
      <4>1. z # p
        BY <3>4, <1>1 DEF Takes
      <4>2. Takes(z, q)'
        BY <2>0, <3>4, <4>1, <1>12, <1>13 DEF Takes
      <4> QED BY <4>2 DEF Accounted
    <3>5. CASE InFlight(q) /\ RefNow(q) = q
      <4>1. /\ Flight(q) /\ repo[pushes[q].slug] \in Repos /\ pushes[q].ref \in Refs /\ pushes[q].slug \in Slugs
        BY <3>5, <1>21, FlightFacts
      <4>2. RefNow(q)' = refs'[repo[pushes[q].slug]][pushes[q].ref]
        BY <2>0, <1>1 DEF RefNow
      <4>3. CASE repo[pushes[q].slug] = r /\ pushes[q].ref = f
        <5>1. pushes[q].slug = pushes[p].slug
          BY <4>1, <4>3, <1>1, <1>3, <1>5, <1>22, <1>t DEF ReposApart
        <5>2. RefNow(p) = q /\ pushes[p].old = q
          BY <3>5, <4>3, <5>1, <1>6, <1>22 DEF RefNow
        <5>3. Before(p) = q
          BY <5>2, <1>1, <1>22 DEF Flight
        <5>4. Takes(p, q)'
          BY <5>1, <5>3, <4>3, <2>0, <1>6, <1>10, <1>12, <1>13, <1>21 DEF Takes
        <5> QED BY <5>4 DEF Accounted
      <4>4. CASE ~(repo[pushes[q].slug] = r /\ pushes[q].ref = f)
        <5>1. RefNow(q)' = q
          BY <3>5, <4>1, <4>2, <4>4, <1>16 DEF RefNow
        <5> QED BY <5>1, <3>5, <1>13
      <4> QED BY <4>3, <4>4
    <3> QED BY <3>2, <3>3, <3>4, <3>5 DEF Accounted
  <2> QED BY <2>1, <2>2
<1> QED BY <1>17, <1>18, <1>19, <1>20, <1>23, <1>24 DEF PInv

\* The server stops under the pushes it had: they are cut short.
LEMMA StoppedInv ==
  ASSUME PInv, NEW p \in Pushes, Close(p), repo[pushes[p].slug] = 0
  PROVE  PInv'
<1>t. PushesTyped /\ ReposApart
  BY DEF PInv
<1>1. PICK cut : cut = {q \in Pushes : InFlight(q)}
  OBVIOUS
<1>2. /\ repo' = repo /\ made' = made /\ refs' = refs /\ p \in cut
      /\ pushes' = [q \in Pushes |-> IF InFlight(q)
                       THEN [pushes[q] EXCEPT !.at = "left", !.cut = TRUE] ELSE pushes[q]]
  BY <1>1 DEF Close, repositories
<1>3. cut \in SUBSET Pushes /\ \A q \in cut : Begun(q)
  BY <1>1 DEF Begun, InFlight
<1>4. pushes' = [q \in Pushes |-> IF q \in cut
                   THEN [pushes[q] EXCEPT !.at = "left", !.cut = TRUE] ELSE pushes[q]]
  BY <1>1, <1>2
<1>5. ReposApart'
  BY <1>2, <1>t DEF ReposApart
<1>6. PushesTyped' /\ Stages' /\ CommitsMoved' /\ ~Clean'
  BY <1>2, <1>3, <1>4, <1>5, <1>t, CutStep DEF PushesTyped
<1> QED BY <1>5, <1>6 DEF PInv, Flights, Accounts

\* What a call or a command does to the repositories: one is made where there
\* is none, or one goes, and with it every push to it.
LEMMA DoesFacts ==
  ASSUME NEW ask, NEW by, Does(ask, by)
  PROVE  /\ refs' = refs
         /\ \/ repo' = repo /\ made' = made /\ ask.do # "delete"
            \/ /\ made < MaxRepos /\ made' = made + 1 /\ repo[ask.slug] = 0
               /\ repo' = [repo EXCEPT ![ask.slug] = made + 1] /\ ask.do # "delete"
            \/ /\ made' = made /\ repo' = [repo EXCEPT ![ask.slug] = 0] /\ ask.do = "delete"
<1>1. CASE ask.do = "create" /\ (CreateCollection(ask.slug, by) \/ CreateFails(ask.slug))
  BY <1>1 DEF CreateCollection, CreateFails
<1>2. CASE ask.do = "delete" /\ DeleteCollection(ask.slug)
  BY <1>2 DEF DeleteCollection
<1>3. CASE ask.do = "set" /\ SetRole(ask.slug, ask.user, ask.role)
  BY <1>3 DEF SetRole, repositories
<1>4. CASE ask.do = "unset" /\ RemoveMember(ask.slug, ask.user)
  BY <1>4 DEF RemoveMember, repositories
<1>5. CASE OfAccounts(ask) /\ Writes(ask)
  BY <1>5 DEF OfAccounts, Writes, repositories
<1> QED BY <1>1, <1>2, <1>3, <1>4, <1>5 DEF Does

LEMMA DoesInv ==
  ASSUME PInv, NEW ask, NEW by, Does(ask, by), log' = log,
         pushes' = IF ask.do = "delete"
                   THEN Cut({p \in Pushes : InFlight(p) /\ pushes[p].slug = ask.slug}) ELSE pushes
  PROVE  PInv'
<1>t. PushesTyped /\ ReposApart /\ Stages /\ CommitsMoved /\ Flights /\ Accounts
  BY DEF PInv
<1>m. made \in 0..MaxRepos /\ MaxRepos \in Nat /\ repo \in [Slugs -> 0..MaxRepos]
  BY <1>t, BoundsAssumption DEF PushesTyped
<1>1. PICK cut : cut = {p \in Pushes : ask.do = "delete" /\ InFlight(p) /\ pushes[p].slug = ask.slug}
  OBVIOUS
<1>2. cut \in SUBSET Pushes /\ \A p \in cut : Begun(p)
  BY <1>1 DEF Begun, InFlight
<1>3. pushes' = [p \in Pushes |-> IF p \in cut THEN [pushes[p] EXCEPT !.cut = TRUE] ELSE pushes[p]]
  <2>1. CASE ask.do = "delete"
    BY <1>1, <2>1 DEF Cut
  <2>2. CASE ask.do # "delete"
    <3>1. pushes' = pushes /\ cut = {}
      BY <1>1, <2>2
    <3> QED BY <3>1, <1>t DEF PushesTyped
  <2> QED BY <2>1, <2>2
<1>4. /\ refs' = refs
      /\ \/ repo' = repo /\ made' = made /\ ask.do # "delete"
         \/ /\ made < MaxRepos /\ made' = made + 1 /\ repo[ask.slug] = 0
            /\ repo' = [repo EXCEPT ![ask.slug] = made + 1] /\ ask.do # "delete"
         \/ /\ made' = made /\ repo' = [repo EXCEPT ![ask.slug] = 0] /\ ask.do = "delete"
  BY DoesFacts
<1>5. /\ repo' \in [Slugs -> 0..MaxRepos] /\ made' \in 0..MaxRepos
  <2>1. CASE repo' = repo /\ made' = made
    BY <2>1, <1>m
  <2>2. CASE made < MaxRepos /\ made' = made + 1 /\ repo' = [repo EXCEPT ![ask.slug] = made + 1]
    <3>1. made + 1 \in 0..MaxRepos
      BY <2>2, <1>m
    <3> QED BY <2>2, <3>1, <1>m
  <2>3. CASE made' = made /\ repo' = [repo EXCEPT ![ask.slug] = 0]
    <3>1. 0 \in 0..MaxRepos
      BY <1>m
    <3> QED BY <2>3, <3>1, <1>m
  <2> QED BY <1>4, <2>1, <2>2, <2>3
<1>6. \A s \in Slugs : \/ repo'[s] = repo[s]
                       \/ s = ask.slug /\ repo'[s] = 0 /\ ask.do = "delete"
                       \/ s = ask.slug /\ repo'[s] = made + 1 /\ made' = made + 1 /\ repo[s] = 0
  BY <1>4, <1>m
<1>7. ReposApart'
  <2>1. made' \in {made, made + 1}
    BY <1>4
  <2>2. \A s \in Slugs : repo[s] <= made /\ repo[s] \in Nat
    BY <1>m, <1>t DEF ReposApart
  <2>3. \A s \in Slugs : repo'[s] <= made'
    BY <1>6, <2>1, <2>2, <1>m
  <2>4. ASSUME NEW s \in Slugs, NEW t \in Slugs, repo'[s] = repo'[t], repo'[s] # 0 PROVE s = t
    BY <2>2, <2>4, <1>6, <1>m, <1>t DEF ReposApart
  <2> QED BY <2>3, <2>4 DEF ReposApart
<1>8. PushesTyped' /\ Stages' /\ CommitsMoved' /\ (cut # {} => ~Clean')
  BY <1>2, <1>3, <1>4, <1>5, <1>7, CutStep
<1>9. CASE cut # {}
  BY <1>7, <1>8, <1>9 DEF PInv, Flights, Accounts
<1>10. CASE cut = {}
  <2>1. pushes' = pushes
    BY <1>3, <1>10, <1>t DEF PushesTyped
  <2>2. Clean' = Clean /\ \A p \in Pushes : InFlight(p)' = InFlight(p) /\ HasMoved(p)' = HasMoved(p)
    BY <2>1 DEF Clean, CutShort, InFlight, HasMoved, Begun
  <2>3. ASSUME Clean, NEW p \in Pushes, InFlight(p) PROVE repo'[pushes[p].slug] = repo[pushes[p].slug]
    <3>1. Flight(p) /\ pushes[p].slug \in Slugs
      BY <2>3, FlightFacts
    <3>2. ~(ask.do = "delete" /\ pushes[p].slug = ask.slug)
      BY <2>3, <1>1, <1>10
    <3> QED BY <3>1, <3>2, <1>6 DEF Flight
  <2>4. Flights'
    <3> SUFFICES ASSUME Clean, NEW p \in Pushes, InFlight(p) PROVE Flight(p)'
      BY <2>2 DEF Flights
    <3>1. Flight(p)
      BY <1>t DEF Flights
    <3> QED BY <3>1, <2>1, <2>3, <1>4 DEF Flight, RefNow, Before
  <2>5. Accounts'
    <3> SUFFICES ASSUME Clean, NEW p \in Pushes, HasMoved(p), p # None
                 PROVE  Accounted(p)' \/ (InFlight(p)' /\ RefNow(p)' = p)
      BY <2>2 DEF Accounts
    <3>1. Accounted(p) \/ (InFlight(p) /\ RefNow(p) = p)
      BY <1>t DEF Accounts
    <3>2. Accounted(p) => Accounted(p)'
      BY <2>1 DEF Accounted, Logged, Takes, InFlight, Before
    <3>3. InFlight(p) => RefNow(p)' = RefNow(p)
      BY <2>1, <2>3, <1>4 DEF RefNow
    <3> QED BY <3>1, <3>2, <3>3, <2>2
  <2> QED BY <2>4, <2>5, <1>7, <1>8 DEF PInv
<1> QED BY <1>9, <1>10

LEMMA HandleInv ==
  ASSUME PInv, NEW c \in Calls, Handle(c)
  PROVE  PInv'
<1>1. PICK ask : ask = requests[c].ask
  OBVIOUS
<1>2. PICK by : by = requests[c].by
  OBVIOUS
<1>3. /\ Does(ask, by) /\ log' = log
      /\ pushes' = IF ask.do = "delete"
                   THEN Cut({p \in Pushes : InFlight(p) /\ pushes[p].slug = ask.slug}) ELSE pushes
  BY <1>1, <1>2 DEF Handle
<1> QED BY <1>3, DoesInv

LEMMA NothingMovedInv ==
  ASSUME PInv, UNCHANGED <<repo, made, refs, pushes, log>>
  PROVE  PInv'
<1>1. PushesTyped' /\ ReposApart' /\ Stages' /\ CommitsMoved'
  BY DEF PInv, PushesTyped, ReposApart, Stages, CommitsMoved, HasMoved, Begun
<1>2. Flights' /\ Accounts'
  BY DEF PInv, Flights, Flight, Accounts, Accounted, Logged, Takes, HasMoved, Begun, Clean, CutShort,
         InFlight, RefNow, Before
<1> QED BY <1>1, <1>2 DEF PInv

-----------------------------------------------------------------------------
\* The invariant of the repositories, the pushes and the log holds throughout.
THEOREM SpecPInv == Spec => []PInv
<1>1. PInv /\ [Next]_vars => PInv'
  <2> SUFFICES ASSUME PInv, [Next]_vars PROVE PInv'
    OBVIOUS
  <2>1. ASSUME NEW c \in Calls, Handle(c) PROVE PInv'
    BY <2>1, HandleInv
  <2>2. ASSUME NEW k \in Commands,
               (\E ask \in Asks : CommandChecks(k, ask)) \/ CommandWrites(k) \/ CommandFails(k)
        PROVE  PInv'
    <3>1. UNCHANGED <<repo, made, refs, pushes, log>>
      BY <2>2 DEF CommandChecks, CommandWrites, CommandFails, Writes, repositories
    <3> QED BY <3>1, NothingMovedInv
  <2>3. ASSUME NEW p \in Pushes, NEW u \in Users, NEW s \in Slugs, NEW f \in Refs, NEW new \in Commits,
               Advertise(p, u, s, f, new)
        PROVE  PInv'
    BY <2>3, AdvertiseInv
  <2>4. ASSUME NEW p \in Pushes, Post(p) PROVE PInv'
    BY <2>4, PostInv
  <2>5. ASSUME NEW p \in Pushes, PostRefused(p) \/ TooBig(p) PROVE PInv'
    BY <2>5, RefusedInv
  <2>6. ASSUME NEW p \in Pushes, Close(p) PROVE PInv'
    BY <2>6, ClosedInv, StoppedInv
  <2>7. ASSUME NEW p \in Pushes, GitOpens(p) PROVE PInv'
    BY <2>7, GitOpensInv
  <2>8. ASSUME NEW p \in Pushes, GitMoves(p) PROVE PInv'
    BY <2>8, GitMovesInv
  <2>9. ASSUME NEW c \in Calls,
               (\E u \in Users, ask \in Asks : SignIn(c, u, ask)) \/ ReadBody(c) \/ Refuse(c)
        PROVE  PInv'
    <3>1. UNCHANGED <<repo, made, refs, pushes, log>>
      BY <2>9 DEF SignIn, ReadBody, Refuse, repositories
    <3> QED BY <3>1, NothingMovedInv
  <2>10. CASE Restart \/ UNCHANGED vars
    <3>1. UNCHANGED <<repo, made, refs, pushes, log>>
      BY <2>10 DEF Restart, repositories, vars
    <3> QED BY <3>1, NothingMovedInv
  <2>11. CASE up /\ Serves
    <3>1. CASE \E c \in Calls :
                 \/ \E u \in Users, ask \in Asks : SignIn(c, u, ask)
                 \/ ReadBody(c) \/ Handle(c) \/ Refuse(c)
      BY <3>1, <2>1, <2>9
    <3>2. CASE \E p \in Pushes :
                 \/ \E u \in Users, s \in Slugs, f \in Refs, new \in Commits : Advertise(p, u, s, f, new)
                 \/ Post(p) \/ PostRefused(p) \/ TooBig(p) \/ Close(p)
      BY <3>2, <2>3, <2>4, <2>5, <2>6
    <3> QED BY <2>11, <3>1, <3>2 DEF Serves
  <2> QED BY <2>2, <2>7, <2>8, <2>10, <2>11 DEF Next
<1> QED BY <1>1, InitPInv, PTL DEF Spec

\* Once no push is under way, and none was cut short by its collection's or its
\* server's end, every commit that a push put on a ref is in the log, however
\* many pushes overlapped.
THEOREM EveryPushInLog == Spec => []PushesInLog
<1>1. PInv => PushesInLog
  <2> SUFFICES ASSUME PInv, \A p \in Pushes : ~InFlight(p) /\ ~CutShort(p),
                      NEW p \in Pushes, pushes[p].at = "done", pushes[p].moved, pushes[p].new # None
               PROVE  Logged(p)
    BY DEF PushesInLog, Logged
  <2>1. Begun(p) /\ Clean
    BY DEF Begun, Clean
  <2>2. HasMoved(p) /\ p # None
    BY <2>1 DEF PInv, Stages, HasMoved
  <2>3. Accounted(p)
    BY <2>1, <2>2 DEF PInv, Accounts
  <2> QED BY <2>3 DEF Accounted, Takes
<1> QED BY <1>1, SpecPInv, PTL

-----------------------------------------------------------------------------
(* Names *)

LEMMA Finite == IsFiniteSet(Paths)
<1> USE DataAssumption
<1> DEFINE T == Dirs \X (Names \X Copies)
<1> DEFINE f == [t \in T |-> Path(t[1], t[2][1], t[2][2])]
<1>1. IsFiniteSet(Dirs)
  <2>1. IsFiniteSet({"top"}) /\ IsFiniteSet({"sub"})
    BY FS_Singleton
  <2>2. IsFiniteSet({"top"} \cup {"sub"})
    BY <2>1, FS_Union
  <2>3. Dirs = {"top"} \cup {"sub"}
    BY DEF Dirs
  <2> QED BY <2>2, <2>3
<1>2. IsFiniteSet(T)
  BY <1>1, FS_Product
<1>3. f \in Surjection(T, Requests)
  <2>1. f \in [T -> Requests]
    BY DEF Path, Requests
  <2>2. ASSUME NEW p \in Requests
        PROVE  \E t \in T : f[t] = p
    <3>1. <<p.dir, <<p.name, p.n>>>> \in T
      BY DEF Requests
    <3>2. f[<<p.dir, <<p.name, p.n>>>>] = p
      BY <3>1 DEF Path, Requests
    <3> QED BY <3>1, <3>2
  <2> QED BY <2>1, <2>2 DEF Surjection
<1>4. IsFiniteSet(Requests)
  <2> HIDE DEF f, T
  <2> QED BY <1>2, <1>3, FS_Surjection
<1>5. IsFiniteSet(Requests \cup {Collection}) 
  BY <1>4, FS_AddElement
<1>6. IsFiniteSet((Requests \cup {Collection}) \cup {FolderFile})
  BY <1>5, FS_AddElement
<1>7. Paths = (Requests \cup {Collection}) \cup {FolderFile}
  BY DEF Paths
<1> QED BY <1>6, <1>7

\* A finite set of numbers has a k-th, up to its size.
LEMMA NthIsThere ==
  ASSUME NEW S, S \subseteq Nat, IsFiniteSet(S), NEW k \in 1 .. Cardinality(S)
  PROVE  Nth(S, k) \in S /\ Cardinality({m \in S : m <= Nth(S, k)}) = k
<1> DEFINE Upto(n) == {m \in S : m <= n}
           rank == [n \in S |-> Cardinality(Upto(n))]
           ranks == 1 .. Cardinality(S)
<1>1. Cardinality(S) \in Nat
  BY FS_CardinalityType
<1>2. ASSUME NEW n \in S
      PROVE  /\ IsFiniteSet(Upto(n)) /\ Cardinality(Upto(n)) \in Nat
             /\ Cardinality(Upto(n)) \in ranks
  <2>1. IsFiniteSet(Upto(n)) /\ Cardinality(Upto(n)) <= Cardinality(S)
    BY FS_Subset
  <2>2. Cardinality(Upto(n)) \in Nat
    BY <2>1, FS_CardinalityType
  <2>3. n \in Upto(n)
    OBVIOUS
  <2>4. Cardinality(Upto(n)) # 0
    BY <2>1, <2>3, FS_EmptySet
  <2> HIDE DEF Upto
  <2> QED BY <2>1, <2>2, <2>4, <1>1
<1>3. ASSUME NEW n \in S, NEW m \in S, n < m
      PROVE  Cardinality(Upto(n)) # Cardinality(Upto(m))
  <2>1. Upto(n) \in SUBSET Upto(m)
    <3>1. \A l \in S : l <= n => l <= m
      BY <1>3
    <3> QED BY <3>1
  <2>2. m \in Upto(m) /\ m \notin Upto(n)
    BY <1>3
  <2>3. IsFiniteSet(Upto(m))
    BY <1>2
  <2> HIDE DEF Upto
  <2> QED BY <2>1, <2>2, <2>3, FS_Subset
<1>4. rank \in [S -> ranks]
  <2> HIDE DEF Upto, ranks
  <2> QED BY <1>2
<1>5. ASSUME NEW n \in S, NEW m \in S, rank[n] = rank[m]
      PROVE  n = m
  <2>1. ~(n < m) /\ ~(m < n)
    <3> HIDE DEF Upto
    <3> QED BY <1>3, <1>5
  <2> QED BY <2>1
<1>6. rank \in Injection(S, ranks)
  <2> HIDE DEF rank, ranks
  <2> QED BY <1>4, <1>5 DEF Injection, IsInjective
<1>7. IsFiniteSet(ranks) /\ Cardinality(ranks) = Cardinality(S)
  BY <1>1, FS_Interval
<1>8. rank \in Surjection(S, ranks)
  <2> HIDE DEF rank, ranks
  <2> QED BY <1>6, <1>7, FS_Injection
<1>9. PICK n \in S : rank[n] = k
  <2> HIDE DEF rank
  <2> QED BY <1>8 DEF Surjection
<1>10. \E n1 \in S : Cardinality({m \in S : m <= n1}) = k
  BY <1>9
<1> QED BY <1>10 DEF Nth

\* The numbers a document may take, and the documents of its name up to it.
FreeFor(i, ds, r) == {n \in Copies : Path(ds[i].dir, ds[i].name, n) \notin r}
UpToIt(i, ds, f) ==
  {j \in Tree(ds, f) : ds[j].dir = ds[i].dir /\ ds[j].name = ds[i].name /\ j <= i}

\* Where the names suffice, a document's is one that is not reserved, and its rank
\* among those is the document's among the ones of its name.
LEMMA NamedInOrder ==
  ASSUME NEW ds, NEW f, NEW r,
         \A d \in Dirs, m \in Names :
           Cardinality({i \in Tree(ds, f) : ds[i].dir = d /\ ds[i].name = m})
             <= Cardinality({n \in Copies : Path(d, m, n) \notin r}),
         NEW i \in Tree(ds, f), ds[i].dir \in Dirs, ds[i].name \in Names
  PROVE  \E n \in FreeFor(i, ds, r) :
           /\ NameOf(i, ds, f, r) = Path(ds[i].dir, ds[i].name, n)
           /\ Cardinality({m \in FreeFor(i, ds, r) : m <= n}) = Cardinality(UpToIt(i, ds, f))
<1> DEFINE free == {n \in Copies : Path(ds[i].dir, ds[i].name, n) \notin r}
           same == {j \in Tree(ds, f) : ds[j].dir = ds[i].dir /\ ds[j].name = ds[i].name}
           before == {j \in same : j <= i}
<1>1. IsFiniteSet(free) /\ free \subseteq Nat
  BY DataAssumption, FS_Subset
<1>2. IsFiniteSet(same) /\ Tree(ds, f) \subseteq Nat
  <2>1. Tree(ds, f) \subseteq Ids
    BY DEF Tree
  <2>2. same \in SUBSET Ids
    BY <2>1
  <2> HIDE DEF same
  <2> QED BY <2>1, <2>2, DataAssumption, FS_Subset
<1>3. Cardinality(same) <= Cardinality(free)
  OBVIOUS
<1>4. IsFiniteSet(before) /\ Cardinality(before) <= Cardinality(same)
  <2>1. before \in SUBSET same
    OBVIOUS
  <2> HIDE DEF before, same
  <2> QED BY <2>1, <1>2, FS_Subset
<1>5. i \in before
  <2>1. i \in Nat
    BY <1>2
  <2> QED BY <2>1
<1>6. Cardinality(before) # 0
  <2> HIDE DEF before
  <2> QED BY <1>4, <1>5, FS_EmptySet
<1>7. Cardinality(before) \in 1 .. Cardinality(free)
  <2>1. Cardinality(before) \in Nat /\ Cardinality(same) \in Nat /\ Cardinality(free) \in Nat
    <3> HIDE DEF before, same, free
    <3> QED BY <1>1, <1>2, <1>4, FS_CardinalityType
  <2> HIDE DEF before, same, free
  <2> QED BY <2>1, <1>3, <1>4, <1>6
<1> DEFINE n == Nth(free, Cardinality(before))
<1>8. n \in free /\ Cardinality({m \in free : m <= n}) = Cardinality(before)
  <2> HIDE DEF before, same, free
  <2> QED BY <1>1, <1>7, NthIsThere
<1>9. before = UpToIt(i, ds, f) /\ free = FreeFor(i, ds, r)
  BY DEF UpToIt, FreeFor
<1>10. NameOf(i, ds, f, r) = Path(ds[i].dir, ds[i].name, n)
  BY <1>9 DEF NameOf, UpToIt, FreeFor
<1> QED
  <2> HIDE DEF before, n, free
  <2> QED BY <1>8, <1>9, <1>10

\* So it is clear of what is reserved.
LEMMA NamedClear ==
  ASSUME NEW ds, NEW f, NEW r,
         \A d \in Dirs, m \in Names :
           Cardinality({i \in Tree(ds, f) : ds[i].dir = d /\ ds[i].name = m})
             <= Cardinality({n \in Copies : Path(d, m, n) \notin r}),
         NEW i \in Tree(ds, f), ds[i].dir \in Dirs, ds[i].name \in Names
  PROVE  NameOf(i, ds, f, r) \in Requests /\ NameOf(i, ds, f, r) \notin r
<1>1. PICK n \in FreeFor(i, ds, r) : NameOf(i, ds, f, r) = Path(ds[i].dir, ds[i].name, n)
  BY NamedInOrder
<1> QED BY <1>1 DEF FreeFor, Path, Requests

\* And it is no other document's: the later one of a name has more before it.
LEMMA NamedOnce ==
  ASSUME NEW ds, NEW f, NEW r,
         \A d \in Dirs, m \in Names :
           Cardinality({i \in Tree(ds, f) : ds[i].dir = d /\ ds[i].name = m})
             <= Cardinality({n \in Copies : Path(d, m, n) \notin r}),
         NEW i \in Tree(ds, f), ds[i].dir \in Dirs, ds[i].name \in Names,
         NEW j \in Tree(ds, f), i < j, ds[j].dir = ds[i].dir, ds[j].name = ds[i].name
  PROVE  NameOf(i, ds, f, r) # NameOf(j, ds, f, r)
<1> DEFINE free == FreeFor(i, ds, r)
<1>1. PICK n \in free : /\ NameOf(i, ds, f, r) = Path(ds[i].dir, ds[i].name, n)
                        /\ Cardinality({m \in free : m <= n}) = Cardinality(UpToIt(i, ds, f))
  BY NamedInOrder
<1>2. PICK m \in free : /\ NameOf(j, ds, f, r) = Path(ds[i].dir, ds[i].name, m)
                        /\ Cardinality({k \in free : k <= m}) = Cardinality(UpToIt(j, ds, f))
  <2>1. free = FreeFor(j, ds, r)
    BY DEF FreeFor
  <2>2. ds[j].dir \in Dirs /\ ds[j].name \in Names
    OBVIOUS
  <2>3. \E m \in FreeFor(j, ds, r) :
           /\ NameOf(j, ds, f, r) = Path(ds[j].dir, ds[j].name, m)
           /\ Cardinality({k \in FreeFor(j, ds, r) : k <= m}) = Cardinality(UpToIt(j, ds, f))
    BY <2>2, NamedInOrder
  <2> QED BY <2>1, <2>3
<1>3. Tree(ds, f) \subseteq Nat /\ Tree(ds, f) \in SUBSET Ids
  BY DataAssumption DEF Tree
<1>4. IsFiniteSet(UpToIt(j, ds, f))
  <2>1. UpToIt(j, ds, f) \in SUBSET Ids
    BY <1>3 DEF UpToIt
  <2> QED BY <2>1, DataAssumption, FS_Subset
<1>5. UpToIt(i, ds, f) \in SUBSET UpToIt(j, ds, f)
  <2>1. \A l \in Tree(ds, f) : l <= i => l <= j
    BY <1>3
  <2> QED BY <2>1 DEF UpToIt
<1>6. j \in UpToIt(j, ds, f) /\ j \notin UpToIt(i, ds, f)
  BY <1>3 DEF UpToIt
<1>7. Cardinality(UpToIt(i, ds, f)) # Cardinality(UpToIt(j, ds, f))
  BY <1>4, <1>5, <1>6, FS_Subset
<1>8. n # m
  BY <1>1, <1>2, <1>7
<1> QED BY <1>1, <1>2, <1>8 DEF Path

\* collectionFiles gives every document a file of its own, at a path that is not
\* reserved: as long as the names suffice, unique gives no two documents one path.
THEOREM EachHasItsFile ==
  ASSUME NEW ds, NEW f, NEW t, NEW r,
         \A d \in Dirs, m \in Names :
           Cardinality({i \in Tree(ds, f) : ds[i].dir = d /\ ds[i].name = m})
             <= Cardinality({n \in Copies : Path(d, m, n) \notin r}),
         \A i \in Tree(ds, f) : ds[i].dir \in Dirs /\ ds[i].name \in Names,
         NEW i \in Tree(ds, f)
  PROVE  LET p == NameOf(i, ds, f, r) IN
         p \in Requests \ r /\ CollectionFiles(ds, f, t, r)[p] = RequestFile(i, ds[i].name, ds[i].text)
<1> DEFINE p == NameOf(i, ds, f, r)
           here == {j \in Tree(ds, f) : /\ ds[j].dir = p.dir /\ ds[j].name = p.name
                                        /\ NameOf(j, ds, f, r) = p}
<1>1. p \in Requests /\ p \notin r
  BY NamedClear
<1>2. p.dir = ds[i].dir /\ p.name = ds[i].name
  BY DEF NameOf, Path
<1>3. p \in Paths /\ p # Collection /\ p # FolderFile
  <2> HIDE DEF p
  <2> QED BY <1>1, DataAssumption DEF Paths, Requests, Collection, FolderFile, Path
<1>4. ASSUME NEW j \in here
      PROVE  j = i
  <2>1. j \in Tree(ds, f) /\ ds[j].dir = ds[i].dir /\ ds[j].name = ds[i].name
    BY <1>2
  <2>2. NameOf(j, ds, f, r) = NameOf(i, ds, f, r)
    OBVIOUS
  <2>3. i \in Nat /\ j \in Nat
    BY <2>1, DataAssumption DEF Tree
  <2>4. ds[j].dir \in Dirs /\ ds[j].name \in Names /\ ds[i].dir \in Dirs /\ ds[i].name \in Names
    BY <2>1
  <2>5. ~(i < j)
    <3> HIDE DEF p, here
    <3> QED BY <2>1, <2>2, <2>4, NamedOnce
  <2>6. ~(j < i)
    <3> HIDE DEF p, here
    <3> QED BY <2>1, <2>2, <2>4, NamedOnce
  <2> HIDE DEF p, here
  <2> QED BY <2>3, <2>5, <2>6
<1>5. here = {i}
  <2>1. i \in here
    BY <1>2
  <2> HIDE DEF here
  <2> QED BY <2>1, <1>4
<1>6. CollectionFiles(ds, f, t, r)[p] =
        IF here = {} THEN Absent
        ELSE LET j == CHOOSE j \in here : TRUE IN RequestFile(j, ds[j].name, ds[j].text)
  <2> HIDE DEF p
  <2> QED BY <1>3 DEF CollectionFiles
<1>7. (CHOOSE j \in here : TRUE) = i
  <2> HIDE DEF here
  <2> QED BY <1>5
<1> QED
  <2> HIDE DEF p, here
  <2>1. CollectionFiles(ds, f, t, r)[p] = RequestFile(i, ds[i].name, ds[i].text)
    BY <1>5, <1>6, <1>7
  <2> QED BY <1>1, <2>1 DEF p

\* So what is reserved is given to no document.
LEMMA FilesClear ==
  ASSUME NamesLeft, NEW p \in Requests, p \in Reserved
  PROVE  CollectionFiles(docs, folder, title, Reserved)[p] = Absent
<1>1. p \in Paths /\ p # Collection /\ p # FolderFile /\ p.dir \in Dirs /\ p.name \in Names
  BY DataAssumption DEF Paths, Requests, Collection, FolderFile, Path
<1>2. ASSUME NEW i \in Tree(docs, folder), docs[i].dir = p.dir, docs[i].name = p.name
      PROVE  NameOf(i, docs, folder, Reserved) # p
  <2>1. NameOf(i, docs, folder, Reserved) \notin Reserved
    BY <1>1, <1>2, NamedClear DEF NamesLeft
  <2> QED BY <2>1
<1> QED BY <1>1, <1>2 DEF CollectionFiles

\* The names depend on the reserved names of requests alone.
LEMMA SameFiles ==
  ASSUME NEW ds, NEW f, NEW t, NEW r, NEW s, \A p \in Requests : p \in r <=> p \in s
  PROVE  CollectionFiles(ds, f, t, r) = CollectionFiles(ds, f, t, s)
<1>1. ASSUME NEW p \in Requests, NEW i \in Tree(ds, f), ds[i].dir = p.dir, ds[i].name = p.name
      PROVE  NameOf(i, ds, f, r) = NameOf(i, ds, f, s)
  <2>1. \A n \in Copies : Path(ds[i].dir, ds[i].name, n) \in Requests
    BY <1>1 DEF Path, Requests
  <2>2. {n \in Copies : Path(ds[i].dir, ds[i].name, n) \notin r}
          = {n \in Copies : Path(ds[i].dir, ds[i].name, n) \notin s}
    BY <2>1
  <2> QED BY <2>2 DEF NameOf
<1> DEFINE Here(p, u) == {i \in Tree(ds, f) : ds[i].dir = p.dir /\ ds[i].name = p.name
                                                /\ NameOf(i, ds, f, u) = p}
<1>2. ASSUME NEW p \in Requests
      PROVE  Here(p, r) = Here(p, s)
  BY <1>1
<1> DEFINE At(p, u) ==
      IF p = Collection THEN Own(t)
      ELSE IF p = FolderFile THEN (IF f THEN Group ELSE Absent)
      ELSE IF Here(p, u) = {} THEN Absent
      ELSE LET i == CHOOSE i \in Here(p, u) : TRUE IN RequestFile(i, ds[i].name, ds[i].text)
<1>3. \A p \in Paths : At(p, r) = At(p, s)
  <2> SUFFICES ASSUME NEW p \in Paths PROVE At(p, r) = At(p, s)
    OBVIOUS
  <2>1. CASE p \in Requests
    <3>1. Here(p, r) = Here(p, s)
      BY <2>1, <1>2
    <3> HIDE DEF Here
    <3> QED BY <3>1
  <2>2. CASE p = Collection \/ p = FolderFile
    BY <2>2
  <2> QED BY <2>1, <2>2 DEF Paths
<1>4. CollectionFiles(ds, f, t, r) = [p \in Paths |-> At(p, r)]
  BY DEF CollectionFiles
<1>5. CollectionFiles(ds, f, t, s) = [p \in Paths |-> At(p, s)]
  BY DEF CollectionFiles
<1> HIDE DEF At
<1> QED BY <1>3, <1>4, <1>5
-----------------------------------------------------------------------------
(* The invariant *)

\* What a path may hold.
Holds(p, c) ==
  \/ c \in {Absent, Bad}
  \/ p = Collection /\ (c = Foreign \/ c = Own(c.text))
  \/ p = FolderFile /\ c = Group
  \/ p \in Requests /\ (c = Foreign \/ c.kind = "request")

Types ==
  /\ DOMAIN disk = Paths /\ \A p \in Paths : Holds(p, disk[p])
  /\ written[FolderFile] \in {Absent, Group, Unread}
  /\ pc \in {"off", "idle", "takeIn", "plan", "write", "record"}
  /\ folder \in BOOLEAN /\ timer \in BOOLEAN /\ starting \in BOOLEAN
  /\ queued \in Nat /\ userEdits \in Nat /\ quits \in Nat /\ failures \in Nat

\* No change waits to be read, and no write failed.
Calm == ~timer /\ queued = 0 /\ failures = 0

\* What a read would find now.
Current == Seen({p \in Paths : disk[p] \notin {Absent, written[p]}},
                {p \in Paths : written[p] # Absent /\ disk[p] = Absent})

\* A start runs alone, and from nothing written.
Alone ==
  /\ pc = "off" => ~starting
  /\ starting => pc \in {"takeIn", "plan", "write", "record"}
  /\ pc = "off" \/ starting => ~timer /\ queued = 0 /\ quits # 0
  /\ pc = "off" \/ (starting /\ pc = "takeIn") => \A p \in Paths : written[p] = Absent
  /\ starting /\ pc = "takeIn" => IsOwn(disk)

\* What was read is there still, unless a change waits.
Looked ==
  pc = "takeIn" =>
    /\ Calm \/ starting => seen = Current
    /\ \A p \in seen.deleted : seen.files[p] = Absent
    /\ seen.files[FolderFile] = Absent => disk[FolderFile] = Absent

\* The folder's changes are ours, or something is to run that makes them so.
FolderKnown ==
  folder =>
    /\ pc \in {"idle", "record"} \/ (pc = "takeIn" /\ ~starting) => FolderId \in ids
    /\ pc \in {"plan", "write"} => starting \/ FolderId \in ids \/ timer \/ queued # 0
    /\ pc = "write" => plan.files[FolderFile] = Group

\* A file is as it was written, or taken in, unless it could not be.
TookIn(p) ==
  \/ disk[p] \in {Absent, written[p], Bad, Foreign}
  \/ p = Collection /\ disk[p] = Own(title)
  \/ ~IsOwn(disk)
  \/ p.dir = "sub" /\ disk[FolderFile] # Group

Kept(p) == written[p] # Absent /\ disk[p] \notin {Absent, written[p]}

Taken ==
  pc \in {"plan", "write"} =>
    /\ Calm \/ starting => \A p \in Paths : TookIn(p)
    /\ starting =>
        /\ \A p \in Paths : p.dir = "sub" /\ Kept(p) => disk[FolderFile] = Group \/ Kept(FolderFile)
        /\ IsOwn(disk)

Planned ==
  pc = "write" =>
    /\ Calm \/ starting =>
         plan.onDisk = disk /\ plan.files = CollectionFiles(docs, folder, title, Reserved)
    /\ \A p \in Paths : Holds(p, plan.onDisk[p]) /\ Holds(p, plan.files[p])
    /\ \A p \in Requests : plan.onDisk[p] # Absent /\ written[p] = Absent => plan.files[p] = Absent
    /\ plan.files[Collection] # Absent /\ plan.files[FolderFile] \in {Absent, Group}
    /\ plan.onDisk[FolderFile] = Absent => disk[FolderFile] = Absent

\* In step, from when the writes are done.
Agreed ==
  pc \in {"idle", "record"} /\ Calm =>
    \A p \in Paths : \/ disk[p] = CollectionFiles(docs, folder, title, Reserved)[p]
                     \/ LeftAlone(p) \/ NotYetRead(p)

\* The names that are fixed are the sync's own (the collection's, until a write fails).
FixedNames ==
  /\ pc # "off" /\ disk[FolderFile] # Absent =>
       (pc = "takeIn" /\ starting) \/ written[FolderFile] # Absent
  /\ failures = 0 /\ pc # "off" =>
       (starting /\ pc # "record") \/ written[Collection] # Absent

SyncInv == /\ Types /\ Alone /\ Looked /\ FolderKnown /\ Taken /\ Planned /\ Agreed
           /\ FixedNames

-----------------------------------------------------------------------------
(* What there is at a path *)

LEMMA Places ==
  /\ Collection \in Paths /\ FolderFile \in Paths /\ Requests \subseteq Paths
  /\ Collection # FolderFile /\ Collection \notin Requests /\ FolderFile \notin Requests
  /\ FolderFile.dir = "sub" /\ Collection.dir = "top"
  /\ \A p \in Paths : p \in Requests \/ p = Collection \/ p = FolderFile
  /\ \A p \in Requests : p.dir = "top" \/ p.dir = "sub"
BY DataAssumption DEF Paths, Requests, Dirs, Collection, FolderFile, Path

LEMMA Contents ==
  /\ Bad # Absent /\ Foreign # Absent /\ Group # Absent /\ Unread # Absent
  /\ Bad # Foreign /\ Bad # Group /\ Bad # Unread /\ Foreign # Group /\ Foreign # Unread
  /\ Group # Unread
  /\ Absent.kind \notin {"request", "collection"} /\ Bad.kind \notin {"request", "collection"}
  /\ Foreign.kind \notin {"request", "collection"} /\ Group.kind \notin {"request", "collection"}
  /\ Unread.kind \notin {"request", "collection"}
  /\ \A t : Own(t).kind = "collection" /\ Own(t).text = t
  /\ \A i, n, t : RequestFile(i, n, t).kind = "request"
BY DEF Absent, Bad, Foreign, Group, Unread, Own, RequestFile, Plain, Content

LEMMA FilesOf ==
  ASSUME NEW ds, NEW f \in BOOLEAN, NEW t, NEW r
  PROVE  LET files == CollectionFiles(ds, f, t, r) IN
         /\ DOMAIN files = Paths /\ \A p \in Paths : Holds(p, files[p])
         /\ files[Collection] = Own(t)
         /\ files[FolderFile] = IF f THEN Group ELSE Absent
<1> DEFINE files == CollectionFiles(ds, f, t, r)
<1>1. DOMAIN files = Paths
  BY DEF CollectionFiles
<1>2. files[Collection] = Own(t)
  BY Places DEF CollectionFiles
<1>3. files[FolderFile] = IF f THEN Group ELSE Absent
  BY Places DEF CollectionFiles
<1>4. ASSUME NEW p \in Requests
      PROVE  files[p] = Absent \/ files[p].kind = "request"
  <2>1. p \in Paths /\ p # Collection /\ p # FolderFile
    BY Places
  <2>2. \/ files[p] = Absent
        \/ \E i, n, x : files[p] = RequestFile(i, n, x)
    BY <2>1 DEF CollectionFiles
  <2> QED BY <2>2, Contents
<1>5. ASSUME NEW p \in Paths
      PROVE  Holds(p, files[p])
  <2> HIDE DEF files
  <2> QED BY <1>2, <1>3, <1>4, Places, Contents DEF Holds
<1> QED BY <1>1, <1>2, <1>3, <1>5

LEMMA InitInv == SyncInit => SyncInv
<1> SUFFICES ASSUME SyncInit PROVE SyncInv
  OBVIOUS
<1> USE DEF SyncInit
<1>1. folder \in BOOLEAN
  BY DataAssumption
<1>2. /\ DOMAIN disk = Paths /\ \A p \in Paths : Holds(p, disk[p])
      /\ disk[Collection] = Own(title)
      /\ disk[FolderFile] = IF folder THEN Group ELSE Absent
  BY <1>1, FilesOf
<1>3. Types
  BY <1>1, <1>2 DEF Types
<1>4. Alone /\ Looked /\ Taken /\ Planned
  BY DEF Alone, Looked, Taken, Planned
<1>5. FolderKnown
  <2> SUFFICES ASSUME folder PROVE FolderId \in ids
    BY DEF FolderKnown
  <2>1. disk[FolderFile] = Group
    BY <1>2
  <2>2. FolderId \in IdsIn(disk)[FolderFile]
    BY <2>1, Places, Contents DEF IdsIn
  <2> QED BY <2>2, Places
<1>6. Agreed
  <2>1. CollectionFiles(docs, folder, title, Reserved) = disk
    <3>1. Reserved = {}
      BY DEF Reserved
    <3> QED BY <3>1
  <2> QED BY <2>1 DEF Agreed
<1>7. FixedNames
  BY <1>2, Contents DEF FixedNames
<1> QED BY <1>3, <1>4, <1>5, <1>6, <1>7 DEF SyncInv
-----------------------------------------------------------------------------
(* Edits *)

\* What an edit in the folder may make of the files.
Edit(files) ==
  /\ DOMAIN files = Paths /\ \A p \in Paths : Holds(p, files[p])
  /\ disk[FolderFile] = Absent => files[FolderFile] = Absent

LEMMA EditOfOne ==
  ASSUME Types, NEW p \in Paths, NEW c, Holds(p, c),
         p = FolderFile => c = Absent \/ disk[p] # Absent
  PROVE  Edit([disk EXCEPT ![p] = c])
BY Places DEF Types, Edit

LEMMA UserEdits ==
  ASSUME Types, User
  PROVE  \E files : Edits(files) /\ Edit(files)
<1>1. CASE \E p \in Paths : Spoil(p)
  <2>1. PICK p \in Paths : Spoil(p)
    BY <1>1
  <2>2. Edit([disk EXCEPT ![p] = Bad])
    BY <2>1, EditOfOne DEF Spoil, Holds
  <2> QED BY <2>1, <2>2 DEF Spoil
<1>2. CASE \E p \in Paths : Delete(p)
  <2>1. PICK p \in Paths : Delete(p)
    BY <1>2
  <2>2. Edit([disk EXCEPT ![p] = Absent])
    BY EditOfOne DEF Holds
  <2> QED BY <2>1, <2>2 DEF Delete
<1>3. CASE \E p \in Paths : \E c \in Readings(p) : Save(p, c)
  <2>1. PICK p \in Paths : \E c \in Readings(p) : Save(p, c)
    BY <1>3
  <2>2. PICK c \in Readings(p) : Save(p, c)
    BY <2>1
  <2>3. Holds(p, c)
    <3>1. CASE p = Collection
      <4>1. \E t : c = Own(t)
        BY <2>2, <3>1 DEF Readings
      <4> QED BY <3>1, <4>1, Contents DEF Holds
    <3>2. CASE p = FolderFile
      BY <2>2, <3>2, Places DEF Readings, Holds
    <3>3. CASE p \in Requests
      <4>1. \E i, n, t : c = RequestFile(i, n, t)
        BY <2>2, <3>3, Places DEF Readings
      <4> QED BY <3>3, <4>1, Contents DEF Holds
    <3> QED BY <3>1, <3>2, <3>3, Places
  <2>4. Edit([disk EXCEPT ![p] = c])
    BY <2>2, <2>3, EditOfOne DEF Save
  <2> QED BY <2>2, <2>4 DEF Save
<1>4. CASE \E q \in Paths : PutForeign(q)
  <2>1. PICK q \in Paths : PutForeign(q)
    BY <1>4
  <2>2. Holds(q, Foreign)
    BY <2>1, Places DEF Holds, PutForeign
  <2>3. Edit([disk EXCEPT ![q] = Foreign])
    BY <2>1, <2>2, EditOfOne DEF PutForeign
  <2> QED BY <2>1, <2>3 DEF PutForeign
<1>5. CASE \E q \in Requests, t \in Texts : PutNew(q, t)
  <2>1. PICK q \in Requests, t \in Texts : PutNew(q, t)
    BY <1>5
  <2>2. Holds(q, RequestFile(NoId, q.name, t))
    BY Contents DEF Holds
  <2>3. Edit([disk EXCEPT ![q] = RequestFile(NoId, q.name, t)])
    BY <2>1, <2>2, Places, EditOfOne
  <2> QED BY <2>1, <2>3 DEF PutNew
<1>6. CASE \E q \in Requests, p \in Requests : Move(p, q) \/ Copy(p, q)
  <2>1. PICK q \in Requests, p \in Requests : Move(p, q) \/ Copy(p, q)
    BY <1>6
  <2>2. disk[p].kind = "request"
    BY <2>1 DEF Move, Copy, IsRequest
  <2>3. Holds(q, disk[p]) /\ Holds(p, Absent)
    BY <2>2 DEF Holds
  <2>4. CASE Copy(p, q)
    <3>1. Edit([disk EXCEPT ![q] = disk[p]])
      BY <2>3, Places, EditOfOne
    <3> QED BY <2>4, <3>1 DEF Copy
  <2>5. CASE Move(p, q)
    <3>1. Edit([disk EXCEPT ![p] = Absent, ![q] = disk[p]])
      BY <2>3, Places DEF Types, Edit
    <3> QED BY <2>5, <3>1 DEF Move
  <2> QED BY <2>1, <2>4, <2>5
<1> QED BY <1>1, <1>2, <1>3, <1>4, <1>5, <1>6 DEF User

LEMMA UserInv ==
  ASSUME SyncInv, User
  PROVE  SyncInv'
<1>1. PICK files : Edits(files) /\ Edit(files)
  BY UserEdits DEF SyncInv
<1>2. /\ ~starting /\ userEdits' = userEdits + 1 /\ disk' = files
      /\ timer' = (timer \/ pc # "off")
      /\ UNCHANGED <<docs, folder, title, written, ids, pc, starting, queued, seen, plan,
                     quits, failures>>
  BY <1>1 DEF Edits, database
<1>3. Types /\ (pc # "off" => timer')
  BY <1>2 DEF SyncInv, Types
<1>4. Types'
  BY <1>1, <1>2, <1>3 DEF Types, Edit
<1>5. pc # "off" => ~Calm'
  BY <1>3 DEF Calm
<1>6. Alone'
  BY <1>2, <1>3 DEF SyncInv, Alone
<1>7. Looked'
  BY <1>1, <1>2, <1>5 DEF SyncInv, Looked, Edit
<1>8. FolderKnown'
  BY <1>2, <1>3 DEF SyncInv, FolderKnown
<1>9. Taken'
  BY <1>2, <1>5 DEF SyncInv, Taken
<1>10. Planned'
  BY <1>1, <1>2, <1>5 DEF SyncInv, Planned, Edit
<1>11. Agreed'
  BY <1>2, <1>5 DEF Agreed
<1>12. FixedNames'
  BY <1>1, <1>2 DEF SyncInv, FixedNames, Edit
<1> QED BY <1>4, <1>6, <1>7, <1>8, <1>9, <1>10, <1>11, <1>12 DEF SyncInv

\* What the app does is heard, if the folder is known to it.
LEMMA AppDoes ==
  ASSUME Types, App
  PROVE  /\ pc # "off" /\ ~starting
         /\ folder' \in BOOLEAN /\ (folder' => folder)
         /\ timer' \in BOOLEAN /\ (timer => timer') /\ (~folder \/ FolderId \in ids => timer')
         /\ UNCHANGED <<disk, written, ids, pc, starting, queued, seen, plan,
                        userEdits, quits, failures>>
<1> DEFINE Leads(ds, f, t, ours) == Changes(ds, f, t, ours)
<1>1. ASSUME NEW ds, NEW f \in BOOLEAN, NEW t, NEW ours \in BOOLEAN, Leads(ds, f, t, ours),
             f => folder, ~folder \/ FolderId \in ids => ours
      PROVE  /\ pc # "off" /\ ~starting
             /\ folder' \in BOOLEAN /\ (folder' => folder)
             /\ timer' \in BOOLEAN /\ (timer => timer') /\ (~folder \/ FolderId \in ids => timer')
             /\ UNCHANGED <<disk, written, ids, pc, starting, queued, seen, plan,
                            userEdits, quits, failures>>
  BY <1>1 DEF Changes, Types
<1>2. folder \in BOOLEAN
  BY DEF Types
<1>3. ASSUME NEW i, NEW dir, dir = "sub" => folder, dir \in Dirs
      PROVE  IsOurs(i, dir) \in BOOLEAN /\ (~folder \/ FolderId \in ids => IsOurs(i, dir))
  BY <1>3 DEF IsOurs, Dirs
<1>4. ASSUME NEW i \in Tree(docs, folder)
      PROVE  docs[i].dir \in Dirs /\ (docs[i].dir = "sub" => folder)
  BY <1>4 DEF Tree, Dirs
<1>5. \A doc \in Doc : doc.dir \in Dirs
  BY DEF Doc
<1>6. CASE \E i \in Ids, doc \in Doc : ChangeDoc(i, doc)
  <2>1. PICK i \in Ids, doc \in Doc : ChangeDoc(i, doc)
    BY <1>6
  <2> DEFINE ds == [docs EXCEPT ![i] = doc]
  <2>2. Leads(ds, folder, title, IsOurs(i, doc.dir)) /\ (doc.dir = "sub" => folder)
    BY <2>1 DEF ChangeDoc
  <2> HIDE DEF ds, Leads
  <2> QED BY <2>2, <1>1, <1>2, <1>3, <1>5
<1>7. CASE \E i \in Ids, doc \in Doc : CreateDoc(i, doc)
  <2>1. PICK i \in Ids, doc \in Doc : CreateDoc(i, doc)
    BY <1>7
  <2> DEFINE ds == [docs EXCEPT ![i] = doc]
  <2>2. Leads(ds, folder, title, IsOurs(i, doc.dir)) /\ (doc.dir = "sub" => folder)
    BY <2>1 DEF CreateDoc
  <2> HIDE DEF ds, Leads
  <2> QED BY <2>2, <1>1, <1>2, <1>3, <1>5
<1>8. CASE \E t \in Texts : ChangeTitle(t)
  <2>1. PICK t \in Texts : ChangeTitle(t)
    BY <1>8
  <2>2. Leads(docs, folder, t, TRUE)
    BY <2>1 DEF ChangeTitle
  <2> HIDE DEF Leads
  <2> QED BY <2>2, <1>1, <1>2
<1>9. CASE \E i \in Ids : DeleteDoc(i)
  <2>1. PICK i \in Ids : DeleteDoc(i)
    BY <1>9
  <2> DEFINE ds == [docs EXCEPT ![i] = NoDoc]
  <2>2. Leads(ds, folder, title, IsOurs(i, docs[i].dir)) /\ i \in Tree(docs, folder)
    BY <2>1 DEF DeleteDoc
  <2> HIDE DEF ds, Leads
  <2> QED BY <2>2, <1>1, <1>2, <1>3, <1>4
<1>10. CASE DeleteFolder
  <2>1. Leads(Removed(docs, {FolderId}), FALSE, title, TRUE)
    BY <1>10 DEF DeleteFolder
  <2> HIDE DEF Leads
  <2> QED BY <2>1, <1>1
<1> QED BY <1>6, <1>7, <1>8, <1>9, <1>10 DEF App

LEMMA AppInv ==
  ASSUME SyncInv, App
  PROVE  SyncInv'
<1>1. Types
  BY DEF SyncInv
<1>2. /\ pc # "off" /\ ~starting
      /\ folder' \in BOOLEAN /\ (folder' => folder)
      /\ timer' \in BOOLEAN /\ (timer => timer') /\ (~folder \/ FolderId \in ids => timer')
      /\ UNCHANGED <<disk, written, ids, pc, starting, queued, seen, plan,
                     userEdits, quits, failures>>
  BY <1>1, AppDoes
<1>3. ~Calm'
  <2>1. \/ ~folder \/ FolderId \in ids
        \/ timer \/ queued # 0
    BY <1>1, <1>2 DEF SyncInv, FolderKnown, Types
  <2> QED BY <1>2, <2>1 DEF Calm
<1>4. Types'
  BY <1>1, <1>2 DEF Types
<1>5. Alone'
  BY <1>2 DEF SyncInv, Alone
<1>6. Looked'
  BY <1>2, <1>3 DEF SyncInv, Looked
<1>7. FolderKnown'
  BY <1>2 DEF SyncInv, FolderKnown
<1>8. Taken'
  BY <1>2, <1>3 DEF SyncInv, Taken
<1>9. Planned'
  BY <1>2, <1>3 DEF SyncInv, Planned
<1>10. Agreed'
  BY <1>3 DEF Agreed
<1>11. FixedNames'
  BY <1>2 DEF SyncInv, FixedNames
<1> QED BY <1>4, <1>5, <1>6, <1>7, <1>8, <1>9, <1>10, <1>11 DEF SyncInv
-----------------------------------------------------------------------------
(* Reconciles *)

LEMMA TimerInv ==
  ASSUME SyncInv, TimerFires
  PROVE  SyncInv'
<1>1. /\ timer /\ ~timer' /\ timer' \in BOOLEAN /\ queued' = queued + 1
      /\ UNCHANGED <<disk, docs, folder, title, written, ids, pc, starting, seen, plan,
                     userEdits, quits, failures>>
  BY DEF TimerFires, database, bounds
<1>2. Types
  BY DEF SyncInv
<1>3. queued' # 0 /\ ~Calm'
  BY <1>1, <1>2 DEF Types, Calm
<1>4. Types'
  BY <1>1, <1>2 DEF Types
<1>5. Alone'
  BY <1>1 DEF SyncInv, Alone
<1>6. Looked'
  BY <1>1, <1>3 DEF SyncInv, Looked, Alone
<1>7. FolderKnown'
  BY <1>1, <1>3 DEF SyncInv, FolderKnown
<1>8. Taken'
  BY <1>1, <1>3 DEF SyncInv, Taken, Alone
<1>9. Planned'
  BY <1>1, <1>3 DEF SyncInv, Planned, Alone
<1>10. Agreed'
  BY <1>3 DEF Agreed
<1>11. FixedNames'
  BY <1>1 DEF SyncInv, FixedNames
<1> QED BY <1>4, <1>5, <1>6, <1>7, <1>8, <1>9, <1>10, <1>11 DEF SyncInv

LEMMA ReadInv ==
  ASSUME SyncInv, Read
  PROVE  SyncInv'
<1> DEFINE changed == {p \in Paths : disk[p] \notin {Absent, written[p]}}
           deleted == {p \in Paths : written[p] # Absent /\ disk[p] = Absent}
<1>1. /\ pc = "idle" /\ queued > 0 /\ queued' = queued - 1
      /\ \/ pc' = "plan" /\ changed \cup deleted = {}
         \/ pc' = "takeIn" /\ seen' = Seen(changed, deleted)
      /\ UNCHANGED <<disk, docs, folder, title, written, ids, starting, timer, plan,
                     userEdits, quits, failures>>
  BY DEF Read, database, bounds
<1>2. Types /\ ~starting
  BY <1>1 DEF SyncInv, Alone
<1>3. Types'
  BY <1>1, <1>2 DEF Types
<1>4. Alone'
  BY <1>1, <1>2 DEF Alone
<1>5. Looked'
  <2> SUFFICES ASSUME pc' = "takeIn" PROVE Looked'
    BY DEF Looked
  <2>1. seen' = Seen(changed, deleted)
    BY <1>1
  <2>2. seen' = Current'
    BY <1>1, <2>1 DEF Current, Seen
  <2>3. seen'.files = disk' /\ seen'.deleted = deleted
    BY <1>1, <2>1 DEF Seen
  <2> QED BY <1>1, <2>2, <2>3 DEF Looked
<1>6. FolderKnown'
  BY <1>1, <1>2 DEF SyncInv, FolderKnown
<1>7. Taken'
  <2> SUFFICES ASSUME pc' = "plan" PROVE \A p \in Paths : TookIn(p)'
    BY <1>1, <1>2 DEF Taken
  <2>1. \A p \in Paths : disk[p] \in {Absent, written[p]}
    BY <1>1
  <2> QED BY <1>1, <2>1 DEF TookIn
<1>8. Planned' /\ Agreed'
  BY <1>1 DEF Planned, Agreed
<1>9. FixedNames'
  BY <1>1, <1>2 DEF SyncInv, FixedNames
<1> QED BY <1>3, <1>4, <1>5, <1>6, <1>7, <1>8, <1>9 DEF SyncInv

LEMMA StartInv ==
  ASSUME SyncInv, Start
  PROVE  SyncInv'
<1> DEFINE changed == {p \in Paths : disk[p] # Absent}
<1>1. /\ pc = "off" /\ IsOwn(disk)
      /\ starting' = TRUE
      /\ pc' = "takeIn" /\ seen' = Seen(changed, {})
      /\ UNCHANGED <<disk, docs, folder, title, written, ids, timer, queued, plan,
                     userEdits, quits, failures>>
  BY DEF Start, database, bounds
<1>2. Types /\ ~timer /\ queued = 0 /\ quits # 0 /\ \A p \in Paths : written[p] = Absent
  BY <1>1 DEF SyncInv, Alone
<1>3. Types'
  BY <1>1, <1>2 DEF Types
<1>4. Alone'
  <2>1. IsOwn(disk)' = IsOwn(disk)
    BY <1>1 DEF IsOwn
  <2> QED BY <1>1, <1>2, <2>1 DEF Alone
<1>5. Looked'
  <2> SUFFICES ASSUME pc' = "takeIn" PROVE Looked'
    BY DEF Looked
  <2>1. seen' = Seen(changed, {})
    BY <1>1
  <2>2. seen' = Current'
    <3>1. changed = {p \in Paths : disk[p] \notin {Absent, written[p]}}
      BY <1>2
    <3>2. {} = {p \in Paths : written[p] # Absent /\ disk[p] = Absent}
      BY <1>2
    <3> HIDE DEF changed
    <3>3. Seen(changed, {}) = Current
      BY <3>1, <3>2 DEF Current
    <3>4. Current' = Current
      BY <1>1 DEF Current, Seen
    <3> QED BY <2>1, <3>3, <3>4
  <2>3. seen'.files = disk' /\ seen'.deleted = {}
    BY <1>1, <2>1 DEF Seen
  <2> QED BY <2>2, <2>3 DEF Looked
<1>6. FolderKnown'
  BY <1>1 DEF FolderKnown
<1>7. Taken'
  BY <1>1 DEF Taken
<1>8. Planned' /\ Agreed'
  BY <1>1 DEF Planned, Agreed
<1>9. FixedNames'
  BY <1>1 DEF FixedNames
<1> QED BY <1>3, <1>4, <1>5, <1>6, <1>7, <1>8, <1>9 DEF SyncInv

LEMMA PlanInv ==
  ASSUME SyncInv, Plan
  PROVE  SyncInv'
<1> DEFINE files == CollectionFiles(docs, folder, title, Reserved)
<1>1. /\ pc = "plan" /\ NamesLeft /\ pc' = "write"
      /\ plan' = [onDisk |-> disk, files |-> files]
      /\ UNCHANGED <<disk, docs, folder, title, written, ids, starting, timer, queued, seen,
                     userEdits, quits, failures>>
  BY DEF Plan, database, bounds
<1>2. Types
  BY DEF SyncInv
<1>3. Types'
  BY <1>1, <1>2 DEF Types
<1>4. Alone'
  BY <1>1 DEF SyncInv, Alone
<1>5. Looked' /\ Agreed'
  BY <1>1 DEF Looked, Agreed
<1>6. /\ \A p \in Paths : Holds(p, files[p])
      /\ files[Collection] = Own(title)
      /\ files[FolderFile] = IF folder THEN Group ELSE Absent
  <2>1. folder \in BOOLEAN
    BY <1>2 DEF Types
  <2> QED BY <2>1, FilesOf
<1>7. plan'.onDisk = disk /\ plan'.files = files
  BY <1>1
<1>8. FolderKnown'
  <2> HIDE DEF files
  <2> QED BY <1>1, <1>6, <1>7 DEF SyncInv, FolderKnown
<1>9. Taken'
  BY <1>1 DEF SyncInv, Taken, TookIn, Kept, Calm, IsOwn
<1>10. Planned'
  <2>1. Reserved' = Reserved
    BY <1>1 DEF Reserved
  <2>2. plan'.files = CollectionFiles(docs, folder, title, Reserved)'
    BY <1>1, <1>7, <2>1
  <2>3. \A p \in Paths : Holds(p, plan'.onDisk[p])
    BY <1>2, <1>7 DEF Types
  <2>4. ASSUME NEW p \in Requests, disk[p] # Absent, written[p] = Absent
        PROVE  files[p] = Absent
    <3>1. p \in Reserved
      BY <2>4, Places DEF Reserved
    <3> QED BY <1>1, <3>1, FilesClear
  <2>5. files[Collection] # Absent /\ files[FolderFile] \in {Absent, Group}
    <3> HIDE DEF files
    <3> QED BY <1>6, Contents
  <2> HIDE DEF files
  <2> QED BY <1>1, <1>6, <1>7, <2>2, <2>3, <2>4, <2>5 DEF Planned
<1>11. FixedNames'
  BY <1>1 DEF SyncInv, FixedNames
<1> QED BY <1>3, <1>4, <1>5, <1>8, <1>9, <1>10, <1>11 DEF SyncInv

LEMMA RecordInv ==
  ASSUME SyncInv, Record
  PROVE  SyncInv'
<1>1. /\ pc = "record" /\ pc' = "idle" /\ starting' = FALSE
      /\ UNCHANGED <<disk, docs, folder, title, written, ids, timer, queued, seen, plan,
                     userEdits, quits, failures>>
  BY DEF Record, database, bounds
<1>2. Types'
  BY <1>1 DEF SyncInv, Types
<1>3. Alone' /\ Looked' /\ Taken' /\ Planned'
  BY <1>1 DEF Alone, Looked, Taken, Planned
<1>4. FolderKnown'
  BY <1>1 DEF SyncInv, FolderKnown
<1>5. Agreed'
  <2>1. Reserved' = Reserved
    BY <1>1 DEF Reserved
  <2>2. CollectionFiles(docs, folder, title, Reserved)' = CollectionFiles(docs, folder, title, Reserved)
    BY <1>1, <2>1
  <2> QED BY <1>1, <2>2 DEF SyncInv, Agreed, Calm, LeftAlone, NotYetRead, IsOwn
<1>6. FixedNames'
  BY <1>1 DEF SyncInv, FixedNames
<1> QED BY <1>2, <1>3, <1>4, <1>5, <1>6 DEF SyncInv

LEMMA WrittenOutHolds ==
  ASSUME SyncInv, pc = "write", NEW done
  PROVE  DOMAIN WrittenOut(done) = Paths /\ \A p \in Paths : Holds(p, WrittenOut(done)[p])
BY DEF SyncInv, Types, Planned, WrittenOut, Holds

LEMMA QuitInv ==
  ASSUME SyncInv, NEW done, Quit(done)
  PROVE  SyncInv'
<1>1. /\ quits' = quits + 1
      /\ disk' = IF pc = "write" THEN WrittenOut(done) ELSE disk
      /\ written' = [p \in Paths |-> Absent]
      /\ pc' = "off" /\ starting' = FALSE /\ timer' = FALSE /\ queued' = 0
      /\ UNCHANGED <<folder, userEdits, failures>>
  BY DEF Quit, database
<1>2. Types
  BY DEF SyncInv
<1>3. DOMAIN disk' = Paths /\ \A p \in Paths : Holds(p, disk'[p])
  <2>1. CASE pc = "write"
    BY <1>1, <2>1, WrittenOutHolds
  <2>2. CASE pc # "write"
    BY <1>1, <1>2, <2>2 DEF Types
  <2> QED BY <2>1, <2>2
<1>4. Types'
  <2>1. written'[FolderFile] = Absent
    BY <1>1, Places
  <2>2. timer' \in BOOLEAN /\ starting' \in BOOLEAN
    BY <1>1
  <2>3. folder' \in BOOLEAN
    BY <1>1, <1>2 DEF Types
  <2>4. queued' \in Nat /\ userEdits' \in Nat /\ quits' \in Nat /\ failures' \in Nat
    BY <1>1, <1>2 DEF Types
  <2> QED BY <1>1, <1>3, <2>1, <2>2, <2>3, <2>4 DEF Types
<1>5. Alone'
  BY <1>1, <1>2 DEF Alone, Types
<1>6. Looked' /\ FolderKnown' /\ Taken' /\ Planned' /\ Agreed' /\ FixedNames'
  BY <1>1 DEF Looked, FolderKnown, Taken, Planned, Agreed, FixedNames
<1> QED BY <1>4, <1>5, <1>6 DEF SyncInv
-----------------------------------------------------------------------------
(* What takeIn makes the sync's *)

\* The files taken in, and what each file is written as then.
TakenIn == {p \in seen.changed : p \in Parsed(seen.files) \/ seen.files[p] = Group}
WrittenAs(p) ==
  IF ~IsOwn(seen.files) THEN written[p]
  ELSE IF p \in TakenIn THEN seen.files[p]
  ELSE IF p \in seen.deleted THEN Absent ELSE written[p]
MarkedAs(p) ==
  IF /\ starting /\ seen.files[p] # Absent /\ WrittenAs(p) = Absent
     /\ p \in Failed(seen.files) \/ (p.dir = "sub" /\ seen.files[FolderFile] # Absent)
  THEN Unread ELSE WrittenAs(p)

LEMMA TakeInDoes ==
  ASSUME SyncInv, TakeIn
  PROVE  /\ pc = "takeIn" /\ pc' = "plan"
         /\ \A p \in Paths : written'[p] = MarkedAs(p)
         /\ folder' \in BOOLEAN /\ timer' \in BOOLEAN
         /\ timer' = (timer \/ (~starting /\ <<docs', folder', title'>> # <<docs, folder, title>>))
         /\ IsOwn(seen.files) =>
              title' = IF Collection \in seen.changed /\ seen.files[Collection].text # seen.title
                       THEN seen.files[Collection].text ELSE title
         /\ UNCHANGED <<disk, ids, starting, queued, plan, userEdits, quits, failures>>
<1>1. /\ pc = "takeIn" /\ pc' = "plan"
      /\ UNCHANGED <<disk, ids, starting, queued, plan, userEdits, quits, failures>>
      /\ timer' = (timer \/ (~starting /\ <<docs', folder', title'>> # <<docs, folder, title>>))
  BY DEF TakeIn, bounds
<1>2. ASSUME NEW p \in Paths
      PROVE  written'[p] = MarkedAs(p)
  <2> DEFINE own == [q \in Paths |-> IF q \in TakenIn THEN seen.files[q]
                                     ELSE IF q \in seen.deleted THEN Absent ELSE written[q]]
  <2>1. CASE IsOwn(seen.files)
    <3>1. written' = Marked(own)
      BY <2>1 DEF TakeIn, TakenIn
    <3> QED BY <2>1, <3>1 DEF Marked, MarkedAs, WrittenAs
  <2>2. CASE ~IsOwn(seen.files)
    <3>1. written' = Marked(written)
      BY <2>2 DEF TakeIn
    <3> QED BY <2>2, <3>1 DEF Marked, MarkedAs, WrittenAs
  <2> QED BY <2>1, <2>2
<1>3. folder' \in BOOLEAN /\ timer' \in BOOLEAN
  <2>1. folder \in BOOLEAN /\ timer \in BOOLEAN
    BY DEF SyncInv, Types
  <2>2. folder' \in BOOLEAN
    <3>1. CASE IsOwn(seen.files)
      BY <3>1 DEF TakeIn
    <3>2. CASE ~IsOwn(seen.files)
      BY <2>1, <3>2 DEF TakeIn, database
    <3> QED BY <3>1, <3>2
  <2> QED BY <1>1, <2>1, <2>2
<1>4. IsOwn(seen.files) =>
        title' = IF Collection \in seen.changed /\ seen.files[Collection].text # seen.title
                 THEN seen.files[Collection].text ELSE title
  BY DEF TakeIn
<1> QED BY <1>1, <1>2, <1>3, <1>4

\* No file is taken in but a request's, or the folder's own.
LEMMA TakenInAre ==
  \A p \in TakenIn : p \in seen.changed /\ (p \in Requests \/ seen.files[p] = Group)
BY DEF TakenIn, Parsed

\* Of a file that a read of now finds and does not take in, the cause is known.
LEMMA ReadNow ==
  ASSUME SyncInv, TakeIn, Calm' \/ starting, NEW p \in Paths
  PROVE  TookIn(p)'
<1>1. /\ pc = "takeIn" /\ \A q \in Paths : written'[q] = MarkedAs(q)
      /\ timer' = (timer \/ (~starting /\ <<docs', folder', title'>> # <<docs, folder, title>>))
      /\ IsOwn(seen.files) =>
           title' = IF Collection \in seen.changed /\ seen.files[Collection].text # seen.title
                    THEN seen.files[Collection].text ELSE title
      /\ UNCHANGED <<disk, starting, queued, failures>>
  BY TakeInDoes
<1>2. Types
  BY DEF SyncInv
<1>3. Calm \/ starting
  BY <1>1 DEF Calm
<1>4. seen = Current
  BY <1>1, <1>3 DEF SyncInv, Looked
<1>5. /\ seen.files = disk /\ seen.title = title
      /\ seen.changed = {q \in Paths : disk[q] \notin {Absent, written[q]}}
      /\ seen.deleted = {q \in Paths : written[q] # Absent /\ disk[q] = Absent}
  BY <1>4 DEF Current, Seen
<1> SUFFICES ASSUME disk[p] # Absent, IsOwn(disk)
             PROVE  \/ disk[p] \in {written'[p], Bad, Foreign}
                    \/ p = Collection /\ disk[p] = Own(title')
                    \/ p.dir = "sub" /\ disk[FolderFile] # Group
  BY <1>1 DEF TookIn, IsOwn
<1>6. CASE p \notin seen.changed
  <2>1. disk[p] = written[p] /\ p \notin TakenIn /\ p \notin seen.deleted
    BY <1>5, <1>6 DEF TakenIn
  <2>2. written'[p] = written[p]
    BY <1>1, <1>5, <2>1 DEF MarkedAs, WrittenAs
  <2> QED BY <2>1, <2>2
<1>7. CASE p \in TakenIn
  <2>1. written'[p] = disk[p]
    BY <1>1, <1>5, <1>7 DEF MarkedAs, WrittenAs
  <2> QED BY <2>1
<1>8. CASE p \in seen.changed /\ p \notin TakenIn
  <2>1. p \notin Parsed(disk) /\ disk[p] # Group
    BY <1>5, <1>8 DEF TakenIn
  <2>2. CASE p = Collection
    <3>1. disk[p] = Own(disk[p].text)
      BY <1>2, <2>2, Places, Contents DEF Types, Holds, IsOwn
    <3>2. title' = disk[p].text
      BY <1>1, <1>5, <1>8, <2>2
    <3> QED BY <2>2, <3>1, <3>2
  <2>3. CASE p = FolderFile
    BY <1>2, <2>1, <2>3, Places DEF Types, Holds
  <2>4. CASE p \in Requests
    <3>1. CASE disk[p].kind = "request"
      <4>1. ~Readable(disk, p)
        BY <2>1, <2>4, <3>1 DEF Parsed
      <4> QED BY <2>4, <4>1, Places DEF Readable
    <3>2. CASE disk[p].kind # "request"
      BY <1>2, <2>4, <3>2, Places DEF Types, Holds
    <3> QED BY <3>1, <3>2
  <2> QED BY <2>2, <2>3, <2>4, Places
<1> QED BY <1>6, <1>7, <1>8

\* At the start, a file that cannot be read is the sync's, and so is the folder's own.
LEMMA StartTakesIn ==
  ASSUME SyncInv, TakeIn, starting
  PROVE  /\ \A p \in Paths : p.dir = "sub" /\ Kept(p)' => disk[FolderFile] = Group \/ Kept(FolderFile)'
         /\ IsOwn(disk)
         /\ disk[FolderFile] # Absent => written'[FolderFile] # Absent
<1>1. /\ pc = "takeIn" /\ \A q \in Paths : written'[q] = MarkedAs(q)
      /\ UNCHANGED <<disk, starting>>
  BY TakeInDoes
<1>2. Types
  BY DEF SyncInv
<1>3. /\ \A p \in Paths : written[p] = Absent
      /\ IsOwn(disk)
  BY <1>1 DEF SyncInv, Alone
<1>4. seen = Current
  BY <1>1 DEF SyncInv, Looked
<1>5. /\ seen.files = disk
      /\ seen.changed = {q \in Paths : disk[q] # Absent}
      /\ seen.deleted = {}
  BY <1>3, <1>4 DEF Current, Seen
<1>6. disk[FolderFile] \in {Absent, Bad, Group}
  BY <1>2, Places DEF Types, Holds
<1>7. ASSUME disk[FolderFile] = Bad
      PROVE  written'[FolderFile] = Unread
  <2>1. FolderFile \notin TakenIn
    BY <1>5, <1>7, TakenInAre, Places, Contents
  <2>2. WrittenAs(FolderFile) = Absent
    BY <1>3, <2>1, Places DEF WrittenAs
  <2> QED BY <1>1, <1>5, <1>7, <2>2, Places, Contents DEF MarkedAs
<1>8. ASSUME disk[FolderFile] = Group
      PROVE  written'[FolderFile] \in {Group, Unread}
  <2>1. FolderFile \in TakenIn
    BY <1>5, <1>8, Places, Contents DEF TakenIn
  <2> QED BY <1>1, <1>3, <1>5, <1>8, <2>1, Places, Contents DEF MarkedAs, WrittenAs
<1>9. ASSUME NEW p \in Paths, p.dir = "sub", Kept(p)', disk[FolderFile] # Group
      PROVE  Kept(FolderFile)'
  <2>1. written'[p] # Absent /\ disk[p] \notin {Absent, written'[p]}
    BY <1>1, <1>9 DEF Kept
  <2>2. ~(IsOwn(disk) /\ p \in TakenIn)
    BY <1>1, <1>5, <2>1 DEF MarkedAs, WrittenAs
  <2>3. WrittenAs(p) = Absent
    BY <1>3, <1>5, <2>2 DEF WrittenAs
  <2>4. p \in Failed(disk) \/ disk[FolderFile] # Absent
    BY <1>1, <1>5, <2>1, <2>3 DEF MarkedAs
  <2>5. disk[FolderFile] # Absent
    <3>1. CASE p \in Failed(disk)
      <4>1. disk[p] = Bad /\ (p = FolderFile \/ Readable(disk, p))
        BY <1>9, <3>1, Places DEF Failed
      <4>2. p = FolderFile
        BY <1>9, <4>1 DEF Readable
      <4> QED BY <4>1, <4>2, Contents
    <3> QED BY <2>4, <3>1
  <2>6. disk[FolderFile] = Bad
    BY <1>6, <1>9, <2>5
  <2> QED BY <1>1, <1>7, <2>6, Contents DEF Kept
<1> QED BY <1>3, <1>6, <1>7, <1>8, <1>9, Contents

LEMMA TakeInInv ==
  ASSUME SyncInv, TakeIn
  PROVE  SyncInv'
<1>1. /\ pc = "takeIn" /\ pc' = "plan"
      /\ \A p \in Paths : written'[p] = MarkedAs(p)
      /\ folder' \in BOOLEAN /\ timer' \in BOOLEAN
      /\ timer' = (timer \/ (~starting /\ <<docs', folder', title'>> # <<docs, folder, title>>))
      /\ UNCHANGED <<disk, ids, starting, queued, plan, userEdits, quits, failures>>
  BY TakeInDoes
<1>2. Types
  BY DEF SyncInv
<1>3. \A p \in seen.deleted : seen.files[p] = Absent
  BY <1>1 DEF SyncInv, Looked
<1>4. FolderFile \in TakenIn => seen.files[FolderFile] = Group
  BY TakenInAre, Places
<1>5. Types'
  <2>1. written'[FolderFile] \in {Absent, Group, Unread}
    BY <1>1, <1>2, <1>4, Places DEF Types, MarkedAs, WrittenAs
  <2> QED BY <1>1, <1>2, <2>1 DEF Types
<1>6. Alone'
  BY <1>1 DEF SyncInv, Alone
<1>7. Looked' /\ Planned' /\ Agreed'
  BY <1>1 DEF Looked, Planned, Agreed
<1>8. FolderKnown'
  <2> SUFFICES ASSUME folder', ~starting PROVE FolderId \in ids \/ timer'
    BY <1>1 DEF FolderKnown
  <2>1. CASE folder
    BY <1>1, <2>1 DEF SyncInv, FolderKnown
  <2>2. CASE ~folder
    <3>1. folder' # folder
      BY <2>2
    <3> QED BY <1>1, <3>1
  <2> QED BY <2>1, <2>2
<1>9. Taken'
  <2>1. Calm' \/ starting' => \A p \in Paths : TookIn(p)'
    BY <1>1, ReadNow
  <2>2. starting' =>
          /\ \A p \in Paths : p.dir = "sub" /\ Kept(p)' => disk'[FolderFile] = Group \/ Kept(FolderFile)'
          /\ IsOwn(disk)'
    BY <1>1, StartTakesIn DEF IsOwn
  <2> QED BY <1>1, <2>1, <2>2 DEF Taken
<1>10. FixedNames'
  <2> SUFFICES /\ disk'[FolderFile] # Absent => written'[FolderFile] # Absent
               /\ failures' = 0 => starting \/ written'[Collection] # Absent
    BY <1>1 DEF FixedNames
  <2>1. CASE starting
    BY <1>1, <2>1, StartTakesIn
  <2>2. CASE ~starting
    <3>1. ASSUME disk[FolderFile] # Absent
          PROVE  written'[FolderFile] # Absent
      <4>1. written[FolderFile] # Absent
        BY <1>1, <2>2, <3>1 DEF SyncInv, FixedNames
      <4>2. FolderFile \notin seen.deleted
        BY <1>1, <1>3, <3>1 DEF SyncInv, Looked
      <4> QED BY <1>1, <1>4, <4>1, <4>2, Places, Contents DEF MarkedAs, WrittenAs
    <3>2. ASSUME failures = 0
          PROVE  written'[Collection] # Absent
      <4>1. written[Collection] # Absent
        BY <1>1, <2>2, <3>2 DEF SyncInv, FixedNames
      <4>2. IsOwn(seen.files) => Collection \notin seen.deleted
        BY <1>3, Contents DEF IsOwn
      <4>3. IsOwn(seen.files) => Collection \notin TakenIn
        BY TakenInAre, Places, Contents DEF IsOwn
      <4> QED BY <1>1, <4>1, <4>2, <4>3, Places, Contents DEF MarkedAs, WrittenAs
    <3> QED BY <1>1, <2>2, <3>1, <3>2
  <2> QED BY <2>1, <2>2
<1> QED BY <1>5, <1>6, <1>7, <1>8, <1>9, <1>10 DEF SyncInv
-----------------------------------------------------------------------------
(* What is written *)

\* What the writes make of each file, and of what was written of it.
LEMMA WriteDoes ==
  ASSUME SyncInv, NEW failing, Write(failing)
  PROVE  /\ pc = "write" /\ failing \subseteq Attempted /\ Attempted = ToWrite \cup ToRemove
         /\ disk' = WrittenOut(Attempted \ failing)
         /\ \A p \in Paths : written'[p] =
              IF PendingEdit(p) \/ p \in failing \cap ToRemove THEN written[p]
              ELSE IF p \in failing THEN Absent ELSE plan.files[p]
         /\ failures' = failures + Cardinality(failing)
         /\ pc' = "idle" \/ pc' = "record"
         /\ plan.files[FolderFile] = Group => FolderId \in ids'
         /\ starting' = (starting /\ pc' = "record") /\ starting' \in BOOLEAN
         /\ timer' = (timer \/ Heard(Attempted \ failing)) /\ timer' \in BOOLEAN
         /\ UNCHANGED <<docs, folder, title, queued, seen, userEdits, quits>>
<1>1. /\ pc = "write" /\ failing \subseteq Attempted
      /\ disk' = WrittenOut(Attempted \ failing)
      /\ failures' = failures + Cardinality(failing)
      /\ ids' = UNION {IdsIn(plan.files)[p] : p \in Paths}
      /\ pc' = "idle" \/ pc' = "record"
      /\ UNCHANGED <<docs, folder, title, queued, seen, userEdits, quits>>
  BY DEF Write, database
<1>2. Attempted = ToWrite \cup ToRemove
  BY <1>1 DEF Attempted
<1>3. \A p \in Paths : written'[p] =
        IF PendingEdit(p) \/ p \in failing \cap ToRemove THEN written[p]
        ELSE IF p \in failing THEN Absent ELSE plan.files[p]
  BY DEF Write
<1>4. starting' = (starting /\ pc' = "record") /\ starting' \in BOOLEAN
  BY DEF Write
<1>5. timer' = (timer \/ Heard(Attempted \ failing)) /\ timer' \in BOOLEAN
  BY DEF Write
<1>6. ASSUME plan.files[FolderFile] = Group
      PROVE  FolderId \in ids'
  <2>1. FolderId \in IdsIn(plan.files)[FolderFile]
    BY <1>6, Places, Contents DEF IdsIn
  <2> QED BY <1>1, <2>1, Places
<1> QED BY <1>1, <1>2, <1>3, <1>4, <1>5, <1>6

LEMMA FailingCounts ==
  ASSUME failures \in Nat, NEW failing, failing \subseteq Attempted,
         failures' = failures + Cardinality(failing)
  PROVE  /\ failures' \in Nat
         /\ failures' = 0 => failures = 0 /\ failing = {}
<1>1. Attempted \subseteq Paths
  BY DEF Attempted, ToWrite, ToRemove
<1>2. IsFiniteSet(failing)
  BY <1>1, Finite, FS_Subset
<1>3. Cardinality(failing) \in Nat /\ (Cardinality(failing) = 0 => failing = {})
  BY <1>2, FS_CardinalityType, FS_EmptySet
<1> QED BY <1>3

\* The writes done, the two are in step.
LEMMA WritesAgree ==
  ASSUME SyncInv, NEW failing, Write(failing), Calm', NEW p \in Paths
  PROVE  \/ disk'[p] = CollectionFiles(docs, folder, title, Reserved)'[p]
         \/ LeftAlone(p)' \/ NotYetRead(p)'
<1> DEFINE files == CollectionFiles(docs, folder, title, Reserved)
<1>1. Types
  BY DEF SyncInv
<1>2. /\ pc = "write" /\ Attempted = ToWrite \cup ToRemove
      /\ disk' = WrittenOut(Attempted \ failing)
      /\ timer' = (timer \/ Heard(Attempted \ failing))
      /\ UNCHANGED <<docs, folder, title, queued, quits>>
      /\ \A q \in Paths : written'[q] =
           IF PendingEdit(q) \/ q \in failing \cap ToRemove THEN written[q]
           ELSE IF q \in failing THEN Absent ELSE plan.files[q]
  BY WriteDoes
<1>3. failing = {} /\ failures = 0
  BY <1>1, WriteDoes, FailingCounts DEF Types, Calm
<1>4. Calm /\ ~Heard(Attempted)
  BY <1>2, <1>3 DEF Calm
<1>5. /\ \A q \in Paths : TookIn(q)
      /\ starting =>
          /\ \A q \in Paths : q.dir = "sub" /\ Kept(q) => disk[FolderFile] = Group \/ Kept(FolderFile)
          /\ IsOwn(disk)
  BY <1>2, <1>4 DEF SyncInv, Taken
<1>6. /\ plan.onDisk = disk /\ plan.files = files
      /\ \A q \in Requests : disk[q] # Absent /\ written[q] = Absent => plan.files[q] = Absent
      /\ plan.files[Collection] = Own(title) /\ plan.files[Collection] # Absent
  BY <1>1, <1>2, <1>4, FilesOf, Contents DEF SyncInv, Planned, Types
<1> HIDE DEF files
<1>7. \A q \in Paths : PendingEdit(q) <=> Kept(q)
  BY <1>6 DEF PendingEdit, Kept
\* each file is as planned, but for an edit that was not taken in and for what is not the sync's
<1>8. ASSUME NEW q \in Paths
      PROVE  /\ Kept(q) => disk'[q] = disk[q] /\ written'[q] = written[q]
             /\ ~Kept(q) => written'[q] = plan.files[q]
             /\ ~Kept(q) /\ disk'[q] # plan.files[q] =>
                  /\ plan.files[q] = Absent /\ written[q] = Absent
                  /\ disk[q] # Absent /\ disk'[q] = disk[q]
             /\ disk[q] # Absent /\ written[q] = Absent /\ plan.files[q] = Absent => disk'[q] = disk[q]
  <2>1. q \in ToWrite <=> plan.files[q] \notin {Absent, disk[q]} /\ ~Kept(q)
    BY <1>6, <1>7 DEF ToWrite
  <2>2. q \in ToRemove <=> /\ plan.files[q] = Absent /\ written[q] # Absent
                           /\ disk[q] # Absent /\ ~Kept(q)
    BY <1>6, <1>7 DEF ToRemove
  <2>3. disk'[q] = IF q \in ToWrite THEN plan.files[q]
                   ELSE IF q \in ToRemove THEN Absent ELSE disk[q]
    BY <1>2, <1>3 DEF WrittenOut
  <2>4. written'[q] = IF Kept(q) THEN written[q] ELSE plan.files[q]
    BY <1>2, <1>3, <1>7
  <2> QED BY <2>1, <2>2, <2>3, <2>4
<1>9. CollectionFiles(docs, folder, title, Reserved)' = plan.files
  <2>1. ASSUME NEW q \in Requests
        PROVE  q \in Reserved' <=> q \in Reserved
    <3>1. q \in Paths
      BY Places
    <3>2. q \in Reserved' <=> disk'[q] # Absent /\ written'[q] = Absent
      BY <3>1 DEF Reserved
    <3>3. q \in Reserved <=> disk[q] # Absent /\ written[q] = Absent
      BY <3>1 DEF Reserved
    <3>4. Kept(q) => written[q] # Absent
      BY DEF Kept
    <3> QED BY <1>6, <1>8, <3>1, <3>2, <3>3, <3>4
  <2> DEFINE reserved == Reserved'
  <2>2. CollectionFiles(docs, folder, title, reserved) = files
    <3> HIDE DEF reserved
    <3>1. \A q \in Requests : q \in reserved <=> q \in Reserved
      BY <2>1 DEF reserved
    <3> QED BY <3>1, SameFiles DEF files
  <2>3. CollectionFiles(docs, folder, title, Reserved)' = CollectionFiles(docs, folder, title, reserved)
    BY <1>2
  <2> QED BY <1>6, <2>2, <2>3
<1>10. ~starting => disk' = disk
  BY <1>2, <1>3, <1>4 DEF Heard
<1> SUFFICES ASSUME disk'[p] # plan.files[p] PROVE LeftAlone(p)' \/ NotYetRead(p)'
  BY <1>9
<1>11. disk'[p] = disk[p] /\ disk[p] \notin {Absent, written[p]}
  BY <1>8 DEF Kept
<1>12. disk'[p] # written'[p]
  <2>1. CASE Kept(p)
    BY <1>8, <1>11, <2>1
  <2>2. CASE ~Kept(p)
    BY <1>8, <2>2
  <2> QED BY <2>1, <2>2
<1>13. CASE disk[p] \in {Bad, Foreign}
  BY <1>11, <1>13 DEF LeftAlone
<1>14. CASE p = Collection /\ disk[p] = Own(title)
  BY <1>6, <1>11, <1>14
<1>15. CASE ~IsOwn(disk)
  <2>1. CASE Kept(Collection)
    <3>1. disk'[Collection] = disk[Collection] /\ disk[Collection] # Absent
      BY <1>8, <2>1, Places DEF Kept
    <3> QED BY <1>15, <3>1 DEF LeftAlone, IsOwn
  <2>2. CASE ~Kept(Collection) /\ ~starting
    <3>1. disk'[Collection] = plan.files[Collection]
      BY <1>6, <1>8, <2>2, Places
    <3>2. disk[Collection] = Own(title)
      BY <1>6, <1>10, <2>2, <3>1
    <3> QED BY <1>15, <3>2, Contents DEF IsOwn
  <2>3. CASE ~Kept(Collection) /\ starting
    BY <1>5, <1>15, <2>3
  <2> QED BY <2>1, <2>2, <2>3
<1>16. CASE p.dir = "sub" /\ disk[FolderFile] # Group
  <2>1. CASE disk'[FolderFile] # Group
    BY <1>12, <1>16, <2>1 DEF LeftAlone
  <2>2. CASE disk'[FolderFile] = Group
    <3>1. starting /\ quits # 0
      BY <1>10, <1>16, <2>2 DEF SyncInv, Alone
    <3>2. ~Kept(FolderFile)
      BY <1>8, <1>16, <2>2, Places
    <3>3. ~Kept(p)
      BY <1>5, <1>16, <3>1, <3>2
    <3>4. written'[p] = Absent
      BY <1>8, <3>3
    <3> QED BY <1>2, <1>16, <3>1, <3>4 DEF NotYetRead
  <2> QED BY <2>1, <2>2
<1> QED BY <1>5, <1>11, <1>13, <1>14, <1>15, <1>16 DEF TookIn

LEMMA WriteInv ==
  ASSUME SyncInv, NEW failing, Write(failing)
  PROVE  SyncInv'
<1>1. Types
  BY DEF SyncInv
<1>2. /\ pc = "write" /\ failing \subseteq Attempted /\ Attempted = ToWrite \cup ToRemove
      /\ disk' = WrittenOut(Attempted \ failing)
      /\ \A p \in Paths : written'[p] =
           IF PendingEdit(p) \/ p \in failing \cap ToRemove THEN written[p]
           ELSE IF p \in failing THEN Absent ELSE plan.files[p]
      /\ failures' = failures + Cardinality(failing)
      /\ pc' = "idle" \/ pc' = "record"
      /\ plan.files[FolderFile] = Group => FolderId \in ids'
      /\ starting' = (starting /\ pc' = "record") /\ starting' \in BOOLEAN
      /\ timer' = (timer \/ Heard(Attempted \ failing)) /\ timer' \in BOOLEAN
      /\ UNCHANGED <<docs, folder, title, queued, seen, userEdits, quits>>
  BY WriteDoes
<1>3. failures' \in Nat /\ (failures' = 0 => failures = 0 /\ failing = {})
  BY <1>1, <1>2, FailingCounts DEF Types
<1>4. /\ Holds(FolderFile, plan.onDisk[FolderFile])
      /\ plan.files[Collection] # Absent /\ plan.files[FolderFile] \in {Absent, Group}
      /\ plan.onDisk[FolderFile] = Absent => disk[FolderFile] = Absent
  BY <1>2, Places DEF SyncInv, Planned
<1>5. Types'
  <2>1. written'[FolderFile] \in {Absent, Group, Unread}
    BY <1>1, <1>2, <1>4, Places DEF Types
  <2>2. DOMAIN disk' = Paths /\ \A p \in Paths : Holds(p, disk'[p])
    BY <1>2, WrittenOutHolds
  <2>3. queued' \in Nat /\ userEdits' \in Nat /\ quits' \in Nat /\ folder' \in BOOLEAN
    BY <1>1, <1>2 DEF Types
  <2> QED BY <1>2, <1>3, <2>1, <2>2, <2>3 DEF Types
<1>6. Alone'
  <2>1. starting' => starting /\ pc' = "record"
    BY <1>2
  <2>2. starting => ~timer /\ queued = 0 /\ quits # 0
    BY DEF SyncInv, Alone
  <2>3. starting => ~timer'
    BY <1>2, <2>2 DEF Heard
  <2> QED BY <1>2, <2>1, <2>2, <2>3 DEF Alone
<1>7. Looked' /\ Taken' /\ Planned'
  BY <1>2 DEF Looked, Taken, Planned
<1>8. FolderKnown'
  BY <1>2 DEF SyncInv, FolderKnown
<1>9. Agreed'
  BY WritesAgree DEF Agreed
<1>10. FixedNames'
  <2> SUFFICES /\ disk'[FolderFile] # Absent => written'[FolderFile] # Absent
               /\ failures' = 0 => written'[Collection] # Absent
    BY DEF FixedNames
  <2>1. disk[FolderFile] # Absent => written[FolderFile] # Absent
    BY <1>2 DEF SyncInv, FixedNames
  <2>2. ASSUME written'[FolderFile] = Absent
        PROVE  disk'[FolderFile] = Absent
    <3>1. disk'[FolderFile] =
            IF FolderFile \in (Attempted \ failing) \cap ToWrite THEN plan.files[FolderFile]
            ELSE IF FolderFile \in (Attempted \ failing) \cap ToRemove THEN Absent
            ELSE disk[FolderFile]
      BY <1>2, Places DEF WrittenOut
    <3>2. ~PendingEdit(FolderFile) /\ FolderFile \notin failing \cap ToRemove
      BY <1>2, <2>2, Places DEF PendingEdit, ToRemove
    <3>3. CASE FolderFile \in failing
      <4>1. FolderFile \in ToWrite
        BY <1>2, <3>2, <3>3
      <4>2. plan.files[FolderFile] = Group /\ plan.onDisk[FolderFile] # Group
        BY <1>4, <4>1 DEF ToWrite
      <4>3. plan.onDisk[FolderFile] = Absent \/ written[FolderFile] = Absent
        BY <1>1, <1>4, <3>2, <4>2, Places, Contents DEF PendingEdit, Types, Holds
      <4>4. FolderFile \notin ToRemove
        BY <4>2, Contents DEF ToRemove
      <4> QED BY <1>4, <2>1, <3>1, <3>3, <4>3, <4>4
    <3>4. CASE FolderFile \notin failing
      <4>1. plan.files[FolderFile] = Absent
        BY <1>2, <2>2, <3>2, <3>4, Places
      <4>2. FolderFile \notin ToWrite
        BY <4>1 DEF ToWrite
      <4>3. CASE FolderFile \in ToRemove
        BY <1>2, <3>1, <3>4, <4>2, <4>3
      <4>4. CASE FolderFile \notin ToRemove
        <5>1. written[FolderFile] = Absent \/ plan.onDisk[FolderFile] = Absent
          BY <3>2, <4>1, <4>4, Places DEF ToRemove
        <5> QED BY <1>4, <2>1, <3>1, <4>2, <4>4, <5>1
      <4> QED BY <4>3, <4>4
    <3> QED BY <3>3, <3>4
  <2>3. failures' = 0 => written'[Collection] # Absent
    BY <1>2, <1>3, <1>4, Places DEF PendingEdit
  <2> QED BY <2>2, <2>3
<1> QED BY <1>5, <1>6, <1>7, <1>8, <1>9, <1>10 DEF SyncInv
-----------------------------------------------------------------------------
(* The theorems *)

LEMMA SyncStep ==
  ASSUME SyncInv, SyncNext
  PROVE  SyncInv'
<1>1. CASE Sync
  BY <1>1, TimerInv, ReadInv, TakeInInv, PlanInv, WriteInv, RecordInv DEF Sync
<1>2. CASE \E failing \in SUBSET Attempted : failing # {} /\ Write(failing)
  BY <1>2, WriteInv
<1>3. CASE \E done \in SUBSET Attempted : Quit(done)
  BY <1>3, QuitInv
<1>4. CASE Start
  BY <1>4, StartInv
<1>5. CASE User
  BY <1>5, UserInv
<1>6. CASE App
  BY <1>6, AppInv
<1> QED BY <1>1, <1>2, <1>3, <1>4, <1>5, <1>6 DEF SyncNext

LEMMA SyncStutter ==
  ASSUME SyncInv, UNCHANGED syncVars
  PROVE  SyncInv'
<1>1. UNCHANGED <<disk, docs, folder, title, written, ids, pc, starting, timer, queued, seen,
                  plan, userEdits, quits, failures>>
  BY DEF syncVars, database, memory, bounds
<1> USE <1>1
<1>2. Calm' = Calm /\ Current' = Current /\ Reserved' = Reserved /\ IsOwn(disk)' = IsOwn(disk)
  BY DEF Calm, Current, Seen, Reserved, IsOwn
<1>3. CollectionFiles(docs, folder, title, Reserved)' = CollectionFiles(docs, folder, title, Reserved)
  BY <1>2
<1>4. \A p : /\ TookIn(p)' = TookIn(p) /\ Kept(p)' = Kept(p)
             /\ LeftAlone(p)' = LeftAlone(p) /\ NotYetRead(p)' = NotYetRead(p)
  BY <1>2 DEF TookIn, Kept, LeftAlone, NotYetRead
<1>5. Types' /\ Alone' /\ Looked'
  BY <1>2 DEF SyncInv, Types, Alone, Looked
<1>6. FolderKnown' /\ FixedNames'
  BY DEF SyncInv, FolderKnown, FixedNames
<1>7. Taken'
  BY <1>2, <1>4 DEF SyncInv, Taken
<1>8. Planned'
  BY <1>2, <1>3 DEF SyncInv, Planned
<1>9. Agreed'
  BY <1>2, <1>3, <1>4 DEF SyncInv, Agreed
<1> QED BY <1>5, <1>6, <1>7, <1>8, <1>9 DEF SyncInv

\* The invariant above holds of every run of the sync.
THEOREM SyncSafe == SyncSpec => []SyncInv
<1>1. SyncInv /\ [SyncNext]_syncVars => SyncInv'
  BY SyncStep, SyncStutter
<1> QED BY InitInv, <1>1, PTL DEF SyncSpec

\* At rest (writeOut done, nothing heard since, no write failed) each file of the
\* folder is what the documents make of it, and no other is there, but for those
\* left alone and those in a folder whose own file a start has just put back.
THEOREM InStepAlways == SyncSpec => []InStep
<1>1. SyncInv => InStep
  BY DEF SyncInv, Agreed, InStep, AtRest, Quiet, Calm
<1> QED BY SyncSafe, <1>1, PTL

\* What a reconcile is to write over, or remove, is as it read it to plan.
Undisturbed == ~Overtaking => \A p \in Attempted : disk[p] = plan.onDisk[p]

LEMMA NothingDisturbed == SyncSpec => []Undisturbed
<1>1. SyncInit => Undisturbed
  BY DEF SyncInit, Undisturbed, Attempted
<1>2. SyncInv /\ Undisturbed /\ [SyncNext]_syncVars => Undisturbed'
  <2> SUFFICES ASSUME SyncInv, Undisturbed, [SyncNext]_syncVars, ~Overtaking, pc' = "write"
               PROVE  \A p \in Attempted' : disk'[p] = plan'.onDisk[p]
    BY DEF Undisturbed, Attempted
  <2>1. ASSUME pc = "write", UNCHANGED <<plan, written, disk>>
        PROVE  \A p \in Attempted' : disk'[p] = plan'.onDisk[p]
    BY <2>1 DEF Undisturbed, Attempted, ToWrite, ToRemove, PendingEdit
  <2>2. CASE Sync
    <3>1. ~Read /\ ~TakeIn /\ ~Write({}) /\ ~Record
      BY DEF Read, TakeIn, Write, Record
    <3>2. CASE TimerFires
      BY <2>1, <3>2 DEF TimerFires
    <3>3. CASE Plan
      <4>1. plan'.onDisk = disk /\ disk' = disk
        BY <3>3 DEF Plan
      <4> QED BY <4>1
    <3> QED BY <2>2, <3>1, <3>2, <3>3 DEF Sync
  <2>3. ~(\E failing \in SUBSET Attempted : failing # {} /\ Write(failing))
    BY DEF Write
  <2>4. ~(\E done \in SUBSET Attempted : Quit(done)) /\ ~Start
    BY DEF Quit, Start
  <2>5. CASE User
    <3>1. PICK files : Edits(files)
      BY <2>5, UserEdits DEF SyncInv
    <3>2. /\ {p \in Paths : files[p] # disk[p]} \cap Attempted = {}
          /\ disk' = files /\ UNCHANGED <<plan, written, pc>>
      BY <3>1 DEF Edits, Overtakes
    <3>3. Attempted' = Attempted /\ Attempted \subseteq Paths
      BY <3>2 DEF Attempted, ToWrite, ToRemove, PendingEdit
    <3> QED BY <3>2, <3>3 DEF Undisturbed
  <2>6. CASE App
    <3>1. UNCHANGED <<disk, plan, written, pc>>
      BY <2>6, AppDoes DEF SyncInv
    <3> QED BY <2>1, <3>1
  <2>7. CASE UNCHANGED syncVars
    BY <2>1, <2>7 DEF syncVars, memory
  <2> QED BY <2>2, <2>3, <2>4, <2>5, <2>6, <2>7 DEF SyncNext
<1> QED BY <1>1, <1>2, SyncSafe, PTL DEF SyncSpec

LEMMA WritesKeepOthers ==
  ASSUME SyncInv, Undisturbed, ~Overtaking, pc = "write",
         NEW done, done \subseteq Attempted, disk' = WrittenOut(done),
         NEW p \in Paths, disk'[p] # disk[p]
  PROVE  disk[p] \in {Absent, written[p]} \/ (p = Collection /\ failures # 0)
<1> SUFFICES ASSUME disk[p] \notin {Absent, written[p]}, p = Collection => failures = 0
             PROVE  FALSE
  OBVIOUS
<1>0. disk[p] = plan.onDisk[p]
  BY DEF WrittenOut, Undisturbed
<1>1. p \in ToWrite
  <2>1. p \in ToWrite \/ p \in ToRemove
    BY DEF WrittenOut
  <2>2. p \notin ToRemove
    BY <1>0 DEF ToRemove, PendingEdit
  <2> QED BY <2>1, <2>2
<1>2. plan.files[p] \notin {Absent, plan.onDisk[p]} /\ written[p] = Absent
  BY <1>0, <1>1 DEF ToWrite, PendingEdit
<1>3. CASE p \in Requests
  BY <1>0, <1>2, <1>3 DEF SyncInv, Planned
<1>4. CASE p = FolderFile
  BY <1>2, <1>4 DEF SyncInv, FixedNames
<1>5. CASE p = Collection
  <2>1. failures = 0 /\ starting
    BY <1>2, <1>5 DEF SyncInv, FixedNames
  <2>2. IsOwn(disk) /\ TookIn(p)
    BY <2>1 DEF SyncInv, Taken
  <2>3. folder \in BOOLEAN
    BY DEF SyncInv, Types
  <2>4. plan.files[p] = Own(title)
    BY <1>5, <2>1, <2>3, FilesOf DEF SyncInv, Planned
  <2>5. disk[p] \notin {Bad, Foreign}
    BY <1>5, <2>2, Contents DEF IsOwn
  <2>6. disk[p] = Own(title)
    BY <1>2, <1>5, <2>2, <2>5, Places DEF TookIn
  <2> QED BY <1>0, <1>2, <2>4, <2>6
<1> QED BY <1>3, <1>4, <1>5, Places

\* While nothing in the folder changes between a reconcile's reads of it and its
\* writes, neither writeOut's writes, nor a quit amid them, write over or remove a
\* file that is not the sync's, or whose edit was not taken in.  (With Overtaking they
\* do: writeOut compares with the content it read before, folder-sync.ts:323.)
THEOREM OthersKeptAlways == Overtaking = FALSE /\ SyncSpec => OthersKept
<1> DEFINE Kind ==
      pc = "write" => \A p \in Paths : disk'[p] # disk[p] =>
        \/ userEdits' # userEdits
        \/ disk[p] \in {Absent, written[p]}
        \/ p = Collection /\ failures # 0
<1>1. ASSUME SyncInv, Undisturbed, ~Overtaking, SyncNext
      PROVE  Kind
  <2> SUFFICES ASSUME pc = "write", userEdits' = userEdits,
                      NEW p \in Paths, disk'[p] # disk[p]
               PROVE  disk[p] \in {Absent, written[p]} \/ (p = Collection /\ failures # 0)
    OBVIOUS
  <2>1. CASE Sync
    <3>1. TimerFires \/ Read \/ TakeIn \/ Plan \/ Record => disk' = disk
      BY DEF TimerFires, Read, TakeIn, Plan, Record
    <3>2. CASE Write({})
      <4>1. disk' = WrittenOut(Attempted \ {})
        BY <3>2 DEF Write
      <4> QED BY <1>1, <4>1, WritesKeepOthers
    <3> QED BY <2>1, <3>1, <3>2 DEF Sync
  <2>2. CASE \E failing \in SUBSET Attempted : failing # {} /\ Write(failing)
    <3>1. PICK failing \in SUBSET Attempted : Write(failing)
      BY <2>2
    <3>2. disk' = WrittenOut(Attempted \ failing)
      BY <3>1 DEF Write
    <3> QED BY <1>1, <3>2, WritesKeepOthers
  <2>3. CASE \E done \in SUBSET Attempted : Quit(done)
    <3>1. PICK done \in SUBSET Attempted : Quit(done)
      BY <2>3
    <3>2. disk' = WrittenOut(done)
      BY <3>1 DEF Quit
    <3> QED BY <1>1, <3>2, WritesKeepOthers
  <2>4. CASE Start
    BY <2>4 DEF Start
  <2>5. CASE User
    <3>1. Types
      BY <1>1 DEF SyncInv
    <3>2. userEdits' = userEdits + 1 /\ userEdits \in Nat
      BY <2>5, <3>1, UserEdits DEF Edits, Types
    <3> QED BY <3>2
  <2>6. CASE App
    <3>1. Types
      BY <1>1 DEF SyncInv
    <3>2. disk' = disk
      BY <2>6, <3>1, AppDoes
    <3> QED BY <3>2
  <2> QED BY <1>1, <2>1, <2>2, <2>3, <2>4, <2>5, <2>6 DEF SyncNext
<1>2. ASSUME SyncInv, Undisturbed, ~Overtaking, [SyncNext]_syncVars
      PROVE  [Kind]_syncVars
  BY <1>1, <1>2
<1> HIDE DEF Kind
<1>3. OthersKept <=> [][Kind]_syncVars
  <2> USE DEF Kind
  <2> QED BY DEF OthersKept
<1>4. CASE Overtaking = FALSE
  <2>1. SyncInv /\ Undisturbed /\ [SyncNext]_syncVars => [Kind]_syncVars
    BY <1>2, <1>4
  <2>2. SyncSpec => [][Kind]_syncVars
    BY SyncSafe, NothingDisturbed, <2>1, PTL DEF SyncSpec
  <2> QED BY <1>3, <2>2
<1> QED BY <1>4
=============================================================================
