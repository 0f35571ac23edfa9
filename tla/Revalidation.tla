---------------------------- MODULE Revalidation ----------------------------
(***************************************************************************)
(* A window that shows what the database holds                             *)
(* (ui/revalidate-on-changes.ts): told of a change, it revalidates its     *)
(* routes, unless its own navigation or action is under way; then it waits *)
(* for the window to be idle, and needs not load anything if the load      *)
(* after an action has read the change already.                            *)
(*                                                                         *)
(* The window is composed with the feed (ChangeFeed).  The router          *)
(* (react-router-dom 7) is external, modelled from how the code uses it    *)
(* and from the repository's tests of it.  A load reads the changes made   *)
(* before it began: `from` is how many those are.                          *)
(***************************************************************************)
EXTENDS Integers, Sequences, FiniteSets

CONSTANTS
  Window,
  Fetchers,        \* the components' fetchers (useFetcher)
  Hidden,          \* the changes of types that are not REVALIDATE_TYPES
  FailuresOverlap, \* whether an action may fail with another load under way
  MaxChanges,      \* bound: changes made
  MaxActions,      \* bound: actions submitted
  MaxNavigations   \* bound: navigations of the user

Nav == "navigation"   \* the navigation's key in loadingThen and earlier

ASSUME FetchersAssumption == Nav \notin Fetchers
ASSUME HiddenAssumption == Hidden \subseteq 1..MaxChanges
ASSUME OverlapAssumption == FailuresOverlap \in BOOLEAN
ASSUME BoundsAssumption ==
  /\ MaxChanges \in Nat /\ MaxActions \in Nat /\ MaxNavigations \in Nat

VARIABLES
  announced, waiting, out, told, lost,  \* ChangeFeed's
  fetchers,      \* router.state.fetchers
  navigation,    \* router.state.navigation
  revalidation,  \* what the revalidation under way reads, None without one
  earlier,       \* of each load under way after an action or a navigation, those begun before it
  pending,       \* a change waits for the window to be idle
  loadingThen,   \* the actions' loads under way when the last change came
  loadedSince,   \* one has begun since
  reloaded,      \* the routes' data is not what it was then (dataThen)
  readUpTo,      \* history: the changes read by a load that has ended
  actions, navigations

feed == <<announced, waiting, out, told, lost>>
router == <<fetchers, navigation, revalidation, earlier>>
waits == <<pending, loadingThen, loadedSince, reloaded>>
bounds == <<actions, navigations>>
windowVars == <<feed, router, waits, readUpTo, bounds>>

Feed == INSTANCE ChangeFeed WITH Windows <- {Window}

None == -1

\* A fetcher: its load reads nothing after an action that was refused (4xx, 5xx)
\* or redirects; `outrun` is what has begun since the action was submitted that
\* its redirect gives way to; `alone` says that no other action, navigation or
\* revalidation ran beside it, `again` that it was submitted over an earlier one.
Fetcher == [state : {"idle", "submitting", "loading"}, from : Int, redirects : BOOLEAN,
            outrun : {"no", "navigation", "revalidation"}, alone : BOOLEAN, again : BOOLEAN]

Navigation == [state : {"idle", "loading"}, from : Int, posted : BOOLEAN, all : BOOLEAN]

IdleFetcher == [state |-> "idle", from |-> None, redirects |-> FALSE, outrun |-> "no",
                alone |-> FALSE, again |-> FALSE]
Loading(from) == [IdleFetcher EXCEPT !.state = "loading", !.from = from]
IdleNavigation == [state |-> "idle", from |-> None, posted |-> FALSE, all |-> FALSE]

WindowInit ==
  /\ Feed!Init
  /\ fetchers = [f \in Fetchers |-> IdleFetcher]
  /\ navigation = IdleNavigation
  /\ revalidation = None /\ earlier = [k \in Fetchers \cup {Nav} |-> {}]
  /\ pending = FALSE /\ loadingThen = {} /\ loadedSince = FALSE /\ reloaded = FALSE
  /\ readUpTo = 0 /\ actions = 0 /\ navigations = 0

-----------------------------------------------------------------------------
\* Mutant: an action's submission does not count.
BusyOnceLoading(fs, nav) ==
  nav.state # "idle" \/ \E f \in Fetchers : fs[f].state = "loading"

\* busy: a navigation, or a fetcher's action or the load after it (a fetcher's
\* plain load, which has no formMethod, is not modelled: it keeps nothing back).
WindowBusy(fs, nav) ==
  nav.state # "idle" \/ \E f \in Fetchers : fs[f].state # "idle"

ActionLoads(fs, nav) ==
  {f \in Fetchers : fs[f].state = "loading"}
    \cup (IF nav.state = "loading" /\ nav.posted THEN {Nav} ELSE {})

\* router.revalidate: everything is loaded anew, in place of a revalidation
\* under way, and an action's redirect gives way to it.
Outrun(fs, by) ==
  [f \in Fetchers |-> IF fs[f].state = "submitting" THEN [fs[f] EXCEPT !.outrun = by] ELSE fs[f]]

Revalidate ==
  /\ revalidation' = announced
  /\ fetchers' = Outrun(fetchers, "revalidation")

\* Mutant: what is pending waits for the fetchers alone.
SubscriberLeavesItPending(fs, nav, then, new, under) ==
  LET since == loadedSince \/ (pending /\ ActionLoads(fs, nav) \ then # {})
      idle == ~WindowBusy(fs, nav) /\ navigation.state = "idle"
  IN
  /\ navigation' = nav /\ fetchers' = fs
  /\ pending' = (pending /\ ~idle)
  /\ loadingThen' = IF pending' THEN then ELSE {}
  /\ loadedSince' = (pending' /\ since)
  /\ reloaded' = (pending' /\ (reloaded \/ new))
  /\ revalidation' = IF pending /\ idle /\ ~(since /\ (reloaded \/ new)) THEN announced
                                                                       ELSE under

\* Mutant: the subscriber trusts a load that has begun, whether or not it loaded.
SubscriberTrustsTheLoad(fs, nav, then, new, under) ==
  LET since == loadedSince \/ (pending /\ ActionLoads(fs, nav) \ then # {})
      idle == ~WindowBusy(fs, nav)
  IN
  /\ navigation' = nav /\ fetchers' = fs
  /\ pending' = (pending /\ ~idle)
  /\ loadingThen' = IF pending' THEN then ELSE {}
  /\ loadedSince' = (pending' /\ since)
  /\ reloaded' = (pending' /\ (reloaded \/ new))
  /\ revalidation' = IF pending /\ idle /\ ~since THEN announced ELSE under

\* The router's state is now fs and nav, with the revalidation `under` under way;
\* the subscriber runs on it, and the revalidation it queues as a microtask
\* before anything else happens (the last three matter only while a change is
\* pending).  `then` is loadingThen without the navigations
\* that are gone, `new` that some route's data was replaced.
Subscriber(fs, nav, then, new, under) ==
  LET since == loadedSince \/ (pending /\ ActionLoads(fs, nav) \ then # {})
      idle == ~WindowBusy(fs, nav)
  IN
  /\ navigation' = nav /\ fetchers' = fs
  /\ pending' = (pending /\ ~idle)
  /\ loadingThen' = IF pending' THEN then ELSE {}
  /\ loadedSince' = (pending' /\ since)
  /\ reloaded' = (pending' /\ (reloaded \/ new))
  /\ revalidation' = IF pending /\ idle /\ ~(since /\ (reloaded \/ new)) THEN announced
                                                                       ELSE under

\* The listener of revalidateOnDatabaseChanges, called with a batch.
Listener(batch) ==
  IF \A i \in 1..Len(batch) : batch[i] \in Hidden THEN UNCHANGED <<router, waits>>
  ELSE IF WindowBusy(fetchers, navigation) THEN
    /\ pending' = TRUE
    /\ loadedSince' = FALSE
    /\ loadingThen' = ActionLoads(fetchers, navigation)
    /\ reloaded' = FALSE
    /\ UNCHANGED router
  ELSE Revalidate /\ UNCHANGED <<navigation, earlier, waits>>

-----------------------------------------------------------------------------
\* The database changes, by the window's actions or by anyone else.
Changes ==
  /\ \/ \E k \in 1..2 : Feed!Announce(k) \/ Feed!AnnounceAtOnce(k)
     \/ Feed!SendOut
     \/ \E batch \in out : Feed!Lose(batch)
  /\ UNCHANGED <<router, waits, readUpTo, bounds>>

Told(batch) ==
  /\ Feed!Tell(batch)
  /\ Listener(batch)
  /\ UNCHANGED <<readUpTo, bounds>>

UnderWay ==
  {f \in Fetchers : fetchers[f].state = "loading" /\ ~fetchers[f].redirects}
    \cup (IF navigation.state = "loading" THEN {Nav} ELSE {})

\* The load k begins, and those of `keys` end.
Begins(k) == earlier' = [earlier EXCEPT ![k] = UnderWay]
EarlierWithout(keys) ==
  [k \in Fetchers \cup {Nav} |-> IF k \in keys THEN {} ELSE earlier[k] \ keys]

\* An action is submitted, perhaps over its fetcher's last one, whose load ends.
Submit(f) ==
  /\ actions < MaxActions
  /\ actions' = actions + 1
  /\ earlier' = EarlierWithout({f})
  /\ LET alone == ~WindowBusy(fetchers, navigation) /\ revalidation = None
         fs == [g \in Fetchers |->
                  IF g = f THEN [IdleFetcher EXCEPT !.state = "submitting", !.alone = alone,
                                                    !.again = fetchers[f].state # "idle"]
                           ELSE [fetchers[g] EXCEPT !.alone = FALSE]]
     IN Subscriber(fs, navigation, loadingThen, FALSE, revalidation)
  /\ UNCHANGED <<feed, readUpTo, navigations>>

\* The action is done: the router loads every route.
ActionDone(f) ==
  /\ fetchers[f].state = "submitting"
  /\ Begins(f)
  /\ Subscriber([fetchers EXCEPT ![f] = Loading(announced)], navigation, loadingThen, FALSE,
                revalidation)
  /\ UNCHANGED <<feed, readUpTo, bounds>>

\* It is refused (4xx, 5xx): the router goes through 'loading' and loads nothing.
ActionRefused(f) ==
  /\ fetchers[f].state = "submitting"
  /\ fetchers[f].alone \/ FailuresOverlap
  /\ Begins(f)
  /\ Subscriber([fetchers EXCEPT ![f] = Loading(None)], navigation, loadingThen, FALSE,
                revalidation)
  /\ UNCHANGED <<feed, readUpTo, bounds>>

\* It throws: the fetcher is dropped, and nothing is loaded.
ActionThrows(f) ==
  /\ fetchers[f].state = "submitting"
  /\ ~fetchers[f].again \/ FailuresOverlap
  /\ Subscriber([fetchers EXCEPT ![f] = IdleFetcher], navigation, loadingThen, FALSE,
                revalidation)
  /\ UNCHANGED <<feed, earlier, readUpTo, bounds>>

\* A navigation takes the place of the one under way, and of a revalidation; it
\* loads every route when it follows an action, or something that would have.
Go(fs, posted, all) ==
  /\ earlier' = [EarlierWithout({Nav}) EXCEPT ![Nav] = UnderWay \ {Nav}]
  /\ Subscriber(Outrun(fs, "navigation"),
       [state |-> "loading", from |-> announced, posted |-> posted, all |-> all],
       loadingThen \ {Nav}, FALSE, None)

\* It redirects: by a navigation that loads every route, unless another (or a
\* revalidation) has begun since it was submitted.
ActionRedirects(f) ==
  /\ fetchers[f].state = "submitting"
  /\ IF fetchers[f].outrun = "no"
       THEN Go([fetchers EXCEPT ![f] = [Loading(None) EXCEPT !.redirects = TRUE]], TRUE, TRUE)
       ELSE /\ Subscriber([fetchers EXCEPT ![f] = IdleFetcher], navigation, loadingThen, FALSE,
                          revalidation)
            /\ UNCHANGED earlier
  /\ UNCHANGED <<feed, readUpTo, bounds>>

\* The user navigates.
Navigate(all) ==
  /\ navigations < MaxNavigations
  /\ navigations' = navigations + 1
  /\ \/ revalidation # None \/ navigation.all \/ \E f \in Fetchers : fetchers[f].state # "idle"
     => all
  /\ Go([f \in Fetchers |-> [fetchers[f] EXCEPT !.alone = FALSE]], FALSE, all)
  /\ UNCHANGED <<feed, readUpTo, actions>>

Later(n) == readUpTo' = IF n > readUpTo THEN n ELSE readUpTo

\* A load of every route ends; the older ones of other actions are dropped.
Ended(fs, keys) == [g \in Fetchers |-> IF g \in keys THEN IdleFetcher ELSE fs[g]]

FetcherLoaded(f) ==
  /\ fetchers[f].state = "loading" /\ ~fetchers[f].redirects
  /\ LET gone == earlier[f] \cup {f}
         redirected == {g \in Fetchers : Nav \in gone /\ fetchers[g].redirects}
         nav == IF Nav \in gone THEN IdleNavigation ELSE navigation
         loaded == fetchers[f].from # None
     IN
     /\ earlier' = EarlierWithout(gone)
     /\ Later(fetchers[f].from)
     /\ Subscriber(Ended(fetchers, gone \cup redirected), nav,
                   IF Nav \in gone THEN loadingThen \ {Nav} ELSE loadingThen, loaded, revalidation)
  /\ UNCHANGED <<feed, bounds>>

\* A navigation ends; one that did not load every route may have replaced the
\* data of some of them, or not.
NavigationLoaded ==
  /\ navigation.state = "loading"
  /\ LET gone == earlier[Nav] \cup {f \in Fetchers : fetchers[f].redirects} IN
     /\ earlier' = EarlierWithout(gone \cup {Nav})
     /\ Later(IF navigation.all THEN navigation.from ELSE 0)
     /\ \E new \in IF navigation.all THEN {TRUE} ELSE BOOLEAN :
          Subscriber(Ended(fetchers, gone), IdleNavigation, loadingThen \ {Nav}, new, revalidation)
  /\ UNCHANGED <<feed, bounds>>

Revalidated ==
  /\ revalidation # None
  /\ Later(revalidation)
  /\ Subscriber(fetchers, navigation, loadingThen, TRUE, None)
  /\ UNCHANGED <<feed, earlier, bounds>>

Settles(f) == ActionDone(f) \/ ActionRefused(f) \/ ActionThrows(f) \/ ActionRedirects(f)

\* While there is an action to settle or a load to end, one of them does.
GoesOn ==
  \/ \E f \in Fetchers : Settles(f) \/ FetcherLoaded(f)
  \/ NavigationLoaded
  \/ Revalidated

WindowNext ==
  \/ Changes
  \/ \E batch \in out : Told(batch)
  \/ \E f \in Fetchers : Submit(f)
  \/ \E all \in BOOLEAN : Navigate(all)
  \/ GoesOn

WindowSpec == WindowInit /\ [][WindowNext]_windowVars

Fairness == WF_windowVars(GoesOn)

FairSpec == WindowSpec /\ Fairness

-----------------------------------------------------------------------------
IsTold(n) == n \notin Hidden /\ \E i \in 1..Len(told[Window]) : told[Window][i] = n

\* The types; of any two loads under way one began before the other, and a change
\* is pending only while the window is busy: else nothing would end the wait but
\* the next click.
WindowTypeOK ==
  /\ fetchers \in [Fetchers -> Fetcher]
  /\ navigation \in Navigation
  /\ revalidation \in Int /\ readUpTo \in Nat
  /\ earlier \in [Fetchers \cup {Nav} -> SUBSET UnderWay]
  /\ \A j, k \in UnderWay : j # k => (j \in earlier[k] <=> k \notin earlier[j])
  /\ pending \in BOOLEAN /\ loadedSince \in BOOLEAN /\ reloaded \in BOOLEAN
  /\ loadingThen \subseteq Fetchers \cup {Nav}
  /\ pending => WindowBusy(fetchers, navigation)
  /\ actions \in 0..MaxActions /\ navigations \in 0..MaxNavigations

\* A change the window was told of, and shows, is read, or will be: it is
\* pending, or a load of every route that began after it is under way.
NothingMissed ==
  /\ WindowTypeOK
  /\ \A n \in 1..announced : IsTold(n) =>
       \/ readUpTo >= n
       \/ pending
       \/ revalidation >= n
       \/ navigation.all /\ navigation.from >= n
       \/ \E f \in Fetchers : fetchers[f].from >= n

\* An action's redirect (a request just created, to be opened) never gives way
\* to a revalidation.
RedirectsKept == \A f \in Fetchers : fetchers[f].outrun # "revalidation"

\* Every change told is read in the end, however busy the window is.
ShownInTheEnd == \A n \in 1..MaxChanges : IsTold(n) ~> readUpTo >= n
=============================================================================
