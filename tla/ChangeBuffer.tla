---------------------------- MODULE ChangeBuffer ----------------------------
(***************************************************************************)
(* The change feed of the database facade (common/database.ts): every      *)
(* write announces a change with notifyOfChange; while a buffer is open    *)
(* the changes wait in changeBuffer, and flushChanges takes them all and   *)
(* calls the listeners one after the other, AWAITING each, before the      *)
(* batch goes to the windows.  A flush in the middle of that (a "flight")  *)
(* is overtaken by the flushes begun meanwhile.                            *)
(*                                                                         *)
(* A change is its number in the order notifyOfChange was called.          *)
(***************************************************************************)
EXTENDS Integers, Sequences

CONSTANTS
  Listeners,   \* the callbacks the main process registers with onChange
  Hooks,       \* the one init() registers first: the models' delete hooks
  Failing,     \* the listeners whose promise may reject
  Windows,     \* the app's windows
  MaxChanges,  \* bound: changes announced
  MaxBuffers   \* bound: buffers opened

ASSUME ListenersAssumption == Hooks \in Listeners /\ Failing \subseteq Listeners \ {Hooks}
ASSUME BoundsAssumption == MaxChanges \in Nat /\ MaxBuffers \in Nat

VARIABLES
  openBuffers,      \* the ids of the buffers open
  timers,           \* the ids whose setTimeout has not fired
  bufferChangesId,  \* the last id given out
  changeBuffer,     \* the changes waiting for a flush
  changeListeners,  \* the array of listeners, in the order of registration
  flights,          \* the flushChanges calls awaiting a listener
  announced,        \* how many changes were announced so far
  dropped,          \* history: the changes a fake flush dropped
  failed,           \* history: the changes of a batch one listener rejected
  heard,            \* history: what each listener was called with, in order
  received          \* history: what each window was sent, in order

bufferVars == <<openBuffers, timers, bufferChangesId>>
history == <<dropped, failed, heard, received>>
vars == <<bufferVars, changeBuffer, changeListeners, flights, announced, history>>

\* A flight holds the batch, the listener it awaits, the ones it has still to
\* call, and whether the array it iterates is the current one: onChange pushes
\* onto that array, offChange replaces it.
Flight == [changes : Seq(Nat), at : Listeners, rest : Seq(Listeners), live : BOOLEAN]

TypeOK ==
  /\ bufferChangesId \in Nat
  /\ openBuffers \subseteq 1..bufferChangesId
  /\ timers \subseteq 1..bufferChangesId
  /\ changeBuffer \in Seq(Nat)
  /\ changeListeners \in Seq(Listeners)
  /\ flights \subseteq Flight
  /\ announced \in Nat
  /\ dropped \subseteq Nat /\ failed \subseteq Nat
  /\ heard \in [Listeners -> Seq(Nat)]
  /\ received \in [Windows -> Seq(Nat)]

Init ==
  /\ openBuffers = {} /\ timers = {} /\ bufferChangesId = 0
  /\ changeBuffer = <<>> /\ changeListeners = <<Hooks>> /\ flights = {}
  /\ announced = 0 /\ dropped = {} /\ failed = {}
  /\ heard = [l \in Listeners |-> <<>>]
  /\ received = [w \in Windows |-> <<>>]

Elements(s) == {s[i] : i \in 1..Len(s)}

-----------------------------------------------------------------------------
\* flushChanges calls the first listener before its first await, so a batch
\* reaches it in the step that drained the buffer.  `batches` are dispatched
\* together, and `changes` is all they hold, in order.
Dispatch(batches, changes) ==
  /\ heard' = [heard EXCEPT ![Head(changeListeners)] = @ \o changes]
  /\ flights' = flights \cup
       {[changes |-> b, at |-> Head(changeListeners), rest |-> Tail(changeListeners),
         live |-> TRUE] : b \in batches}

\* Mutants of FlushChanges: closing a buffer drains it whatever others are
\* open; only the last buffer's flush drains; the buffer is not emptied.
FlushRegardless(id, fake) ==
  /\ openBuffers' = IF id = 0 THEN {} ELSE openBuffers \ {id}
  /\ changeBuffer' = <<>>
  /\ IF changeBuffer # <<>> THEN Dispatch({changeBuffer}, changeBuffer)
                            ELSE UNCHANGED <<heard, flights>>
  /\ UNCHANGED <<bufferChangesId, changeListeners, announced, dropped, failed, received>>

FlushOfTheLastOnly(id, fake) ==
  LET drains == id \in {0, bufferChangesId} /\ changeBuffer # <<>> IN
  /\ openBuffers' = IF id = 0 THEN {} ELSE openBuffers \ {id}
  /\ changeBuffer' = IF drains THEN <<>> ELSE changeBuffer
  /\ IF drains THEN Dispatch({changeBuffer}, changeBuffer) ELSE UNCHANGED <<heard, flights>>
  /\ UNCHANGED <<bufferChangesId, changeListeners, announced, dropped, failed, received>>

FlushKeepsTheChanges(id, fake) ==
  LET left == IF id = 0 THEN {} ELSE openBuffers \ {id} IN
  /\ openBuffers' = left
  /\ IF left = {} /\ changeBuffer # <<>>
       THEN Dispatch({changeBuffer}, changeBuffer)
       ELSE UNCHANGED <<heard, flights>>
  /\ UNCHANGED <<changeBuffer, bufferChangesId, changeListeners, announced, dropped, failed,
                 received>>

\* flushChanges(id, fake); id 0 is the forced flush, which ends every buffer.
FlushChanges(id, fake) ==
  LET left == IF id = 0 THEN {} ELSE openBuffers \ {id}
      drains == left = {} /\ changeBuffer # <<>>
  IN
  /\ openBuffers' = left
  /\ changeBuffer' = IF drains THEN <<>> ELSE changeBuffer
  /\ dropped' = IF drains /\ fake THEN dropped \cup Elements(changeBuffer) ELSE dropped
  /\ IF drains /\ ~fake
       THEN Dispatch({changeBuffer}, changeBuffer)
       ELSE UNCHANGED <<heard, flights>>
  /\ UNCHANGED <<bufferChangesId, changeListeners, announced, failed, received>>

\* Mutant: a change goes out at once, past the ones that are buffered.
NotifyPastTheBuffer(k) ==
  LET new == [i \in 1..k |-> announced + i] IN
  /\ announced' = announced + k
  /\ IF openBuffers = {} \/ k = 1
       THEN Dispatch({<<new[i]>> : i \in 1..k}, new) /\ UNCHANGED changeBuffer
       ELSE changeBuffer' = changeBuffer \o new /\ UNCHANGED <<heard, flights>>

\* k calls of notifyOfChange with no await between them: with nothing
\* buffering each flushes at once, as a batch of its own.
NotifyOfChange(k) ==
  LET new == [i \in 1..k |-> announced + i] IN
  /\ announced' = announced + k
  /\ IF openBuffers = {}
       THEN /\ Dispatch({changeBuffer \o <<new[1]>>} \cup {<<new[i]>> : i \in 2..k},
                        changeBuffer \o new)
            /\ changeBuffer' = <<>>
       ELSE /\ changeBuffer' = changeBuffer \o new
            /\ UNCHANGED <<heard, flights>>

-----------------------------------------------------------------------------
\* A write somewhere in the app announces its changes (a removed tree, several).
Announce(k) ==
  /\ announced + k <= MaxChanges
  /\ NotifyOfChange(k)
  /\ UNCHANGED <<bufferVars, changeListeners, dropped, failed, received>>

\* Mutant: the id a buffer gets is the last one's (id++ for ++id).
BufferChangesPostfix(timed) ==
  /\ bufferChangesId < MaxBuffers
  /\ bufferChangesId' = bufferChangesId + 1
  /\ openBuffers' = openBuffers \cup {bufferChangesId}
  /\ timers' = IF timed THEN timers \cup {bufferChangesId} ELSE timers
  /\ UNCHANGED <<changeBuffer, changeListeners, flights, announced, history>>

\* bufferChanges arms the timer that flushes the buffer by itself;
\* bufferChangesIndefinitely does not.
BufferChanges(timed) ==
  /\ bufferChangesId < MaxBuffers
  /\ bufferChangesId' = bufferChangesId + 1
  /\ openBuffers' = openBuffers \cup {bufferChangesId'}
  /\ timers' = IF timed THEN timers \cup {bufferChangesId'} ELSE timers
  /\ UNCHANGED <<changeBuffer, changeListeners, flights, announced, history>>

TimerFires(id) ==
  /\ id \in timers
  /\ timers' = timers \ {id}
  /\ FlushChanges(id, FALSE)

\* Whoever opened a buffer closes it (before or after its timer), or a caller
\* flushes with no id, or for nobody to hear of it.
Flush(id, fake) ==
  /\ id \in 0..bufferChangesId
  /\ FlushChanges(id, fake)
  /\ UNCHANGED timers

\* Mutant: a flush whose listeners changed under it does not reach the windows.
DoneUnlessReplaced(f) ==
  /\ f \in flights
  /\ IF f.rest = <<>>
       THEN /\ flights' = flights \ {f}
            /\ received' = [w \in Windows |->
                 IF f.live THEN received[w] \o f.changes ELSE received[w]]
            /\ UNCHANGED heard
       ELSE /\ flights' = (flights \ {f}) \cup {[f EXCEPT !.at = Head(f.rest), !.rest = Tail(@)]}
            /\ heard' = [heard EXCEPT ![Head(f.rest)] = @ \o f.changes]
            /\ UNCHANGED received
  /\ UNCHANGED <<bufferVars, changeBuffer, changeListeners, announced, dropped, failed>>

\* The awaited listener is done: the next is called, or, after the last, the
\* batch is sent to every window.
ListenerDone(f) ==
  /\ f \in flights
  /\ IF f.rest = <<>>
       THEN /\ flights' = flights \ {f}
            /\ received' = [w \in Windows |-> received[w] \o f.changes]
            /\ UNCHANGED heard
       ELSE /\ flights' = (flights \ {f}) \cup {[f EXCEPT !.at = Head(f.rest), !.rest = Tail(@)]}
            /\ heard' = [heard EXCEPT ![Head(f.rest)] = @ \o f.changes]
            /\ UNCHANGED received
  /\ UNCHANGED <<bufferVars, changeBuffer, changeListeners, announced, dropped, failed>>

\* The awaited listener rejects: flushChanges rejects with it, so neither the
\* listeners after it nor the windows get the batch.
ListenerFails(f) ==
  /\ f \in flights /\ f.at \in Failing
  /\ flights' = flights \ {f}
  /\ failed' = failed \cup Elements(f.changes)
  /\ UNCHANGED <<bufferVars, changeBuffer, changeListeners, announced, dropped, heard, received>>

\* onChange pushes onto the array, and the flights still iterating it reach
\* the new listener too.
OnChange(l) ==
  /\ l \notin Elements(changeListeners)
  /\ changeListeners' = Append(changeListeners, l)
  /\ flights' = {IF f.live THEN [f EXCEPT !.rest = Append(@, l)] ELSE f : f \in flights}
  /\ UNCHANGED <<bufferVars, changeBuffer, announced, history>>

\* offChange replaces the array by one without the callback (which is in it
\* once, and is not the hooks'); the flights keep the old one, and still call it.
OffChange(k) ==
  /\ changeListeners' = SubSeq(changeListeners, 1, k - 1)
                          \o SubSeq(changeListeners, k + 1, Len(changeListeners))
  /\ flights' = {[f EXCEPT !.live = FALSE] : f \in flights}
  /\ UNCHANGED <<bufferVars, changeBuffer, announced, history>>

Next ==
  \/ \E k \in 1..2 : Announce(k)
  \/ \E timed \in BOOLEAN : BufferChanges(timed)
  \/ \E id \in timers : TimerFires(id)
  \/ \E id \in 0..bufferChangesId, fake \in BOOLEAN : Flush(id, fake)
  \/ \E f \in flights : ListenerDone(f) \/ ListenerFails(f)
  \/ \E l \in Listeners : OnChange(l)
  \/ \E k \in 2..Len(changeListeners) : OffChange(k)

Spec == Init /\ [][Next]_vars

\* Timers fire, and a listener's promise settles.
Fairness ==
  /\ WF_vars(\E id \in timers : TimerFires(id))
  /\ WF_vars(\E f \in flights : ListenerDone(f) \/ ListenerFails(f))

FairSpec == Spec /\ Fairness

-----------------------------------------------------------------------------
\* What the feed comes to for a window: the buffer is what waits, the flights
\* are the batches under way, and a batch is lost when a listener rejects it or
\* a fake flush drops it.
Feed == INSTANCE ChangeFeed WITH
  waiting <- changeBuffer,
  out     <- {f.changes : f \in flights},
  told    <- received,
  lost    <- dropped \cup failed

\* The buffers, timers and awaited listeners keep the promise of ChangeFeed:
\* however flushes overlap and listeners come and go, a change goes out in one
\* batch, and every window is told of that batch once, or none is.
KeepsThePromise == Feed!Spec

\* A change waits only while a buffer is open: overlapping buffered operations
\* never strand each other's events (the comment above openBuffers).
NothingStranded == openBuffers = {} => changeBuffer = <<>>

NoDuplicates(s) == \A i, j \in 1..Len(s) : i < j => s[i] # s[j]
Ascending(s) == \A i, j \in 1..Len(s) : i < j => s[i] < s[j]

\* The delete hooks, which drop the files of the responses removed, hear of
\* every change that is not still buffered (or dropped on purpose), once, and
\* in the order the changes were made, however the flushes overlap.
HooksHearAllInOrder ==
  /\ Ascending(heard[Hooks])
  /\ Elements(heard[Hooks]) =
       (1..announced) \ (dropped \cup Elements(changeBuffer))

\* No listener and no window is told of a change twice, whatever listeners
\* come and go while batches are being delivered.
ToldOnce ==
  /\ \A l \in Listeners : NoDuplicates(heard[l])
  /\ \A w \in Windows : NoDuplicates(received[w])

\* While some buffer stays open no step takes a change out of the buffer: one
\* operation's flush (or its timer's) does not publish another's half-done work.
OverlapsCoalesce ==
  [][openBuffers \cap openBuffers' # {} =>
       /\ Len(changeBuffer') >= Len(changeBuffer)
       /\ \A i \in 1..Len(changeBuffer) : changeBuffer'[i] = changeBuffer[i]]_vars

\* Every change reaches every window in the end, unless a listener rejected
\* its batch or it was dropped on purpose, provided that whoever opens a buffer
\* without a timer closes it.
Reached(n, w) == n \in Elements(received[w]) \cup failed \cup dropped

ReachesWindows ==
  []<>(openBuffers \subseteq timers) =>
    \A n \in 1..MaxChanges, w \in Windows : (announced >= n) ~> Reached(n, w)
=============================================================================
