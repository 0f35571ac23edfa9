----------------------------- MODULE ChangeFeed -----------------------------
(***************************************************************************)
(* What the change feed promises the windows, whatever its buffers, timers *)
(* and listeners do: a change waits, goes out in one batch with those that *)
(* wait with it, and is told to every window once, or to none.  It is what *)
(* ChangeBuffer implements (ChangeBuffer!Feed) and what a window builds on *)
(* (Revalidation).                                                         *)
(***************************************************************************)
EXTENDS Naturals, Sequences

CONSTANTS
  Windows,     \* the app's windows
  MaxChanges   \* bound: changes announced

VARIABLES
  announced,   \* how many changes were made so far: a change is its number
  waiting,     \* the changes not sent out yet, in the order they were made
  out,         \* the batches under way
  told,        \* what each window was told, in order
  lost         \* the changes no window is told of

feedVars == <<announced, waiting, out, told, lost>>

ElementsOf(s) == {s[i] : i \in 1..Len(s)}

Init ==
  /\ announced = 0 /\ waiting = <<>> /\ out = {} /\ lost = {}
  /\ told = [w \in Windows |-> <<>>]

New(k) == [i \in 1..k |-> announced + i]

\* k changes are made, to wait with the others.
Announce(k) ==
  /\ announced + k <= MaxChanges
  /\ announced' = announced + k
  /\ waiting' = waiting \o New(k)
  /\ UNCHANGED <<out, told, lost>>

\* k changes are made while nothing is buffering: the first takes along what
\* waits, and each of the others goes out by itself.
AnnounceAtOnce(k) ==
  /\ announced + k <= MaxChanges
  /\ announced' = announced + k
  /\ waiting' = <<>>
  /\ out' = out \cup {Append(waiting, announced + 1)} \cup {<<announced + i>> : i \in 2..k}
  /\ UNCHANGED <<told, lost>>

\* All that waits goes out as one batch, or is dropped.
SendOut ==
  /\ waiting # <<>>
  /\ waiting' = <<>>
  /\ \/ out' = out \cup {waiting} /\ UNCHANGED lost
     \/ lost' = lost \cup ElementsOf(waiting) /\ UNCHANGED out
  /\ UNCHANGED <<announced, told>>

Tell(batch) ==
  /\ batch \in out
  /\ out' = out \ {batch}
  /\ told' = [w \in Windows |-> told[w] \o batch]
  /\ UNCHANGED <<announced, waiting, lost>>

Lose(batch) ==
  /\ batch \in out
  /\ out' = out \ {batch}
  /\ lost' = lost \cup ElementsOf(batch)
  /\ UNCHANGED <<announced, waiting, told>>

Next ==
  \/ \E k \in 1..2 : Announce(k) \/ AnnounceAtOnce(k)
  \/ SendOut
  \/ \E batch \in out : Tell(batch) \/ Lose(batch)

Spec == Init /\ [][Next]_feedVars
=============================================================================
