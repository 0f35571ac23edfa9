------------------------ MODULE ChangeBuffer_proofs ------------------------
(***************************************************************************)
(* Proofs about ChangeBuffer, for any listeners, windows and bounds: its   *)
(* types, that no change is stranded, that the delete hooks hear of every  *)
(* change in order, that nobody is told of one twice, that no flush takes  *)
(* what an open buffer holds, and that the feed implements ChangeFeed.     *)
(***************************************************************************)
EXTENDS ChangeBuffer, SequenceTheorems, TLAPS

\* The hooks are registered first and stay first, so flushChanges always has a
\* listener to begin with.
HooksFirst == changeListeners # <<>> /\ changeListeners[1] = Hooks

Inv == TypeOK /\ HooksFirst /\ NothingStranded

LEMMA DispatchType ==
  ASSUME TypeOK, HooksFirst, NEW changes \in Seq(Nat), NEW batches \in SUBSET Seq(Nat),
         Dispatch(batches, changes)
  PROVE  heard' \in [Listeners -> Seq(Nat)] /\ flights' \subseteq Flight
<1>1. Head(changeListeners) \in Listeners /\ Tail(changeListeners) \in Seq(Listeners)
  BY HeadTailProperties DEF TypeOK, HooksFirst
<1>2. heard[Head(changeListeners)] \o changes \in Seq(Nat)
  BY <1>1, ConcatProperties DEF TypeOK
<1>3. heard' \in [Listeners -> Seq(Nat)]
  BY <1>1, <1>2 DEF TypeOK, Dispatch
<1>4. ASSUME NEW b \in batches
      PROVE  [changes |-> b, at |-> Head(changeListeners), rest |-> Tail(changeListeners),
              live |-> TRUE] \in Flight
  BY <1>1 DEF Flight
<1>5. flights' \subseteq Flight
  BY <1>4 DEF TypeOK, Dispatch
<1>. QED  BY <1>3, <1>5

LEMMA ElementsType ==
  ASSUME NEW s \in Seq(Nat)
  PROVE  Elements(s) \subseteq Nat
BY ElementOfSeq DEF Elements

LEMMA FlushInv ==
  ASSUME Inv, NEW id \in Nat, NEW fake \in BOOLEAN,
         FlushChanges(id, fake), timers' \subseteq timers
  PROVE  Inv'
<1>. USE DEF Inv, TypeOK
<1>1. UNCHANGED <<bufferChangesId, changeListeners, announced, failed, received>>
  BY DEF FlushChanges
<1>2. openBuffers' \subseteq openBuffers /\ changeBuffer' \in Seq(Nat)
  BY EmptySeq DEF FlushChanges
<1>3. dropped' \subseteq Nat
  BY ElementsType DEF FlushChanges
<1>4. heard' \in [Listeners -> Seq(Nat)] /\ flights' \subseteq Flight
  BY DispatchType DEF FlushChanges
<1>5. NothingStranded'
  BY DEF FlushChanges, NothingStranded
<1>6. HooksFirst'
  BY <1>1 DEF HooksFirst
<1>. QED  BY <1>1, <1>2, <1>3, <1>4, <1>5, <1>6

LEMMA AnnounceInv ==
  ASSUME Inv, NEW k \in 1..2, Announce(k)
  PROVE  Inv'
<1>. USE DEF Inv, TypeOK
<1>. DEFINE new == [i \in 1..k |-> announced + i]
<1>1. new \in Seq(Nat) /\ Len(new) = k
  OBVIOUS
<1>2. /\ UNCHANGED <<openBuffers, timers, bufferChangesId, changeListeners, dropped, failed,
                     received>>
      /\ announced' \in Nat
  BY DEF Announce, NotifyOfChange, bufferVars
<1>3. HooksFirst'
  BY <1>2 DEF HooksFirst
<1>4. CASE openBuffers = {}
  <2>. DEFINE batches == {changeBuffer \o <<new[1]>>} \cup {<<new[i]>> : i \in 2..k}
  <2>1. \A i \in 1..k : <<new[i]>> \in Seq(Nat)
    BY <1>1
  <2>a. changeBuffer \o <<new[1]>> \in Seq(Nat) /\ changeBuffer \o new \in Seq(Nat)
    BY <1>1, <2>1, ConcatProperties
  <2>2. batches \in SUBSET Seq(Nat)
    <3>1. ASSUME NEW b \in batches PROVE b \in Seq(Nat)
      <4>1. CASE b = changeBuffer \o <<new[1]>>
        BY <4>1, <2>a
      <4>2. CASE b \in {<<new[i]>> : i \in 2..k}
        <5>1. PICK i \in 2..k : b = <<new[i]>>
          BY <4>2
        <5>. QED  BY <5>1, <2>1
      <4>. QED  BY <4>1, <4>2
    <3>. QED  BY <3>1
  <2>3. Dispatch(batches, changeBuffer \o new) /\ changeBuffer' = <<>>
    BY <1>4 DEF Announce, NotifyOfChange
  <2>4. heard' \in [Listeners -> Seq(Nat)] /\ flights' \subseteq Flight
    BY <2>a, <2>2, <2>3, DispatchType
  <2>5. NothingStranded' /\ changeBuffer' \in Seq(Nat)
    BY <2>3, EmptySeq DEF NothingStranded
  <2>. QED  BY <1>2, <1>3, <2>4, <2>5
<1>5. CASE openBuffers # {}
  <2>1. changeBuffer' = changeBuffer \o new /\ UNCHANGED <<heard, flights>>
    BY <1>5 DEF Announce, NotifyOfChange
  <2>2. changeBuffer' \in Seq(Nat)
    BY <1>1, <2>1, ConcatProperties
  <2>3. NothingStranded'
    BY <1>2, <1>5 DEF NothingStranded
  <2>. QED  BY <1>2, <1>3, <2>1, <2>2, <2>3
<1>. QED  BY <1>4, <1>5

LEMMA BufferInv ==
  ASSUME Inv, NEW timed \in BOOLEAN, BufferChanges(timed)
  PROVE  Inv'
<1>. USE DEF Inv, TypeOK, BufferChanges, history
<1>1. TypeOK'
  OBVIOUS
<1>2. HooksFirst' /\ NothingStranded'
  BY DEF HooksFirst, NothingStranded
<1>. QED  BY <1>1, <1>2

LEMMA ListenerInv ==
  ASSUME Inv, NEW f \in flights, ListenerDone(f) \/ ListenerFails(f)
  PROVE  Inv'
<1>. USE DEF Inv, TypeOK
<1>1. UNCHANGED <<openBuffers, timers, bufferChangesId, changeBuffer, changeListeners, announced,
                  dropped>>
  BY DEF ListenerDone, ListenerFails, bufferVars
<1>2. HooksFirst' /\ NothingStranded'
  BY <1>1 DEF HooksFirst, NothingStranded
<1>3. f \in Flight
  OBVIOUS
<1>4. CASE ListenerDone(f) /\ f.rest = <<>>
  <2>1. \A w \in Windows : received[w] \o f.changes \in Seq(Nat)
    BY <1>3, ConcatProperties DEF Flight
  <2>. QED  BY <1>1, <1>2, <1>4, <2>1 DEF ListenerDone
<1>5. CASE ListenerDone(f) /\ f.rest # <<>>
  <2>1. f.rest \in Seq(Listeners) /\ f.changes \in Seq(Nat)
    BY <1>3 DEF Flight
  <2>2. Head(f.rest) \in Listeners /\ Tail(f.rest) \in Seq(Listeners)
    BY <1>5, <2>1, HeadTailProperties
  <2>3. heard[Head(f.rest)] \o f.changes \in Seq(Nat)
    BY <2>1, <2>2, ConcatProperties
  <2>4. [f EXCEPT !.at = Head(f.rest), !.rest = Tail(f.rest)] \in Flight
    BY <1>3, <2>2 DEF Flight
  <2>. QED  BY <1>1, <1>2, <1>5, <2>2, <2>3, <2>4 DEF ListenerDone
<1>6. CASE ListenerFails(f)
  <2>1. Elements(f.changes) \subseteq Nat
    BY <1>3, ElementsType DEF Flight
  <2>. QED  BY <1>1, <1>2, <1>6, <2>1 DEF ListenerFails
<1>. QED  BY <1>4, <1>5, <1>6

LEMMA OnChangeInv ==
  ASSUME Inv, NEW l \in Listeners, OnChange(l)
  PROVE  Inv'
<1>. USE DEF Inv, TypeOK, OnChange, bufferVars, history
<1>1. changeListeners' \in Seq(Listeners) /\ HooksFirst'
  BY AppendProperties DEF HooksFirst
<1>2. ASSUME NEW f \in flights
      PROVE  [f EXCEPT !.rest = Append(f.rest, l)] \in Flight
  <2>1. f \in Flight /\ Append(f.rest, l) \in Seq(Listeners)
    BY AppendProperties DEF Flight
  <2>. QED  BY <2>1 DEF Flight
<1>4. flights' \subseteq Flight
  BY <1>2
<1>3. NothingStranded'
  BY DEF NothingStranded
<1>. QED  BY <1>1, <1>3, <1>4

LEMMA OffChangeInv ==
  ASSUME Inv, NEW k \in 2..Len(changeListeners), OffChange(k)
  PROVE  Inv'
<1>. USE DEF Inv, TypeOK, OffChange, bufferVars, history
<1>. HIDE DEF OffChange
<1>. DEFINE before == SubSeq(changeListeners, 1, k - 1)
            after == SubSeq(changeListeners, k + 1, Len(changeListeners))
<1>0. /\ k - 1 \in Int /\ k + 1 \in Int /\ Len(changeListeners) \in Int /\ 1 <= k - 1
      /\ \A i \in 1..Len(changeListeners) : changeListeners[i] \in Listeners
  BY LenProperties, ElementOfSeq
<1>1. before \in Seq(Listeners) /\ Len(before) = k - 1 /\ before[1] = changeListeners[1]
  <2>1. \A i \in 1..k - 1 : changeListeners[i] \in Listeners
    BY <1>0
  <2>2. /\ before \in Seq(Listeners)
        /\ Len(before) = IF 1 <= k - 1 THEN k - 1 - 1 + 1 ELSE 0
        /\ \A i \in 1..k - 1 - 1 + 1 : before[i] = changeListeners[1 + i - 1]
    BY <1>0, <2>1, SubSeqProperties
  <2>. QED  BY <1>0, <2>2
<1>2. after \in Seq(Listeners)
  <2>1. \A i \in k + 1..Len(changeListeners) : changeListeners[i] \in Listeners
    BY <1>0
  <2>. QED  BY <1>0, <2>1, SubSeqProperties
<1>a. /\ before \o after \in Seq(Listeners)
      /\ Len(before \o after) = Len(before) + Len(after)
      /\ \A i \in 1..Len(before) + Len(after) :
           (before \o after)[i] = IF i <= Len(before) THEN before[i] ELSE after[i - Len(before)]
  BY <1>1, <1>2, ConcatProperties
<1>b. Len(after) \in Nat
  BY <1>2, LenProperties
<1>. HIDE DEF before, after
<1>c. 1 \in 1..Len(before) + Len(after) /\ 1 <= Len(before)
  BY <1>1, <1>b
<1>d. (before \o after)[1] = before[1]
  BY <1>a, <1>c
<1>3. before \o after \in Seq(Listeners) /\ (before \o after)[1] = Hooks
      /\ before \o after # <<>>
  BY <1>1, <1>a, <1>b, <1>c, <1>d, EmptySeq DEF HooksFirst
<1>4. ASSUME NEW f \in flights
      PROVE  [f EXCEPT !.live = FALSE] \in Flight
  BY DEF Flight
<1>5. changeListeners' = before \o after /\ UNCHANGED <<openBuffers, changeBuffer>>
  BY DEF OffChange, before, after
<1>6. HooksFirst' /\ NothingStranded'
  BY <1>3, <1>5 DEF HooksFirst, NothingStranded
<1>7. flights' \subseteq Flight
  BY <1>4 DEF OffChange
<1>. QED  BY <1>3, <1>5, <1>6, <1>7 DEF OffChange

\* The inductive invariant: types, the hooks' place, and that the buffer is
\* empty whenever no buffer is open.
THEOREM SpecInv == Spec => []Inv
<1>1. Init => Inv
  BY ListenersAssumption DEF Init, Inv, TypeOK, HooksFirst, NothingStranded
<1>2. Inv /\ [Next]_vars => Inv'
  <2>. SUFFICES ASSUME Inv, [Next]_vars PROVE Inv'
    OBVIOUS
  <2>1. ASSUME NEW k \in 1..2, Announce(k) PROVE Inv'
    BY <2>1, AnnounceInv
  <2>2. ASSUME NEW timed \in BOOLEAN, BufferChanges(timed) PROVE Inv'
    BY <2>2, BufferInv
  <2>3. ASSUME NEW id \in timers, TimerFires(id) PROVE Inv'
    <3>1. id \in Nat /\ FALSE \in BOOLEAN
      BY DEF Inv, TypeOK
    <3>2. FlushChanges(id, FALSE) /\ timers' \subseteq timers
      BY <2>3 DEF TimerFires
    <3>. QED  BY <3>1, <3>2, FlushInv
  <2>4. ASSUME NEW id \in 0..bufferChangesId, NEW fake \in BOOLEAN, Flush(id, fake) PROVE Inv'
    BY <2>4, FlushInv DEF Flush, Inv, TypeOK
  <2>5. ASSUME NEW f \in flights, ListenerDone(f) \/ ListenerFails(f) PROVE Inv'
    BY <2>5, ListenerInv
  <2>6. ASSUME NEW l \in Listeners, OnChange(l) PROVE Inv'
    BY <2>6, OnChangeInv
  <2>7. ASSUME NEW k \in 2..Len(changeListeners), OffChange(k) PROVE Inv'
    BY <2>7, OffChangeInv
  <2>8. CASE UNCHANGED vars
    BY <2>8 DEF vars, bufferVars, history, Inv, TypeOK, HooksFirst, NothingStranded
  <2>. QED  BY <2>1, <2>2, <2>3, <2>4, <2>5, <2>6, <2>7, <2>8 DEF Next
<1>. QED  BY <1>1, <1>2, PTL DEF Spec

\* Every reachable state is well typed.
THEOREM TypeCorrect == Spec => []TypeOK
BY SpecInv, PTL DEF Inv

\* No change waits in changeBuffer once every buffer is closed, whoever closed
\* it: its owner, its timer, or a forced flush.
THEOREM NeverStranded == Spec => []NothingStranded
BY SpecInv, PTL DEF Inv
-----------------------------------------------------------------------------
(* What the operators on sequences of changes and listeners do.            *)

LEMMA ElementsFacts ==
  ASSUME NEW S, NEW s \in Seq(S)
  PROVE  /\ Elements(s) \subseteq S
         /\ \A x : x \in Elements(s) <=> \E i \in 1..Len(s) : s[i] = x
         /\ Elements(<<>>) = {}
         /\ s # <<>> => Elements(s) # {}
<1>1. Elements(s) \subseteq S
  BY ElementOfSeq DEF Elements
<1>2. s # <<>> => 1 \in 1..Len(s)
  BY EmptySeq
<1>. QED  BY <1>1, <1>2 DEF Elements

LEMMA ElementsOfConcat ==
  ASSUME NEW S, NEW s \in Seq(S), NEW t \in Seq(S)
  PROVE  Elements(s \o t) = Elements(s) \cup Elements(t)
<1>1. /\ s \o t \in Seq(S)
      /\ Len(s \o t) = Len(s) + Len(t)
      /\ \A i \in 1..Len(s) + Len(t) :
           (s \o t)[i] = IF i <= Len(s) THEN s[i] ELSE t[i - Len(s)]
  BY ConcatProperties
<1>2. Len(s) \in Nat /\ Len(t) \in Nat
  BY LenProperties
<1>3. ASSUME NEW x \in Elements(s \o t) PROVE x \in Elements(s) \cup Elements(t)
  <2>1. PICK i \in 1..Len(s) + Len(t) : (s \o t)[i] = x
    BY <1>1 DEF Elements
  <2>2. CASE i <= Len(s)
    BY <1>1, <1>2, <2>1, <2>2 DEF Elements
  <2>3. CASE ~(i <= Len(s))
    <3>1. i - Len(s) \in 1..Len(t) /\ t[i - Len(s)] = x
      BY <1>1, <1>2, <2>1, <2>3
    <3>. QED  BY <3>1 DEF Elements
  <2>. QED  BY <2>2, <2>3
<1>4. ASSUME NEW x \in Elements(s) PROVE x \in Elements(s \o t)
  <2>1. PICK i \in 1..Len(s) : s[i] = x
    BY DEF Elements
  <2>2. i \in 1..Len(s) + Len(t) /\ (s \o t)[i] = x
    BY <1>1, <1>2, <2>1
  <2>. QED  BY <1>1, <2>2 DEF Elements
<1>5. ASSUME NEW x \in Elements(t) PROVE x \in Elements(s \o t)
  <2>1. PICK i \in 1..Len(t) : t[i] = x
    BY DEF Elements
  <2>2. i + Len(s) \in 1..Len(s) + Len(t) /\ (s \o t)[i + Len(s)] = x
    BY <1>1, <1>2, <2>1
  <2>. QED  BY <1>1, <2>2 DEF Elements
<1>. QED  BY <1>3, <1>4, <1>5

LEMMA ElementsOfAppend ==
  ASSUME NEW S, NEW s \in Seq(S), NEW x \in S
  PROVE  Elements(Append(s, x)) = Elements(s) \cup {x}
<1>1. <<x>> \in Seq(S) /\ Append(s, x) = s \o <<x>>
  BY AppendIsConcat
<1>2. Elements(<<x>>) = {x}
  BY DEF Elements
<1>3. Elements(s \o <<x>>) = Elements(s) \cup Elements(<<x>>)
  BY <1>1, ElementsOfConcat
<1>. QED  BY <1>1, <1>2, <1>3

LEMMA ElementsOfTail ==
  ASSUME NEW S, NEW s \in Seq(S), s # <<>>
  PROVE  Elements(s) = {Head(s)} \cup Elements(Tail(s))
<1>1. /\ Tail(s) \in Seq(S) /\ Len(Tail(s)) = Len(s) - 1
      /\ \A i \in 1..Len(Tail(s)) : Tail(s)[i] = s[i + 1]
  BY HeadTailProperties
<1>2. Len(s) \in Nat \ {0} /\ Head(s) = s[1]
  BY EmptySeq
<1>3. ASSUME NEW x \in Elements(s), x # Head(s) PROVE x \in Elements(Tail(s))
  <2>1. PICK i \in 1..Len(s) : s[i] = x
    BY DEF Elements
  <2>2. i - 1 \in 1..Len(Tail(s)) /\ Tail(s)[i - 1] = x
    BY <1>1, <1>2, <1>3, <2>1
  <2>. QED  BY <2>2 DEF Elements
<1>4. ASSUME NEW x \in Elements(Tail(s)) PROVE x \in Elements(s)
  <2>1. PICK i \in 1..Len(Tail(s)) : Tail(s)[i] = x
    BY DEF Elements
  <2>2. i + 1 \in 1..Len(s) /\ s[i + 1] = x
    BY <1>1, <1>2, <2>1
  <2>. QED  BY <2>2 DEF Elements
<1>5. Head(s) \in Elements(s)
  <2>1. 1 \in 1..Len(s)
    BY <1>2
  <2>. QED  BY <1>2, <2>1 DEF Elements
<1>. QED  BY <1>3, <1>4, <1>5

LEMMA TailWithoutDuplicates ==
  ASSUME NEW S, NEW s \in Seq(S), s # <<>>, NoDuplicates(s)
  PROVE  NoDuplicates(Tail(s)) /\ Head(s) \notin Elements(Tail(s))
<1>1. /\ Tail(s) \in Seq(S) /\ Len(Tail(s)) = Len(s) - 1
      /\ \A i \in 1..Len(Tail(s)) : Tail(s)[i] = s[i + 1]
  BY HeadTailProperties
<1>2. Len(s) \in Nat \ {0} /\ Head(s) = s[1]
  BY EmptySeq
<1>3. NoDuplicates(Tail(s))
  BY <1>1, <1>2 DEF NoDuplicates
<1>4. \A i \in 1..Len(Tail(s)) : Tail(s)[i] # Head(s)
  <2>. TAKE i \in 1..Len(Tail(s))
  <2>1. 1 \in 1..Len(s) /\ i + 1 \in 1..Len(s) /\ 1 < i + 1
    BY <1>1, <1>2
  <2>2. s[1] # s[i + 1]
    BY <2>1 DEF NoDuplicates
  <2>. QED  BY <1>1, <1>2, <2>2
<1>. QED  BY <1>3, <1>4 DEF Elements

LEMMA ConcatWithoutDuplicates ==
  ASSUME NEW S, NEW s \in Seq(S), NEW t \in Seq(S), NoDuplicates(s), NoDuplicates(t),
         Elements(s) \cap Elements(t) = {}
  PROVE  NoDuplicates(s \o t)
<1>1. /\ Len(s \o t) = Len(s) + Len(t)
      /\ \A i \in 1..Len(s) + Len(t) :
           (s \o t)[i] = IF i <= Len(s) THEN s[i] ELSE t[i - Len(s)]
  BY ConcatProperties
<1>2. Len(s) \in Nat /\ Len(t) \in Nat
  BY LenProperties
<1>3. SUFFICES ASSUME NEW i \in 1..Len(s) + Len(t), NEW j \in 1..Len(s) + Len(t), i < j
               PROVE  (s \o t)[i] # (s \o t)[j]
  BY <1>1 DEF NoDuplicates
<1>4. CASE j <= Len(s)
  BY <1>1, <1>2, <1>3, <1>4 DEF NoDuplicates
<1>5. CASE i <= Len(s) /\ ~(j <= Len(s))
  <2>1. i \in 1..Len(s) /\ j - Len(s) \in 1..Len(t)
    BY <1>2, <1>5
  <2>2. s[i] \in Elements(s) /\ t[j - Len(s)] \in Elements(t)
    BY <2>1 DEF Elements
  <2>3. (s \o t)[i] = s[i] /\ (s \o t)[j] = t[j - Len(s)]
    BY <1>1, <1>5
  <2>. QED  BY <2>2, <2>3
<1>6. CASE ~(i <= Len(s))
  <2>1. i - Len(s) \in 1..Len(t) /\ j - Len(s) \in 1..Len(t) /\ i - Len(s) < j - Len(s)
        /\ ~(j <= Len(s))
    BY <1>2, <1>3, <1>6
  <2>2. t[i - Len(s)] # t[j - Len(s)]
    BY <2>1 DEF NoDuplicates
  <2>. QED  BY <1>1, <1>6, <2>1, <2>2
<1>. QED  BY <1>2, <1>3, <1>4, <1>5, <1>6

LEMMA ConcatAscending ==
  ASSUME NEW s \in Seq(Nat), NEW t \in Seq(Nat), Ascending(s), Ascending(t),
         \A x \in Elements(s), y \in Elements(t) : x < y
  PROVE  Ascending(s \o t)
<1>1. /\ Len(s \o t) = Len(s) + Len(t)
      /\ \A i \in 1..Len(s) + Len(t) :
           (s \o t)[i] = IF i <= Len(s) THEN s[i] ELSE t[i - Len(s)]
  BY ConcatProperties
<1>2. Len(s) \in Nat /\ Len(t) \in Nat
  BY LenProperties
<1>3. SUFFICES ASSUME NEW i \in 1..Len(s) + Len(t), NEW j \in 1..Len(s) + Len(t), i < j
               PROVE  (s \o t)[i] < (s \o t)[j]
  BY <1>1 DEF Ascending
<1>4. CASE j <= Len(s)
  BY <1>1, <1>2, <1>3, <1>4 DEF Ascending
<1>5. CASE i <= Len(s) /\ ~(j <= Len(s))
  <2>1. i \in 1..Len(s) /\ j - Len(s) \in 1..Len(t)
    BY <1>2, <1>5
  <2>2. s[i] \in Elements(s) /\ t[j - Len(s)] \in Elements(t)
    BY <2>1 DEF Elements
  <2>3. (s \o t)[i] = s[i] /\ (s \o t)[j] = t[j - Len(s)]
    BY <1>1, <1>5
  <2>. QED  BY <2>2, <2>3
<1>6. CASE ~(i <= Len(s))
  <2>1. i - Len(s) \in 1..Len(t) /\ j - Len(s) \in 1..Len(t) /\ i - Len(s) < j - Len(s)
        /\ ~(j <= Len(s))
    BY <1>2, <1>3, <1>6
  <2>2. t[i - Len(s)] < t[j - Len(s)]
    BY <2>1 DEF Ascending
  <2>. QED  BY <1>1, <1>6, <2>1, <2>2
<1>. QED  BY <1>2, <1>3, <1>4, <1>5, <1>6

LEMMA AscendingHasNoDuplicates ==
  ASSUME NEW s \in Seq(Nat), Ascending(s)
  PROVE  NoDuplicates(s)
<1>1. \A i \in 1..Len(s) : s[i] \in Nat
  BY ElementOfSeq
<1>. QED  BY <1>1 DEF Ascending, NoDuplicates

LEMMA AppendWithoutDuplicates ==
  ASSUME NEW S, NEW s \in Seq(S), NEW x \in S, NoDuplicates(s), x \notin Elements(s)
  PROVE  NoDuplicates(Append(s, x))
<1>1. <<x>> \in Seq(S) /\ Append(s, x) = s \o <<x>>
  BY AppendIsConcat
<1>2. NoDuplicates(<<x>>) /\ Elements(<<x>>) = {x}
  BY DEF NoDuplicates, Elements
<1>. QED  BY <1>1, <1>2, ConcatWithoutDuplicates

\* What offChange leaves of the array.
LEMMA RemovedAt ==
  ASSUME NEW S, NEW s \in Seq(S), NEW k \in 1..Len(s), NoDuplicates(s)
  PROVE  NoDuplicates(SubSeq(s, 1, k - 1) \o SubSeq(s, k + 1, Len(s)))
<1>. DEFINE a == SubSeq(s, 1, k - 1)
            b == SubSeq(s, k + 1, Len(s))
<1>0. Len(s) \in Nat /\ k - 1 \in Int /\ k + 1 \in Int /\ \A i \in 1..Len(s) : s[i] \in S
  BY LenProperties, ElementOfSeq
<1>1. /\ a \in Seq(S) /\ Len(a) = IF 1 <= k - 1 THEN k - 1 - 1 + 1 ELSE 0
      /\ \A i \in 1..k - 1 - 1 + 1 : a[i] = s[1 + i - 1]
  <2>1. \A i \in 1..k - 1 : s[i] \in S
    BY <1>0
  <2>. QED  BY <1>0, <2>1, SubSeqProperties
<1>2. /\ b \in Seq(S) /\ Len(b) = IF k + 1 <= Len(s) THEN Len(s) - (k + 1) + 1 ELSE 0
      /\ \A i \in 1..Len(s) - (k + 1) + 1 : b[i] = s[k + 1 + i - 1]
  <2>1. \A i \in k + 1..Len(s) : s[i] \in S
    BY <1>0
  <2>. QED  BY <1>0, <2>1, SubSeqProperties
<1>. HIDE DEF a, b
<1>3. Len(a) = k - 1 /\ (\A i \in 1..Len(a) : a[i] = s[i])
  BY <1>0, <1>1
<1>4. Len(b) = Len(s) - k /\ (\A i \in 1..Len(b) : b[i] = s[k + i])
  BY <1>0, <1>2
<1>5. NoDuplicates(a) /\ NoDuplicates(b)
  <2>1. ASSUME NEW i \in 1..Len(a), NEW j \in 1..Len(a), i < j PROVE a[i] # a[j]
    <3>1. i \in 1..Len(s) /\ j \in 1..Len(s)
      BY <1>0, <1>3
    <3>. QED  BY <1>3, <2>1, <3>1 DEF NoDuplicates
  <2>2. ASSUME NEW i \in 1..Len(b), NEW j \in 1..Len(b), i < j PROVE b[i] # b[j]
    <3>1. k + i \in 1..Len(s) /\ k + j \in 1..Len(s) /\ k + i < k + j
      BY <1>0, <1>4, <2>2
    <3>2. s[k + i] # s[k + j]
      BY <3>1 DEF NoDuplicates
    <3>. QED  BY <1>4, <3>2
  <2>. QED  BY <2>1, <2>2 DEF NoDuplicates
<1>6. ASSUME NEW x \in Elements(a) \cap Elements(b) PROVE FALSE
  <2>1. PICK i \in 1..Len(a) : a[i] = x
    BY DEF Elements
  <2>2. PICK j \in 1..Len(b) : b[j] = x
    BY DEF Elements
  <2>3. i \in 1..Len(s) /\ k + j \in 1..Len(s) /\ i < k + j
    BY <1>0, <1>3, <1>4
  <2>4. s[i] # s[k + j]
    BY <2>3 DEF NoDuplicates
  <2>. QED  BY <1>3, <1>4, <2>1, <2>2, <2>4
<1>7. NoDuplicates(a \o b)
  BY <1>1, <1>2, <1>5, <1>6, ConcatWithoutDuplicates
<1>. QED  BY <1>7 DEF a, b
-----------------------------------------------------------------------------
(* The inductive invariant behind the feed's order and its single          *)
(* deliveries.                                                             *)

\* Two sequences of changes have none in common.
Apart(s, t) == Elements(s) \cap Elements(t) = {}

\* The changes of s were announced and have left the buffer.
HasLeft(s) == Elements(s) \subseteq (1..announced) \ Elements(changeBuffer)

\* No listener is registered twice, and no flight calls one twice; the hooks
\* are the ones it called first.
Registered ==
  /\ NoDuplicates(changeListeners)
  /\ \A f \in flights : NoDuplicates(f.rest) /\ Hooks \notin Elements(f.rest)

\* What waits is in order, and later than all that the hooks have heard.
BufferInOrder ==
  /\ Elements(changeBuffer) \subseteq (1..announced) \ dropped
  /\ dropped \subseteq 1..announced
  /\ Ascending(changeBuffer)
  /\ \A x \in Elements(heard[Hooks]), y \in Elements(changeBuffer) : x < y

\* The batches under way share no change with the buffer or with one another.
FlightsApart ==
  /\ \A f \in flights : f.changes # <<>> /\ NoDuplicates(f.changes) /\ HasLeft(f.changes)
  /\ \A f, g \in flights : f # g => Apart(f.changes, g.changes)

\* Whoever a flight has still to tell has heard nothing of its batch: the
\* windows, the listeners left to call, and, while it iterates the current
\* array, whoever is not registered and may yet be pushed onto it.
ToldApart ==
  /\ \A l \in Listeners : HasLeft(heard[l])
  /\ \A w \in Windows : HasLeft(received[w])
  /\ \A f \in flights, w \in Windows : Apart(received[w], f.changes)
  /\ \A f \in flights : \A l \in Elements(f.rest) : Apart(heard[l], f.changes)
  /\ \A f \in flights : f.live => \A l \in Listeners \ Elements(changeListeners) :
       l \notin Elements(f.rest) /\ Apart(heard[l], f.changes)

Ordered == Registered /\ BufferInOrder /\ HooksHearAllInOrder
Separate == FlightsApart /\ ToldApart /\ ToldOnce
FeedInv == Inv /\ Ordered /\ Separate

\* A dispatch of changes that were buffered or are new keeps everything apart.
LEMMA DispatchSeparate ==
  ASSUME Inv, Registered, BufferInOrder, Separate, announced' \in Nat, announced <= announced',
         changeBuffer' = <<>>, UNCHANGED <<changeListeners, received>>,
         NEW changes \in Seq(Nat), NEW batches \in SUBSET Seq(Nat), Dispatch(batches, changes),
         NoDuplicates(changes),
         Elements(changes) \subseteq Elements(changeBuffer) \cup (announced + 1..announced'),
         \A b \in batches : b # <<>> /\ NoDuplicates(b) /\ Elements(b) \subseteq Elements(changes),
         \A b, c \in batches : b # c => Apart(b, c)
  PROVE  Registered' /\ Separate'
<1>. DEFINE hd == Head(changeListeners)
            New(b) == [changes |-> b, at |-> hd, rest |-> Tail(changeListeners), live |-> TRUE]
<1>t. /\ changeListeners \in Seq(Listeners) /\ changeListeners # <<>> /\ hd = Hooks
      /\ flights \subseteq Flight /\ announced \in Nat
      /\ heard \in [Listeners -> Seq(Nat)] /\ received \in [Windows -> Seq(Nat)]
  BY DEF Inv, TypeOK, HooksFirst
<1>h. hd \in Listeners /\ Tail(changeListeners) \in Seq(Listeners)
  BY <1>t, HeadTailProperties
<1>1. heard' = [heard EXCEPT ![hd] = heard[hd] \o changes]
  BY DEF Dispatch
<1>2. flights' = flights \cup {New(b) : b \in batches}
  BY DEF Dispatch
<1>3. /\ NoDuplicates(Tail(changeListeners)) /\ hd \notin Elements(Tail(changeListeners))
      /\ Elements(changeListeners) = {hd} \cup Elements(Tail(changeListeners))
  BY <1>t, TailWithoutDuplicates, ElementsOfTail DEF Registered
<1>4. \A l \in Listeners : heard'[l] = IF l = hd THEN heard[hd] \o changes ELSE heard[l]
  BY <1>1, <1>t, <1>h
<1>5. Elements(heard[hd] \o changes) = Elements(heard[hd]) \cup Elements(changes)
  BY <1>t, <1>h, ElementsOfConcat
<1>6. \A l \in Listeners : Elements(heard'[l]) \subseteq Elements(heard[l]) \cup Elements(changes)
                          /\ (l # hd => heard'[l] = heard[l])
  BY <1>4, <1>5
\* What had left the buffer is none of it.
<1>7. \A s : HasLeft(s) => Elements(s) \subseteq 1..announced' /\ Apart(s, changes)
  BY <1>t DEF HasLeft, Apart
<1>e. Elements(changeBuffer') = {}
  BY ElementsFacts, EmptySeq
<1>8. Elements(changes) \subseteq 1..announced'
  <2>1. Elements(changeBuffer) \subseteq 1..announced
    BY DEF BufferInOrder
  <2>. QED  BY <1>t, <2>1
\* The old flights, the new ones, and how the two meet.
<1>9. ASSUME NEW f \in flights
      PROVE  /\ f.changes # <<>> /\ NoDuplicates(f.changes) /\ HasLeft(f.changes)
             /\ Elements(f.changes) \subseteq 1..announced' /\ Apart(f.changes, changes)
             /\ NoDuplicates(f.rest) /\ Hooks \notin Elements(f.rest)
  BY <1>7 DEF Registered, Separate, FlightsApart
<1>10. ASSUME NEW b \in batches
       PROVE  /\ New(b).changes = b /\ New(b).rest = Tail(changeListeners) /\ New(b).live = TRUE
              /\ b # <<>> /\ NoDuplicates(b) /\ Elements(b) \subseteq 1..announced'
              /\ Elements(b) \subseteq Elements(changes)
  BY <1>8
<1>. HIDE DEF New, hd
<1>11. \A f \in flights' : f \in flights \/ \E b \in batches : f = New(b)
  BY <1>2
<1>12. Registered'
  <2>1. NoDuplicates(changeListeners')
    BY DEF Registered
  <2>2. ASSUME NEW f \in flights' PROVE NoDuplicates(f.rest) /\ Hooks \notin Elements(f.rest)
    <3>1. CASE f \in flights
      BY <1>9, <3>1
    <3>2. CASE f \notin flights
      <4>1. PICK b \in batches : f = New(b)
        BY <1>11, <3>2
      <4>. QED  BY <1>t, <1>3, <1>10, <4>1
    <3>. QED  BY <3>1, <3>2
  <2>. QED  BY <2>1, <2>2 DEF Registered
<1>13. FlightsApart'
  <2>1. ASSUME NEW f \in flights'
        PROVE  f.changes # <<>> /\ NoDuplicates(f.changes) /\ Elements(f.changes) \subseteq 1..announced'
    BY <1>9, <1>10, <1>11
  <2>2. ASSUME NEW f \in flights', NEW g \in flights', f # g PROVE Apart(f.changes, g.changes)
    <3>1. CASE f \in flights /\ g \in flights
      BY <2>2, <3>1 DEF Separate, FlightsApart
    <3>2. CASE f \in flights /\ g \notin flights
      <4>1. PICK b \in batches : g = New(b)
        BY <1>11, <3>2
      <4>. QED  BY <1>9, <1>10, <3>2, <4>1 DEF Apart
    <3>3. CASE f \notin flights /\ g \in flights
      <4>1. PICK b \in batches : f = New(b)
        BY <1>11, <3>3
      <4>. QED  BY <1>9, <1>10, <3>3, <4>1 DEF Apart
    <3>4. CASE f \notin flights /\ g \notin flights
      <4>1. PICK b \in batches : f = New(b)
        BY <1>11, <3>4
      <4>2. PICK c \in batches : g = New(c)
        BY <1>11, <3>4
      <4>3. b # c
        BY <2>2, <4>1, <4>2
      <4>. QED  BY <1>10, <4>1, <4>2, <4>3
    <3>. QED  BY <3>1, <3>2, <3>3, <3>4
  <2>. QED  BY <1>e, <2>1, <2>2 DEF FlightsApart, HasLeft, Apart
<1>14. ToldApart'
  <2>1. ASSUME NEW l \in Listeners PROVE Elements(heard'[l]) \subseteq 1..announced'
    <3>1. HasLeft(heard[l])
      BY DEF Separate, ToldApart
    <3>. QED  BY <1>6, <1>7, <1>8, <3>1
  <2>2. ASSUME NEW w \in Windows
        PROVE  /\ Elements(received'[w]) \subseteq 1..announced'
               /\ Apart(received'[w], changes) /\ received'[w] = received[w]
    <3>1. HasLeft(received[w])
      BY DEF Separate, ToldApart
    <3>. QED  BY <1>7, <3>1
  <2>3. ASSUME NEW f \in flights', NEW w \in Windows PROVE Apart(received'[w], f.changes)
    <3>1. CASE f \in flights
      BY <2>2, <3>1 DEF Separate, ToldApart
    <3>2. CASE f \notin flights
      <4>1. PICK b \in batches : f = New(b)
        BY <1>11, <3>2
      <4>. QED  BY <1>10, <2>2, <4>1 DEF Apart
    <3>. QED  BY <3>1, <3>2
  <2>4. ASSUME NEW l \in Listeners PROVE Apart(heard[l], changes)
    BY <1>7 DEF Separate, ToldApart
  <2>5. ASSUME NEW f \in flights, NEW l \in Listeners, Apart(heard[l], f.changes)
        PROVE  Apart(heard'[l], f.changes)
    BY <1>6, <1>9, <2>5 DEF Apart
  <2>6. ASSUME NEW b \in batches, NEW l \in Listeners, l # hd PROVE Apart(heard'[l], b)
    BY <1>6, <1>10, <2>4, <2>6 DEF Apart
  <2>r. ASSUME NEW f \in flights PROVE Elements(f.rest) \subseteq Listeners
    <3>1. f.rest \in Seq(Listeners)
      BY <1>t DEF Flight
    <3>. QED  BY <3>1, ElementsFacts
  <2>7. ASSUME NEW f \in flights', NEW l \in Elements(f.rest) PROVE Apart(heard'[l], f.changes)
    <3>1. CASE f \in flights
      <4>1. l \in Listeners /\ Apart(heard[l], f.changes)
        BY <2>7, <2>r, <3>1 DEF Separate, ToldApart
      <4>. QED  BY <2>5, <3>1, <4>1
    <3>2. CASE f \notin flights
      <4>1. PICK b \in batches : f = New(b)
        BY <1>11, <3>2
      <4>2. l \in Elements(Tail(changeListeners)) /\ f.changes = b
        BY <1>10, <2>7, <4>1
      <4>3. l \in Listeners /\ l # hd
        BY <1>h, <1>3, <4>2, ElementsFacts
      <4>. QED  BY <2>6, <4>2, <4>3
    <3>. QED  BY <3>1, <3>2
  <2>8. ASSUME NEW f \in flights', f.live, NEW l \in Listeners \ Elements(changeListeners)
        PROVE  l \notin Elements(f.rest) /\ Apart(heard'[l], f.changes)
    <3>1. CASE f \in flights
      <4>1. l \notin Elements(f.rest) /\ Apart(heard[l], f.changes)
        BY <2>8, <3>1 DEF Separate, ToldApart
      <4>. QED  BY <2>5, <3>1, <4>1
    <3>2. CASE f \notin flights
      <4>1. PICK b \in batches : f = New(b)
        BY <1>11, <3>2
      <4>2. l # hd /\ l \notin Elements(Tail(changeListeners))
        BY <1>3
      <4>3. f.rest = Tail(changeListeners) /\ f.changes = b
        BY <1>10, <4>1
      <4>. QED  BY <2>6, <4>2, <4>3
    <3>. QED  BY <3>1, <3>2
  <2>. QED  BY <1>e, <2>1, <2>2, <2>3, <2>7, <2>8 DEF ToldApart, HasLeft, Apart
<1>15. ToldOnce'
  <2>1. ASSUME NEW l \in Listeners PROVE NoDuplicates(heard'[l])
    <3>1. NoDuplicates(heard[l]) /\ Apart(heard[l], changes)
      BY <1>7 DEF Separate, ToldApart, ToldOnce
    <3>2. CASE l = hd
      <4>1. heard[hd] \in Seq(Nat)
        BY <1>t, <1>h
      <4>. QED  BY <1>4, <3>1, <3>2, <4>1, ConcatWithoutDuplicates DEF Apart
    <3>. QED  BY <1>4, <3>1, <3>2
  <2>. QED  BY <2>1 DEF Separate, ToldOnce
<1>. QED  BY <1>12, <1>13, <1>14, <1>15 DEF Separate

\* It also keeps the order the hooks hear of them in.
LEMMA DispatchOrdered ==
  ASSUME Inv, Ordered, Registered', announced' \in Nat, announced <= announced',
         changeBuffer' = <<>>, UNCHANGED <<changeListeners, dropped>>,
         NEW changes \in Seq(Nat), NEW batches \in SUBSET Seq(Nat), Dispatch(batches, changes),
         Ascending(changes),
         Elements(changes) = Elements(changeBuffer) \cup (announced + 1..announced')
  PROVE  Ordered'
<1>t. /\ Head(changeListeners) = Hooks /\ announced \in Nat /\ Hooks \in Listeners
      /\ heard \in [Listeners -> Seq(Nat)] /\ changeBuffer \in Seq(Nat)
  BY ListenersAssumption DEF Inv, TypeOK, HooksFirst
<1>1. heard'[Hooks] = heard[Hooks] \o changes
  BY <1>t DEF Dispatch
<1>2. heard[Hooks] \in Seq(Nat)
  BY <1>t
<1>3. Elements(heard'[Hooks]) = Elements(heard[Hooks]) \cup Elements(changes)
  BY <1>1, <1>2, ElementsOfConcat
<1>4. /\ Elements(heard[Hooks]) = (1..announced) \ (dropped \cup Elements(changeBuffer))
      /\ Ascending(heard[Hooks])
  BY DEF Ordered, HooksHearAllInOrder
<1>5. /\ Elements(changeBuffer) \subseteq (1..announced) \ dropped /\ dropped \subseteq 1..announced
      /\ \A x \in Elements(heard[Hooks]), y \in Elements(changeBuffer) : x < y
  BY DEF Ordered, BufferInOrder
<1>6. \A x \in Elements(heard[Hooks]), y \in Elements(changes) : x < y
  BY <1>t, <1>4, <1>5
<1>7. Ascending(heard'[Hooks])
  BY <1>1, <1>2, <1>4, <1>6, ConcatAscending
<1>8. Elements(changeBuffer') = {} /\ Ascending(changeBuffer')
  BY ElementsFacts, EmptySeq DEF Ascending
<1>9. dropped' \subseteq 1..announced' /\ 1..announced' = (1..announced) \cup (announced + 1..announced')
  BY <1>t, <1>5
<1>10. Elements(heard'[Hooks]) = (1..announced') \ dropped'
  BY <1>t, <1>3, <1>4, <1>5, <1>9
<1>11. HooksHearAllInOrder'
  BY <1>7, <1>8, <1>10 DEF HooksHearAllInOrder
<1>12. BufferInOrder'
  BY <1>8, <1>9 DEF BufferInOrder
<1>. QED  BY <1>11, <1>12 DEF Ordered

LEMMA SameFeed ==
  ASSUME Ordered, Separate,
         UNCHANGED <<changeBuffer, changeListeners, flights, announced, dropped, heard, received>>
  PROVE  Ordered' /\ Separate'
<1>1. Ordered'
  BY DEF Ordered, Registered, BufferInOrder, HooksHearAllInOrder
<1>2. FlightsApart' /\ ToldOnce'
  BY DEF Separate, FlightsApart, HasLeft, ToldOnce
<1>3. ToldApart'
  BY DEF Separate, ToldApart, HasLeft
<1>. QED  BY <1>1, <1>2, <1>3 DEF Separate

LEMMA FlushFeed ==
  ASSUME Inv, Ordered, Separate, NEW id \in Nat, NEW fake \in BOOLEAN, FlushChanges(id, fake)
  PROVE  Ordered' /\ Separate'
<1>. DEFINE left == IF id = 0 THEN {} ELSE openBuffers \ {id}
            drains == left = {} /\ changeBuffer # <<>>
<1>1. /\ UNCHANGED <<changeListeners, announced, received>>
      /\ changeBuffer' = IF drains THEN <<>> ELSE changeBuffer
      /\ dropped' = IF drains /\ fake THEN dropped \cup Elements(changeBuffer) ELSE dropped
      /\ IF drains /\ ~fake THEN Dispatch({changeBuffer}, changeBuffer)
                            ELSE UNCHANGED <<heard, flights>>
  BY DEF FlushChanges
<1>. HIDE DEF left, drains
<1>t. announced \in Nat /\ changeBuffer \in Seq(Nat)
  BY DEF Inv, TypeOK
<1>2. CASE ~drains
  BY <1>1, <1>2, SameFeed
<1>3. CASE drains /\ ~fake
  <2>1. Dispatch({changeBuffer}, changeBuffer) /\ changeBuffer' = <<>> /\ UNCHANGED dropped
    BY <1>1, <1>3
  <2>2. Ascending(changeBuffer) /\ changeBuffer # <<>>
    BY <1>3 DEF Ordered, BufferInOrder, drains
  <2>3. NoDuplicates(changeBuffer)
    BY <1>t, <2>2, AscendingHasNoDuplicates
  <2>4. announced + 1..announced' = {} /\ announced <= announced' /\ announced' \in Nat
    BY <1>1, <1>t
  <2>5. Registered' /\ Separate'
    <3>1. {changeBuffer} \in SUBSET Seq(Nat)
      BY <1>t
    <3>2. \A b \in {changeBuffer} : b # <<>> /\ NoDuplicates(b)
                                   /\ Elements(b) \subseteq Elements(changeBuffer)
      BY <2>2, <2>3
    <3>3. \A b, c \in {changeBuffer} : b # c => Apart(b, c)
      OBVIOUS
    <3>4. Registered /\ BufferInOrder
      BY DEF Ordered
    <3>. QED  BY <1>1, <1>t, <2>1, <2>3, <2>4, <3>1, <3>2, <3>3, <3>4, DispatchSeparate
  <2>6. Ordered'
    <3>1. {changeBuffer} \in SUBSET Seq(Nat)
      BY <1>t
    <3>. QED  BY <1>1, <1>t, <2>1, <2>2, <2>4, <2>5, <3>1, DispatchOrdered
  <2>. QED  BY <2>5, <2>6
<1>4. CASE drains /\ fake
  <2>1. /\ UNCHANGED <<changeListeners, announced, received, heard, flights>> /\ changeBuffer' = <<>>
        /\ dropped' = dropped \cup Elements(changeBuffer)
    BY <1>1, <1>4
  <2>2. Elements(changeBuffer') = {} /\ Ascending(changeBuffer')
    BY <2>1, ElementsFacts, EmptySeq DEF Ascending
  <2>3. BufferInOrder'
    BY <2>1, <2>2 DEF Ordered, BufferInOrder
  <2>4. HooksHearAllInOrder'
    BY <2>1, <2>2 DEF Ordered, HooksHearAllInOrder
  <2>5. Registered'
    BY <2>1 DEF Ordered, Registered
  <2>6. FlightsApart' /\ ToldOnce'
    BY <2>1, <2>2 DEF Separate, FlightsApart, HasLeft, ToldOnce
  <2>7. ToldApart'
    BY <2>1, <2>2 DEF Separate, ToldApart, HasLeft
  <2>. QED  BY <2>3, <2>4, <2>5, <2>6, <2>7 DEF Ordered, Separate
<1>. QED  BY <1>2, <1>3, <1>4

\* The numbers given to k new changes.
LEMMA NewChanges ==
  ASSUME NEW n \in Nat, NEW k \in 1..2, NEW new, new = [i \in 1..k |-> n + i]
  PROVE  /\ new \in Seq(Nat) /\ Len(new) = k /\ Ascending(new)
         /\ Elements(new) = n + 1..n + k
<1>1. new \in Seq(Nat) /\ Len(new) = k
  OBVIOUS
<1>2. \A i \in 1..k : new[i] = n + i
  OBVIOUS
<1>3. Ascending(new)
  BY <1>1, <1>2 DEF Ascending
<1>4. ASSUME NEW x \in n + 1..n + k PROVE x \in Elements(new)
  <2>1. x - n \in 1..k /\ new[x - n] = x
    BY <1>2
  <2>. QED  BY <1>1, <2>1 DEF Elements
<1>5. ASSUME NEW x \in Elements(new) PROVE x \in n + 1..n + k
  <2>1. PICK i \in 1..k : new[i] = x
    BY <1>1 DEF Elements
  <2>. QED  BY <1>2, <2>1
<1>. QED  BY <1>1, <1>3, <1>4, <1>5

LEMMA AnnounceFeed ==
  ASSUME Inv, Ordered, Separate, NEW k \in 1..2, Announce(k)
  PROVE  Ordered' /\ Separate'
<1>. DEFINE new == [i \in 1..k |-> announced + i]
            all == changeBuffer \o new
            batches == {changeBuffer \o <<new[1]>>} \cup {<<new[i]>> : i \in 2..k}
<1>t. announced \in Nat /\ changeBuffer \in Seq(Nat)
  BY DEF Inv, TypeOK
<1>1. /\ announced' = announced + k /\ UNCHANGED <<changeListeners, dropped, received>>
      /\ IF openBuffers = {} THEN Dispatch(batches, all) /\ changeBuffer' = <<>>
                             ELSE changeBuffer' = all /\ UNCHANGED <<heard, flights>>
  BY DEF Announce, NotifyOfChange
<1>2. /\ new \in Seq(Nat) /\ Len(new) = k /\ Ascending(new)
      /\ Elements(new) = announced + 1..announced + k
  BY <1>t, NewChanges
<1>3. new[1] = announced + 1 /\ (\A i \in 2..k : new[i] = announced + i)
  OBVIOUS
<1>. HIDE DEF new
<1>4. Elements(changeBuffer) \subseteq 1..announced /\ Ascending(changeBuffer)
      /\ NoDuplicates(changeBuffer)
  BY <1>t, AscendingHasNoDuplicates DEF Ordered, BufferInOrder
<1>5. /\ all \in Seq(Nat) /\ Elements(all) = Elements(changeBuffer) \cup (announced + 1..announced')
  BY <1>t, <1>1, <1>2, ConcatProperties, ElementsOfConcat
<1>6. Ascending(all)
  BY <1>t, <1>2, <1>4, ConcatAscending
<1>7. NoDuplicates(all)
  BY <1>5, <1>6, AscendingHasNoDuplicates
<1>8. announced' \in Nat /\ announced <= announced' /\ Registered /\ BufferInOrder
  BY <1>t, <1>1 DEF Ordered
<1>9. CASE openBuffers = {}
  <2>. DEFINE first == changeBuffer \o <<new[1]>>
  <2>a. \A n \in Nat : <<n>> \in Seq(Nat) /\ NoDuplicates(<<n>>) /\ Elements(<<n>>) = {n} /\ <<n>> # <<>>
    BY DEF NoDuplicates, Elements
  <2>1. Dispatch(batches, all) /\ changeBuffer' = <<>>
    BY <1>1, <1>9
  <2>2. /\ first \in Seq(Nat) /\ NoDuplicates(first)
        /\ Elements(first) = Elements(changeBuffer) \cup {announced + 1} /\ first # <<>>
    <3>1. /\ <<new[1]>> \in Seq(Nat) /\ NoDuplicates(<<new[1]>>)
          /\ Elements(<<new[1]>>) = {announced + 1}
      BY <1>t, <1>3, <2>a
    <3>2. Elements(changeBuffer) \cap Elements(<<new[1]>>) = {}
      BY <1>t, <1>4, <3>1
    <3>3. first \in Seq(Nat) /\ NoDuplicates(first)
      BY <1>t, <1>4, <3>1, <3>2, ConcatProperties, ConcatWithoutDuplicates
    <3>4. Elements(first) = Elements(changeBuffer) \cup {announced + 1}
      <4>0. \A s, t \in Seq(Nat) : Elements(s \o t) = Elements(s) \cup Elements(t)
        BY ElementsOfConcat
      <4>1. Elements(first) = Elements(changeBuffer) \cup Elements(<<new[1]>>)
        BY <1>t, <3>1, <4>0
      <4>. QED  BY <3>1, <4>1
    <3>5. first # <<>>
      BY <3>4, ElementsFacts, EmptySeq
    <3>. QED  BY <3>3, <3>4, <3>5
  <2>. HIDE DEF first
  <2>3. \A b \in batches : b = first \/ \E i \in 2..k : b = <<announced + i>>
    BY <1>3 DEF first
  <2>4. \A i \in 2..k : /\ <<announced + i>> \in Seq(Nat) /\ <<announced + i>> # <<>>
                       /\ NoDuplicates(<<announced + i>>)
                       /\ Elements(<<announced + i>>) = {announced + i}
    BY <1>t, <2>a
  <2>5. batches \in SUBSET Seq(Nat)
    <3>1. \A b \in batches : b \in Seq(Nat)
      BY <2>2, <2>3, <2>4
    <3>. QED  BY <3>1
  <2>. HIDE DEF batches, all
  <2>6. \A b \in batches : b # <<>> /\ NoDuplicates(b) /\ Elements(b) \subseteq Elements(all)
    <3>. SUFFICES ASSUME NEW b \in batches
                  PROVE  b # <<>> /\ NoDuplicates(b) /\ Elements(b) \subseteq Elements(all)
      OBVIOUS
    <3>1. CASE b = first
      BY <1>t, <1>1, <1>5, <2>2, <3>1
    <3>2. CASE \E i \in 2..k : b = <<announced + i>>
      BY <1>t, <1>1, <1>5, <2>4, <3>2
    <3>. QED  BY <2>3, <3>1, <3>2
  <2>7. \A b, c \in batches : b # c => Apart(b, c)
    <3>. SUFFICES ASSUME NEW b \in batches, NEW c \in batches, b # c PROVE Apart(b, c)
      OBVIOUS
    <3>1. \A i \in 2..k : Apart(first, <<announced + i>>) /\ Apart(<<announced + i>>, first)
      <4>. SUFFICES ASSUME NEW i \in 2..k PROVE Elements(first) \cap Elements(<<announced + i>>) = {}
        BY DEF Apart
      <4>1. announced + i \notin 1..announced /\ announced + i # announced + 1
        BY <1>t
      <4>. QED  BY <1>4, <2>2, <2>4, <4>1
    <3>2. \A i, j \in 2..k : i = j
      OBVIOUS
    <3>. QED  BY <2>3, <3>1, <3>2
  <2>8. Registered' /\ Separate'
    BY <1>1, <1>5, <1>7, <1>8, <2>1, <2>5, <2>6, <2>7, DispatchSeparate
  <2>9. Ordered'
    BY <1>1, <1>5, <1>6, <1>8, <2>1, <2>5, <2>8, DispatchOrdered
  <2>. QED  BY <2>8, <2>9
<1>10. CASE openBuffers # {}
  <2>1. changeBuffer' = all /\ UNCHANGED <<heard, flights, changeListeners, dropped, received>>
    BY <1>1, <1>10
  <2>. HIDE DEF all
  <2>2. \A s : HasLeft(s) => Elements(s) \subseteq (1..announced') \ Elements(changeBuffer')
    BY <1>t, <1>1, <1>5, <2>1 DEF HasLeft
  <2>3. FlightsApart' /\ ToldOnce'
    BY <2>1, <2>2 DEF Separate, FlightsApart, HasLeft, ToldOnce
  <2>4. ToldApart'
    BY <2>1, <2>2 DEF Separate, ToldApart, HasLeft
  <2>5. Registered'
    BY <2>1 DEF Ordered, Registered
  <2>6. /\ Elements(heard[Hooks]) = (1..announced) \ (dropped \cup Elements(changeBuffer))
        /\ Ascending(heard[Hooks])
    BY DEF Ordered, HooksHearAllInOrder
  <2>7. /\ Elements(changeBuffer) \subseteq (1..announced) \ dropped /\ dropped \subseteq 1..announced
        /\ \A x \in Elements(heard[Hooks]), y \in Elements(changeBuffer) : x < y
    BY DEF Ordered, BufferInOrder
  <2>8. Elements(heard[Hooks]) = (1..announced') \ (dropped \cup Elements(changeBuffer'))
    BY <1>t, <1>1, <1>5, <2>1, <2>6, <2>7
  <2>9. /\ Elements(changeBuffer') \subseteq (1..announced') \ dropped /\ dropped \subseteq 1..announced'
        /\ \A x \in Elements(heard[Hooks]), y \in Elements(changeBuffer') : x < y
    BY <1>t, <1>1, <1>5, <2>1, <2>6, <2>7
  <2>10. BufferInOrder' /\ HooksHearAllInOrder'
    BY <1>6, <2>1, <2>6, <2>8, <2>9 DEF BufferInOrder, HooksHearAllInOrder
  <2>. QED  BY <2>3, <2>4, <2>5, <2>10 DEF Ordered, Separate
<1>. QED  BY <1>9, <1>10

LEMMA ListenerFeed ==
  ASSUME Inv, Ordered, Separate, NEW f \in flights, ListenerDone(f) \/ ListenerFails(f)
  PROVE  Ordered' /\ Separate'
<1>t. /\ f \in Flight /\ f.changes \in Seq(Nat) /\ f.rest \in Seq(Listeners)
      /\ heard \in [Listeners -> Seq(Nat)] /\ received \in [Windows -> Seq(Nat)]
      /\ Hooks \in Listeners /\ flights \subseteq Flight
  BY ListenersAssumption DEF Inv, TypeOK, Flight
<1>1. UNCHANGED <<changeBuffer, changeListeners, announced, dropped>>
  BY DEF ListenerDone, ListenerFails
<1>2. /\ NoDuplicates(f.changes) /\ HasLeft(f.changes)
      /\ \A g \in flights : f # g => Apart(f.changes, g.changes)
  BY DEF Separate, FlightsApart
<1>f. ASSUME flights' = flights \ {f}, UNCHANGED heard PROVE Ordered' /\ FlightsApart'
  <2>1. Registered' /\ FlightsApart'
    BY <1>1, <1>f DEF Ordered, Registered, Separate, FlightsApart, HasLeft
  <2>2. BufferInOrder' /\ HooksHearAllInOrder'
    BY <1>1, <1>f DEF Ordered, BufferInOrder, HooksHearAllInOrder
  <2>. QED  BY <2>1, <2>2 DEF Ordered
<1>3. CASE ListenerFails(f)
  <2>1. flights' = flights \ {f} /\ UNCHANGED <<heard, received>>
    BY <1>3 DEF ListenerFails
  <2>2. ToldApart' /\ ToldOnce'
    BY <1>1, <2>1 DEF Separate, ToldApart, ToldOnce, HasLeft
  <2>. QED  BY <1>f, <2>1, <2>2 DEF Separate
<1>4. CASE ListenerDone(f) /\ f.rest = <<>>
  <2>1. /\ flights' = flights \ {f} /\ UNCHANGED heard
        /\ received' = [w \in Windows |-> received[w] \o f.changes]
    BY <1>4 DEF ListenerDone
  <2>2. ASSUME NEW w \in Windows
        PROVE  /\ Elements(received'[w]) = Elements(received[w]) \cup Elements(f.changes)
               /\ NoDuplicates(received'[w])
    <3>1. received'[w] = received[w] \o f.changes /\ received[w] \in Seq(Nat)
      BY <1>t, <2>1
    <3>2. NoDuplicates(received[w]) /\ Elements(received[w]) \cap Elements(f.changes) = {}
      BY DEF Separate, ToldOnce, ToldApart, Apart
    <3>. QED  BY <1>t, <1>2, <3>1, <3>2, ElementsOfConcat, ConcatWithoutDuplicates
  <2>3. ToldOnce'
    BY <2>1, <2>2 DEF Separate, ToldOnce
  <2>4. ASSUME NEW w \in Windows
        PROVE  /\ Elements(received'[w]) \subseteq (1..announced) \ Elements(changeBuffer)
               /\ \A g \in flights' : Apart(received'[w], g.changes)
    <3>1. Elements(received'[w]) \subseteq (1..announced) \ Elements(changeBuffer)
      BY <1>2, <2>2 DEF Separate, ToldApart, HasLeft
    <3>2. ASSUME NEW g \in flights' PROVE Apart(received'[w], g.changes)
      <4>1. Apart(received[w], g.changes) /\ Apart(f.changes, g.changes)
        BY <1>2, <2>1 DEF Separate, ToldApart
      <4>. QED  BY <2>2, <4>1 DEF Apart
    <3>. QED  BY <3>1, <3>2
  <2>5. ToldApart'
    <3>1. ASSUME NEW l \in Listeners PROVE Elements(heard'[l]) \subseteq (1..announced) \ Elements(changeBuffer)
      BY <2>1 DEF Separate, ToldApart, HasLeft
    <3>2. ASSUME NEW g \in flights', NEW l \in Elements(g.rest) PROVE Apart(heard'[l], g.changes)
      BY <2>1, <3>2 DEF Separate, ToldApart
    <3>3. ASSUME NEW g \in flights', g.live, NEW l \in Listeners \ Elements(changeListeners)
          PROVE  l \notin Elements(g.rest) /\ Apart(heard'[l], g.changes)
      BY <2>1, <3>3 DEF Separate, ToldApart
    <3>. QED  BY <1>1, <2>4, <3>1, <3>2, <3>3 DEF ToldApart, HasLeft, Apart
  <2>. QED  BY <1>f, <2>1, <2>3, <2>5 DEF Separate
<1>5. CASE ListenerDone(f) /\ f.rest # <<>>
  <2>. DEFINE l0 == Head(f.rest)
              f1 == [f EXCEPT !.at = Head(f.rest), !.rest = Tail(f.rest)]
  <2>1. /\ flights' = (flights \ {f}) \cup {f1} /\ UNCHANGED received
        /\ heard' = [heard EXCEPT ![l0] = heard[l0] \o f.changes]
    BY <1>5 DEF ListenerDone
  <2>2. f1.changes = f.changes /\ f1.rest = Tail(f.rest) /\ f1.live = f.live
    BY <1>t DEF Flight
  <2>3. /\ Elements(f.rest) = {l0} \cup Elements(Tail(f.rest)) /\ l0 \notin Elements(Tail(f.rest))
        /\ NoDuplicates(Tail(f.rest)) /\ Hooks \notin Elements(f.rest) /\ l0 \in Listeners
    <3>1. NoDuplicates(f.rest) /\ Hooks \notin Elements(f.rest)
      BY DEF Ordered, Registered
    <3>. QED  BY <1>t, <1>5, <3>1, ElementsOfTail, TailWithoutDuplicates, HeadTailProperties
  <2>. HIDE DEF f1, l0
  <2>4. \A l \in Listeners : heard'[l] = IF l = l0 THEN heard[l0] \o f.changes ELSE heard[l]
    BY <1>t, <2>1, <2>3
  <2>5. Apart(heard[l0], f.changes) /\ heard[l0] \in Seq(Nat)
    BY <1>t, <2>3 DEF Separate, ToldApart
  <2>6. /\ Elements(heard'[l0]) = Elements(heard[l0]) \cup Elements(f.changes)
        /\ NoDuplicates(heard'[l0])
    <3>1. NoDuplicates(heard[l0]) /\ Elements(heard[l0]) \cap Elements(f.changes) = {}
      BY <2>3, <2>5 DEF Separate, ToldOnce, Apart
    <3>2. heard'[l0] = heard[l0] \o f.changes
      BY <2>3, <2>4
    <3>. QED  BY <1>t, <1>2, <2>5, <3>1, <3>2, ElementsOfConcat, ConcatWithoutDuplicates
  <2>7. \A g \in flights' : g = f1 \/ (g \in flights /\ g # f)
    BY <2>1
  <2>8. Registered'
    <3>1. ASSUME NEW g \in flights' PROVE NoDuplicates(g.rest) /\ Hooks \notin Elements(g.rest)
      BY <2>2, <2>3, <2>7 DEF Ordered, Registered
    <3>. QED  BY <1>1, <3>1 DEF Ordered, Registered
  <2>9. BufferInOrder' /\ HooksHearAllInOrder'
    <3>1. heard'[Hooks] = heard[Hooks]
      BY <1>t, <2>3, <2>4
    <3>. QED  BY <1>1, <3>1 DEF Ordered, BufferInOrder, HooksHearAllInOrder
  <2>10. FlightsApart'
    <3>1. ASSUME NEW g \in flights'
          PROVE  g.changes # <<>> /\ NoDuplicates(g.changes)
                 /\ Elements(g.changes) \subseteq (1..announced) \ Elements(changeBuffer)
      BY <2>2, <2>7 DEF Separate, FlightsApart, HasLeft
    <3>2. ASSUME NEW g \in flights', NEW h \in flights', g # h PROVE Apart(g.changes, h.changes)
      <4>1. CASE g = f1
        BY <1>2, <2>2, <2>7, <3>2, <4>1
      <4>2. CASE h = f1
        BY <1>2, <2>2, <2>7, <3>2, <4>2 DEF Apart
      <4>3. CASE g # f1 /\ h # f1
        BY <2>7, <3>2, <4>3 DEF Separate, FlightsApart
      <4>. QED  BY <4>1, <4>2, <4>3
    <3>. QED  BY <1>1, <3>1, <3>2 DEF FlightsApart, HasLeft, Apart
  <2>11. ToldOnce'
    <3>1. ASSUME NEW l \in Listeners PROVE NoDuplicates(heard'[l])
      <4>1. NoDuplicates(heard[l])
        BY DEF Separate, ToldOnce
      <4>. QED  BY <2>4, <2>6, <4>1
    <3>. QED  BY <2>1, <3>1 DEF Separate, ToldOnce
  <2>12. ToldApart'
    <3>1. ASSUME NEW l \in Listeners PROVE Elements(heard'[l]) \subseteq (1..announced) \ Elements(changeBuffer)
      <4>1. HasLeft(heard[l])
        BY DEF Separate, ToldApart
      <4>. QED  BY <1>2, <2>4, <2>6, <4>1 DEF HasLeft
    <3>2. ASSUME NEW w \in Windows
          PROVE  /\ Elements(received'[w]) \subseteq (1..announced) \ Elements(changeBuffer)
                 /\ \A g \in flights' : Apart(received'[w], g.changes)
      BY <2>1, <2>2, <2>7 DEF Separate, ToldApart, HasLeft
    <3>3. ASSUME NEW g \in flights, g # f, NEW l \in Listeners, Apart(heard[l], g.changes)
          PROVE  Apart(heard'[l], g.changes)
      <4>1. Apart(f.changes, g.changes)
        BY <1>2, <3>3
      <4>. QED  BY <2>4, <2>6, <3>3, <4>1 DEF Apart
    <3>4. ASSUME NEW l \in Listeners, l # l0 PROVE heard'[l] = heard[l]
      BY <2>4, <3>4
    <3>5. ASSUME NEW g \in flights', NEW l \in Elements(g.rest) PROVE Apart(heard'[l], g.changes)
      <4>1. CASE g = f1
        <5>1. l \in Elements(f.rest) /\ l # l0 /\ l \in Listeners
          BY <1>t, <2>2, <2>3, <3>5, <4>1, ElementsFacts
        <5>2. Apart(heard[l], f.changes)
          BY <5>1 DEF Separate, ToldApart
        <5>. QED  BY <2>2, <3>4, <4>1, <5>1, <5>2
      <4>2. CASE g # f1
        <5>1. g \in flights /\ g # f
          BY <2>7, <4>2
        <5>2. g.rest \in Seq(Listeners) /\ Apart(heard[l], g.changes)
          BY <1>t, <3>5, <5>1 DEF Flight, Separate, ToldApart
        <5>3. l \in Listeners
          BY <3>5, <5>2, ElementsFacts
        <5>. QED  BY <3>3, <5>1, <5>2, <5>3
      <4>. QED  BY <4>1, <4>2
    <3>6. ASSUME NEW g \in flights', g.live, NEW l \in Listeners \ Elements(changeListeners)
          PROVE  l \notin Elements(g.rest) /\ Apart(heard'[l], g.changes)
      <4>1. CASE g = f1
        <5>1. l \notin Elements(f.rest) /\ Apart(heard[l], f.changes)
          BY <2>2, <3>6, <4>1 DEF Separate, ToldApart
        <5>2. l # l0 /\ l \notin Elements(Tail(f.rest))
          BY <2>3, <5>1
        <5>. QED  BY <2>2, <3>4, <4>1, <5>1, <5>2
      <4>2. CASE g # f1
        <5>1. g \in flights /\ g # f
          BY <2>7, <4>2
        <5>2. l \notin Elements(g.rest) /\ Apart(heard[l], g.changes)
          BY <3>6, <5>1 DEF Separate, ToldApart
        <5>. QED  BY <3>3, <5>1, <5>2
      <4>. QED  BY <4>1, <4>2
    <3>. QED  BY <1>1, <3>1, <3>2, <3>5, <3>6 DEF ToldApart, HasLeft, Apart
  <2>. QED  BY <2>8, <2>9, <2>10, <2>11, <2>12 DEF Ordered, Separate
<1>. QED  BY <1>3, <1>4, <1>5

LEMMA OnChangeFeed ==
  ASSUME Inv, Ordered, Separate, NEW l \in Listeners, OnChange(l)
  PROVE  Ordered' /\ Separate'
<1>. DEFINE new(f) == IF f.live THEN [f EXCEPT !.rest = Append(f.rest, l)] ELSE f
<1>t. flights \subseteq Flight /\ changeListeners \in Seq(Listeners) /\ changeListeners # <<>>
      /\ changeListeners[1] = Hooks /\ Len(changeListeners) \in Nat \ {0}
  BY EmptySeq DEF Inv, TypeOK, HooksFirst
<1>1. /\ l \notin Elements(changeListeners) /\ changeListeners' = Append(changeListeners, l)
      /\ flights' = {new(f) : f \in flights}
      /\ UNCHANGED <<changeBuffer, announced, dropped, failed, heard, received>>
  BY DEF OnChange, history
<1>2. ASSUME NEW f \in flights
      PROVE  /\ new(f).changes = f.changes /\ new(f).live = f.live /\ f.rest \in Seq(Listeners)
             /\ new(f).rest = IF f.live THEN Append(f.rest, l) ELSE f.rest
  BY <1>t DEF Flight
<1>. HIDE DEF new
<1>3. l # Hooks
  <2>1. 1 \in 1..Len(changeListeners)
    BY <1>t
  <2>. QED  BY <1>t, <1>1, <2>1 DEF Elements
<1>4. /\ Elements(changeListeners') = Elements(changeListeners) \cup {l}
      /\ NoDuplicates(changeListeners')
  BY <1>t, <1>1, ElementsOfAppend, AppendWithoutDuplicates DEF Ordered, Registered
\* A flight that takes l on neither called it nor was to call it.
<1>5. ASSUME NEW f \in flights
      PROVE  /\ NoDuplicates(new(f).rest)
             /\ Elements(new(f).rest) \subseteq Elements(f.rest) \cup {l}
             /\ l \in Elements(new(f).rest) => Apart(heard[l], f.changes)
  <2>1. NoDuplicates(f.rest) /\ (l \in Elements(f.rest) => Apart(heard[l], f.changes))
    BY DEF Ordered, Registered, Separate, ToldApart
  <2>2. CASE f.live
    <3>1. l \notin Elements(f.rest) /\ Apart(heard[l], f.changes)
      BY <1>1, <2>2 DEF Separate, ToldApart
    <3>. QED  BY <1>2, <2>1, <2>2, <3>1, ElementsOfAppend, AppendWithoutDuplicates
  <2>3. CASE ~f.live
    BY <1>2, <2>1, <2>3
  <2>. QED  BY <2>2, <2>3
<1>6. Ordered'
  <2>1. ASSUME NEW g \in flights' PROVE NoDuplicates(g.rest) /\ Hooks \notin Elements(g.rest)
    <3>1. PICK f \in flights : g = new(f)
      BY <1>1
    <3>2. Hooks \notin Elements(f.rest)
      BY DEF Ordered, Registered
    <3>. QED  BY <1>3, <1>5, <3>1, <3>2
  <2>2. Registered'
    BY <1>4, <2>1 DEF Registered
  <2>3. BufferInOrder' /\ HooksHearAllInOrder'
    BY <1>1 DEF Ordered, BufferInOrder, HooksHearAllInOrder
  <2>. QED  BY <2>2, <2>3 DEF Ordered
<1>7. FlightsApart'
  <2>1. ASSUME NEW g \in flights'
        PROVE  g.changes # <<>> /\ NoDuplicates(g.changes)
               /\ Elements(g.changes) \subseteq (1..announced) \ Elements(changeBuffer)
    BY <1>1, <1>2 DEF Separate, FlightsApart, HasLeft
  <2>2. ASSUME NEW g \in flights', NEW h \in flights', g # h PROVE Apart(g.changes, h.changes)
    <3>1. PICK f \in flights : g = new(f)
      BY <1>1
    <3>2. PICK e \in flights : h = new(e)
      BY <1>1
    <3>3. f # e
      BY <2>2, <3>1, <3>2
    <3>. QED  BY <1>2, <3>1, <3>2, <3>3 DEF Separate, FlightsApart
  <2>. QED  BY <1>1, <2>1, <2>2 DEF FlightsApart, HasLeft, Apart
<1>8. ToldApart'
  <2>1. ASSUME NEW w \in Windows
        PROVE  /\ Elements(received[w]) \subseteq (1..announced) \ Elements(changeBuffer)
               /\ \A g \in flights' : Apart(received[w], g.changes)
    <3>1. HasLeft(received[w]) /\ \A f \in flights : Apart(received[w], f.changes)
      BY DEF Separate, ToldApart
    <3>. QED  BY <1>1, <1>2, <3>1 DEF HasLeft
  <2>2. ASSUME NEW m \in Listeners PROVE Elements(heard[m]) \subseteq (1..announced) \ Elements(changeBuffer)
    BY DEF Separate, ToldApart, HasLeft
  <2>3. ASSUME NEW g \in flights', NEW m \in Elements(g.rest) PROVE Apart(heard[m], g.changes)
    <3>1. PICK f \in flights : g = new(f)
      BY <1>1
    <3>2. CASE m = l
      BY <1>2, <1>5, <2>3, <3>1, <3>2
    <3>3. CASE m # l
      <4>1. m \in Elements(f.rest)
        BY <1>5, <2>3, <3>1, <3>3
      <4>. QED  BY <1>2, <3>1, <4>1 DEF Separate, ToldApart
    <3>. QED  BY <3>2, <3>3
  <2>4. ASSUME NEW g \in flights', g.live, NEW m \in Listeners \ Elements(changeListeners')
        PROVE  m \notin Elements(g.rest) /\ Apart(heard[m], g.changes)
    <3>1. PICK f \in flights : g = new(f)
      BY <1>1
    <3>2. f.live /\ m # l /\ m \notin Elements(changeListeners)
      BY <1>2, <1>4, <2>4, <3>1
    <3>3. m \notin Elements(f.rest) /\ Apart(heard[m], f.changes)
      BY <3>2 DEF Separate, ToldApart
    <3>. QED  BY <1>2, <1>5, <3>1, <3>2, <3>3
  <2>. QED  BY <1>1, <2>1, <2>2, <2>3, <2>4 DEF ToldApart, HasLeft, Apart
<1>9. ToldOnce'
  BY <1>1 DEF Separate, ToldOnce
<1>. QED  BY <1>6, <1>7, <1>8, <1>9 DEF Separate

LEMMA OffChangeFeed ==
  ASSUME Inv, Ordered, Separate, NEW k \in 2..Len(changeListeners), OffChange(k)
  PROVE  Ordered' /\ Separate'
<1>. DEFINE new(f) == [f EXCEPT !.live = FALSE]
<1>t. /\ flights \subseteq Flight /\ changeListeners \in Seq(Listeners)
      /\ k \in 1..Len(changeListeners)
  BY DEF Inv, TypeOK
<1>1. /\ flights' = {new(f) : f \in flights}
      /\ UNCHANGED <<changeBuffer, announced, dropped, failed, heard, received>>
  BY DEF OffChange, history
<1>2. ASSUME NEW f \in flights
      PROVE  new(f).changes = f.changes /\ new(f).live = FALSE /\ new(f).rest = f.rest
  BY <1>t DEF Flight
<1>. HIDE DEF new
<1>3. NoDuplicates(changeListeners')
  BY <1>t, RemovedAt DEF OffChange, Ordered, Registered
<1>4. Ordered'
  <2>1. ASSUME NEW g \in flights' PROVE NoDuplicates(g.rest) /\ Hooks \notin Elements(g.rest)
    BY <1>1, <1>2 DEF Ordered, Registered
  <2>2. Registered'
    BY <1>3, <2>1 DEF Registered
  <2>3. BufferInOrder' /\ HooksHearAllInOrder'
    BY <1>1 DEF Ordered, BufferInOrder, HooksHearAllInOrder
  <2>. QED  BY <2>2, <2>3 DEF Ordered
<1>5. FlightsApart'
  <2>1. ASSUME NEW g \in flights'
        PROVE  g.changes # <<>> /\ NoDuplicates(g.changes)
               /\ Elements(g.changes) \subseteq (1..announced) \ Elements(changeBuffer)
    BY <1>1, <1>2 DEF Separate, FlightsApart, HasLeft
  <2>2. ASSUME NEW g \in flights', NEW h \in flights', g # h PROVE Apart(g.changes, h.changes)
    <3>1. PICK f \in flights : g = new(f)
      BY <1>1
    <3>2. PICK e \in flights : h = new(e)
      BY <1>1
    <3>3. f # e
      BY <2>2, <3>1, <3>2
    <3>. QED  BY <1>2, <3>1, <3>2, <3>3 DEF Separate, FlightsApart
  <2>. QED  BY <1>1, <2>1, <2>2 DEF FlightsApart, HasLeft, Apart
<1>6. ToldApart'
  <2>1. ASSUME NEW w \in Windows
        PROVE  /\ Elements(received[w]) \subseteq (1..announced) \ Elements(changeBuffer)
               /\ \A g \in flights' : Apart(received[w], g.changes)
    <3>1. HasLeft(received[w]) /\ \A f \in flights : Apart(received[w], f.changes)
      BY DEF Separate, ToldApart
    <3>. QED  BY <1>1, <1>2, <3>1 DEF HasLeft
  <2>2. ASSUME NEW m \in Listeners PROVE Elements(heard[m]) \subseteq (1..announced) \ Elements(changeBuffer)
    BY DEF Separate, ToldApart, HasLeft
  <2>3. ASSUME NEW g \in flights' PROVE ~g.live /\ \A m \in Elements(g.rest) : Apart(heard[m], g.changes)
    BY <1>1, <1>2 DEF Separate, ToldApart
  <2>. QED  BY <1>1, <2>1, <2>2, <2>3 DEF ToldApart, HasLeft, Apart
<1>7. ToldOnce'
  BY <1>1 DEF Separate, ToldOnce
<1>. QED  BY <1>4, <1>5, <1>6, <1>7 DEF Separate

LEMMA FeedInit ==
  ASSUME Init
  PROVE  FeedInv
<1>. USE DEF Init
<1>1. Inv
  BY ListenersAssumption DEF Inv, TypeOK, HooksFirst, NothingStranded
<1>2. Elements(<<>>) = {} /\ NoDuplicates(<<>>) /\ Ascending(<<>>)
  BY ElementsFacts, EmptySeq DEF NoDuplicates, Ascending
<1>3. NoDuplicates(<<Hooks>>)
  BY DEF NoDuplicates
<1>4. Ordered
  BY <1>2, <1>3, ListenersAssumption DEF Ordered, Registered, BufferInOrder, HooksHearAllInOrder
<1>5. Separate
  BY <1>2 DEF Separate, FlightsApart, ToldApart, ToldOnce, HasLeft
<1>. QED  BY <1>1, <1>4, <1>5 DEF FeedInv

\* Every reachable state satisfies the inductive invariant of the feed.
THEOREM SpecFeedInv == Spec => []FeedInv
<1>1. Init => FeedInv
  BY FeedInit
<1>2. Inv /\ Inv' /\ FeedInv /\ [Next]_vars => FeedInv'
  <2>. SUFFICES ASSUME Inv, Inv', Ordered, Separate, [Next]_vars PROVE Ordered' /\ Separate'
    BY DEF FeedInv
  <2>1. ASSUME NEW k \in 1..2, Announce(k) PROVE Ordered' /\ Separate'
    BY <2>1, AnnounceFeed
  <2>2. ASSUME NEW timed \in BOOLEAN, BufferChanges(timed) PROVE Ordered' /\ Separate'
    BY <2>2, SameFeed DEF BufferChanges, history
  <2>3. ASSUME NEW id \in timers, TimerFires(id) PROVE Ordered' /\ Separate'
    <3>1. id \in Nat /\ FALSE \in BOOLEAN
      BY DEF Inv, TypeOK
    <3>. QED  BY <2>3, <3>1, FlushFeed DEF TimerFires
  <2>4. ASSUME NEW id \in 0..bufferChangesId, NEW fake \in BOOLEAN, Flush(id, fake)
        PROVE  Ordered' /\ Separate'
    BY <2>4, FlushFeed DEF Flush, Inv, TypeOK
  <2>5. ASSUME NEW f \in flights, ListenerDone(f) \/ ListenerFails(f)
        PROVE  Ordered' /\ Separate'
    BY <2>5, ListenerFeed
  <2>6. ASSUME NEW l \in Listeners, OnChange(l) PROVE Ordered' /\ Separate'
    BY <2>6, OnChangeFeed
  <2>7. ASSUME NEW k \in 2..Len(changeListeners), OffChange(k) PROVE Ordered' /\ Separate'
    BY <2>7, OffChangeFeed
  <2>8. CASE UNCHANGED vars
    BY <2>8, SameFeed DEF vars, history
  <2>. QED  BY <2>1, <2>2, <2>3, <2>4, <2>5, <2>6, <2>7, <2>8 DEF Next
<1>. QED  BY <1>1, <1>2, SpecInv, PTL DEF Spec

\* The delete hooks hear of every change that left the buffer, once and in the
\* order the changes were made, for any listeners, buffers and overlapping
\* flushes (flushChanges awaits each listener in turn).
THEOREM HooksHearInOrder == Spec => []HooksHearAllInOrder
BY SpecFeedInv, PTL DEF FeedInv, Ordered

\* No listener and no window is told of a change twice, though onChange pushes
\* onto the array a flush is iterating and offChange replaces it.
THEOREM NobodyIsToldTwice == Spec => []ToldOnce
BY SpecFeedInv, PTL DEF FeedInv, Separate

\* While some buffer stays open, no step takes a change out of changeBuffer.
THEOREM OverlapsAreKept == Spec => OverlapsCoalesce
<1>. DEFINE Kept == openBuffers \cap openBuffers' # {} =>
               /\ Len(changeBuffer') >= Len(changeBuffer)
               /\ \A i \in 1..Len(changeBuffer) : changeBuffer'[i] = changeBuffer[i]
<1>1. Inv /\ [Next]_vars => [Kept]_vars
  <2>. SUFFICES ASSUME Inv, [Next]_vars, openBuffers \cap openBuffers' # {}
                PROVE  /\ Len(changeBuffer') >= Len(changeBuffer)
                       /\ \A i \in 1..Len(changeBuffer) : changeBuffer'[i] = changeBuffer[i]
    OBVIOUS
  <2>t. changeBuffer \in Seq(Nat) /\ Len(changeBuffer) \in Nat /\ announced \in Nat
    BY LenProperties DEF Inv, TypeOK
  <2>0. ASSUME NEW id \in Nat, NEW fake \in BOOLEAN, FlushChanges(id, fake)
        PROVE  UNCHANGED changeBuffer
    BY <2>0 DEF FlushChanges
  <2>1. ASSUME NEW k \in 1..2, Announce(k)
        PROVE  /\ Len(changeBuffer') >= Len(changeBuffer)
               /\ \A i \in 1..Len(changeBuffer) : changeBuffer'[i] = changeBuffer[i]
    <3>. DEFINE new == [i \in 1..k |-> announced + i]
    <3>1. changeBuffer' = changeBuffer \o new
      BY <2>1 DEF Announce, NotifyOfChange
    <3>2. new \in Seq(Nat) /\ Len(new) \in Nat
      BY <2>t, NewChanges
    <3>. HIDE DEF new
    <3>. QED  BY <2>t, <3>1, <3>2, ConcatProperties
  <2>2. ASSUME NEW timed \in BOOLEAN, BufferChanges(timed) PROVE UNCHANGED changeBuffer
    BY <2>2 DEF BufferChanges
  <2>3. ASSUME NEW id \in timers, TimerFires(id) PROVE UNCHANGED changeBuffer
    <3>1. id \in Nat /\ FALSE \in BOOLEAN
      BY DEF Inv, TypeOK
    <3>. QED  BY <2>0, <2>3, <3>1 DEF TimerFires
  <2>4. ASSUME NEW id \in 0..bufferChangesId, NEW fake \in BOOLEAN, Flush(id, fake)
        PROVE  UNCHANGED changeBuffer
    BY <2>0, <2>4 DEF Flush, Inv, TypeOK
  <2>5. ASSUME NEW f \in flights, ListenerDone(f) \/ ListenerFails(f) PROVE UNCHANGED changeBuffer
    BY <2>5 DEF ListenerDone, ListenerFails
  <2>6. ASSUME NEW l \in Listeners, OnChange(l) PROVE UNCHANGED changeBuffer
    BY <2>6 DEF OnChange
  <2>7. ASSUME NEW k \in 2..Len(changeListeners), OffChange(k) PROVE UNCHANGED changeBuffer
    BY <2>7 DEF OffChange
  <2>8. CASE UNCHANGED vars
    BY <2>8 DEF vars
  <2>9. ASSUME UNCHANGED changeBuffer
        PROVE  /\ Len(changeBuffer') >= Len(changeBuffer)
               /\ \A i \in 1..Len(changeBuffer) : changeBuffer'[i] = changeBuffer[i]
    BY <2>t, <2>9
  <2>. QED  BY <2>1, <2>2, <2>3, <2>4, <2>5, <2>6, <2>7, <2>8, <2>9 DEF Next
<1>. QED  BY <1>1, SpecInv, PTL DEF Spec, OverlapsCoalesce
-----------------------------------------------------------------------------
(* The refinement: each step is a step of ChangeFeed, or none of its.      *)

\* The batches under way, and the changes no window is told of.
Out == {f.changes : f \in flights}
Lost == dropped \cup failed

FeedStep == Feed!Next \/ UNCHANGED <<announced, changeBuffer, Out, received, Lost>>

LEMMA DispatchedOut ==
  ASSUME NEW batches, NEW changes, Dispatch(batches, changes)
  PROVE  Out' = Out \cup batches
<1>. DEFINE New(b) == [changes |-> b, at |-> Head(changeListeners), rest |-> Tail(changeListeners),
                       live |-> TRUE]
<1>1. flights' = flights \cup {New(b) : b \in batches}
  BY DEF Dispatch
<1>2. \A b : New(b).changes = b
  OBVIOUS
<1>. HIDE DEF New
<1>3. ASSUME NEW c \in Out' PROVE c \in Out \cup batches
  <2>1. PICK f \in flights' : c = f.changes
    BY DEF Out
  <2>. QED  BY <1>1, <1>2, <2>1 DEF Out
<1>4. ASSUME NEW c \in Out PROVE c \in Out'
  BY <1>1 DEF Out
<1>5. ASSUME NEW b \in batches PROVE b \in Out'
  <2>1. New(b) \in flights' /\ New(b).changes = b
    BY <1>1, <1>2
  <2>. QED  BY <2>1 DEF Out
<1>. QED  BY <1>3, <1>4, <1>5

\* A batch is under way in one flight only.
LEMMA LandedOut ==
  ASSUME Inv, Separate, NEW f \in flights
  PROVE  {g.changes : g \in flights \ {f}} = Out \ {f.changes}
<1>1. ASSUME NEW g \in flights, g # f PROVE g.changes # f.changes
  <2>1. Elements(g.changes) \cap Elements(f.changes) = {} /\ f.changes # <<>>
    BY <1>1 DEF Separate, FlightsApart, Apart
  <2>2. f.changes \in Seq(Nat)
    BY DEF Inv, TypeOK, Flight
  <2>3. Elements(f.changes) # {}
    BY <2>1, <2>2, ElementsFacts
  <2>. QED  BY <2>1, <2>3
<1>. QED  BY <1>1 DEF Out

LEMMA FlushRefines ==
  ASSUME NEW id \in Nat, NEW fake \in BOOLEAN, FlushChanges(id, fake)
  PROVE  FeedStep
<1>. DEFINE left == IF id = 0 THEN {} ELSE openBuffers \ {id}
            drains == left = {} /\ changeBuffer # <<>>
<1>1. /\ UNCHANGED <<changeListeners, announced, failed, received>>
      /\ changeBuffer' = IF drains THEN <<>> ELSE changeBuffer
      /\ dropped' = IF drains /\ fake THEN dropped \cup Elements(changeBuffer) ELSE dropped
      /\ IF drains /\ ~fake THEN Dispatch({changeBuffer}, changeBuffer)
                            ELSE UNCHANGED <<heard, flights>>
  BY DEF FlushChanges
<1>2. drains => changeBuffer # <<>>
  OBVIOUS
<1>. HIDE DEF left, drains
<1>3. CASE ~drains
  BY <1>1, <1>3 DEF FeedStep, Out, Lost
<1>4. CASE drains /\ ~fake
  <2>1. Out' = Out \cup {changeBuffer}
    BY <1>1, <1>4, DispatchedOut
  <2>2. Lost' = Lost
    BY <1>1, <1>4 DEF Lost
  <2>3. Feed!SendOut
    BY <1>1, <1>2, <1>4, <2>1, <2>2 DEF Feed!SendOut, Out, Lost
  <2>. QED  BY <2>3 DEF FeedStep, Feed!Next
<1>5. CASE drains /\ fake
  <2>1. Out' = Out
    BY <1>1, <1>5 DEF Out
  <2>2. Lost' = Lost \cup Elements(changeBuffer)
    BY <1>1, <1>5 DEF Lost
  <2>3. Elements(changeBuffer) = Feed!ElementsOf(changeBuffer)
    BY DEF Elements, Feed!ElementsOf
  <2>4. Feed!SendOut
    BY <1>1, <1>2, <1>5, <2>1, <2>2, <2>3 DEF Feed!SendOut, Out, Lost
  <2>. QED  BY <2>4 DEF FeedStep, Feed!Next
<1>. QED  BY <1>3, <1>4, <1>5

LEMMA AnnounceRefines ==
  ASSUME Inv, NEW k \in 1..2, Announce(k)
  PROVE  FeedStep
<1>. DEFINE new == [i \in 1..k |-> announced + i]
            batches == {changeBuffer \o <<new[1]>>} \cup {<<new[i]>> : i \in 2..k}
<1>t. announced \in Nat /\ changeBuffer \in Seq(Nat)
  BY DEF Inv, TypeOK
<1>1. /\ announced + k <= MaxChanges /\ announced' = announced + k
      /\ UNCHANGED <<changeListeners, dropped, failed, received>>
      /\ IF openBuffers = {} THEN Dispatch(batches, changeBuffer \o new) /\ changeBuffer' = <<>>
                             ELSE changeBuffer' = changeBuffer \o new /\ UNCHANGED <<heard, flights>>
  BY DEF Announce, NotifyOfChange
<1>2. Lost' = Lost
  BY <1>1 DEF Lost
<1>3. CASE openBuffers = {}
  <2>1. batches = {Append(changeBuffer, announced + 1)} \cup {<<announced + i>> : i \in 2..k}
    <3>1. new[1] = announced + 1 /\ \A i \in 2..k : new[i] = announced + i
      OBVIOUS
    <3>. HIDE DEF new
    <3>2. Append(changeBuffer, announced + 1) = changeBuffer \o <<announced + 1>>
      BY <1>t, AppendIsConcat
    <3>3. {<<new[i]>> : i \in 2..k} = {<<announced + i>> : i \in 2..k}
      BY <3>1
    <3>. QED  BY <3>1, <3>2, <3>3
  <2>2. Out' = Out \cup batches
    BY <1>1, <1>3, DispatchedOut
  <2>. HIDE DEF batches
  <2>3. Out' = Out \cup {Append(changeBuffer, announced + 1)} \cup {<<announced + i>> : i \in 2..k}
    BY <2>1, <2>2
  <2>4. Feed!AnnounceAtOnce(k)
    BY <1>1, <1>2, <1>3, <2>3 DEF Feed!AnnounceAtOnce, Out, Lost
  <2>. QED  BY <2>4 DEF FeedStep, Feed!Next
<1>4. CASE openBuffers # {}
  <2>1. Out' = Out /\ changeBuffer' = changeBuffer \o Feed!New(k)
    BY <1>1, <1>4 DEF Out, Feed!New
  <2>2. Feed!Announce(k)
    BY <1>1, <1>2, <2>1 DEF Feed!Announce, Out, Lost
  <2>. QED  BY <2>2 DEF FeedStep, Feed!Next
<1>. QED  BY <1>3, <1>4

LEMMA ListenerRefines ==
  ASSUME Inv, Separate, NEW f \in flights, ListenerDone(f) \/ ListenerFails(f)
  PROVE  FeedStep
<1>t. f \in Flight /\ f.changes \in Out
  BY DEF Inv, TypeOK, Out
<1>1. UNCHANGED <<changeBuffer, announced, dropped>>
  BY DEF ListenerDone, ListenerFails
<1>2. flights' = flights \ {f} => Out' = Out \ {f.changes}
  BY LandedOut DEF Out
<1>3. CASE ListenerFails(f)
  <2>1. Elements(f.changes) = Feed!ElementsOf(f.changes)
    BY DEF Elements, Feed!ElementsOf
  <2>2. /\ Out' = Out \ {f.changes} /\ Lost' = Lost \cup Elements(f.changes)
        /\ UNCHANGED received
    BY <1>1, <1>2, <1>3 DEF ListenerFails, Lost
  <2>3. Feed!Lose(f.changes)
    BY <1>t, <1>1, <2>1, <2>2 DEF Feed!Lose, Out, Lost
  <2>. QED  BY <1>t, <2>3 DEF FeedStep, Feed!Next, Out
<1>4. CASE ListenerDone(f) /\ f.rest = <<>>
  <2>1. /\ Out' = Out \ {f.changes} /\ Lost' = Lost
        /\ received' = [w \in Windows |-> received[w] \o f.changes]
    BY <1>1, <1>2, <1>4 DEF ListenerDone, Lost
  <2>2. Feed!Tell(f.changes)
    BY <1>t, <1>1, <2>1 DEF Feed!Tell, Out, Lost
  <2>. QED  BY <1>t, <2>2 DEF FeedStep, Feed!Next, Out
<1>5. CASE ListenerDone(f) /\ f.rest # <<>>
  <2>. DEFINE f1 == [f EXCEPT !.at = Head(f.rest), !.rest = Tail(f.rest)]
  <2>1. /\ flights' = (flights \ {f}) \cup {f1} /\ UNCHANGED received /\ Lost' = Lost
    BY <1>1, <1>5 DEF ListenerDone, Lost
  <2>2. f1.changes = f.changes
    BY <1>t DEF Flight
  <2>. HIDE DEF f1
  <2>3. Out' = Out
    <3>1. ASSUME NEW c \in Out PROVE c \in Out'
      <4>1. PICK g \in flights : c = g.changes
        BY DEF Out
      <4>2. CASE g = f
        BY <2>1, <2>2, <4>1, <4>2 DEF Out
      <4>3. CASE g # f
        BY <2>1, <4>1, <4>3 DEF Out
      <4>. QED  BY <4>2, <4>3
    <3>2. ASSUME NEW c \in Out' PROVE c \in Out
      <4>1. PICK g \in flights' : c = g.changes
        BY DEF Out
      <4>. QED  BY <2>1, <2>2, <4>1 DEF Out
    <3>. QED  BY <3>1, <3>2
  <2>. QED  BY <1>1, <2>1, <2>3 DEF FeedStep
<1>. QED  BY <1>3, <1>4, <1>5

LEMMA ListenersRefine ==
  ASSUME Inv, (\E l \in Listeners : OnChange(l)) \/ (\E k \in 2..Len(changeListeners) : OffChange(k))
  PROVE  FeedStep
<1>1. UNCHANGED <<announced, changeBuffer, received, dropped, failed>>
  BY DEF OnChange, OffChange, history
<1>2. PICK new \in [flights -> Flight] : /\ \A f \in flights : new[f].changes = f.changes
                                       /\ flights' = {new[f] : f \in flights}
  <2>t. flights \subseteq Flight
    BY DEF Inv, TypeOK
  <2>1. ASSUME NEW l \in Listeners, OnChange(l)
        PROVE  \E new \in [flights -> Flight] : /\ \A f \in flights : new[f].changes = f.changes
                                               /\ flights' = {new[f] : f \in flights}
    <3>. DEFINE new == [f \in flights |-> IF f.live THEN [f EXCEPT !.rest = Append(f.rest, l)] ELSE f]
    <3>1. flights' = {new[f] : f \in flights}
      BY <2>1 DEF OnChange
    <3>2. ASSUME NEW f \in flights PROVE new[f] \in Flight /\ new[f].changes = f.changes
      BY <2>t, AppendProperties DEF Flight
    <3>. QED  BY <3>1, <3>2
  <2>2. ASSUME NEW k \in 2..Len(changeListeners), OffChange(k)
        PROVE  \E new \in [flights -> Flight] : /\ \A f \in flights : new[f].changes = f.changes
                                               /\ flights' = {new[f] : f \in flights}
    <3>. DEFINE new == [f \in flights |-> [f EXCEPT !.live = FALSE]]
    <3>1. flights' = {new[f] : f \in flights}
      BY <2>2 DEF OffChange
    <3>2. ASSUME NEW f \in flights PROVE new[f] \in Flight /\ new[f].changes = f.changes
      BY <2>t DEF Flight
    <3>. QED  BY <3>1, <3>2
  <2>. QED  BY <2>1, <2>2
<1>3. Out' = Out
  BY <1>2 DEF Out
<1>. QED  BY <1>1, <1>3 DEF FeedStep, Lost

\* The buffers, timers and awaited listeners implement ChangeFeed: a change goes
\* out in one batch, and every window is told of that batch once, or none is.
THEOREM ImplementsFeed == Spec => KeepsThePromise
<1>1. Init => Feed!Init
  BY DEF Init, Feed!Init
<1>2. FeedInv /\ [Next]_vars => [Feed!Next]_(Feed!feedVars)
  <2>. SUFFICES ASSUME Inv, Separate, [Next]_vars PROVE FeedStep
    BY DEF FeedInv, FeedStep, Feed!feedVars, Out, Lost
  <2>1. ASSUME NEW k \in 1..2, Announce(k) PROVE FeedStep
    BY <2>1, AnnounceRefines
  <2>2. ASSUME NEW timed \in BOOLEAN, BufferChanges(timed) PROVE FeedStep
    BY <2>2 DEF BufferChanges, history, FeedStep, Out, Lost
  <2>3. ASSUME NEW id \in timers, TimerFires(id) PROVE FeedStep
    <3>1. id \in Nat /\ FALSE \in BOOLEAN
      BY DEF Inv, TypeOK
    <3>. QED  BY <2>3, <3>1, FlushRefines DEF TimerFires
  <2>4. ASSUME NEW id \in 0..bufferChangesId, NEW fake \in BOOLEAN, Flush(id, fake) PROVE FeedStep
    BY <2>4, FlushRefines DEF Flush, Inv, TypeOK
  <2>5. ASSUME NEW f \in flights, ListenerDone(f) \/ ListenerFails(f) PROVE FeedStep
    BY <2>5, ListenerRefines
  <2>6. ASSUME NEW l \in Listeners, OnChange(l) PROVE FeedStep
    BY <2>6, ListenersRefine
  <2>7. ASSUME NEW k \in 2..Len(changeListeners), OffChange(k) PROVE FeedStep
    BY <2>7, ListenersRefine
  <2>8. CASE UNCHANGED vars
    BY <2>8 DEF vars, history, FeedStep, Out, Lost
  <2>. QED  BY <2>1, <2>2, <2>3, <2>4, <2>5, <2>6, <2>7, <2>8 DEF Next
<1>. QED  BY <1>1, <1>2, SpecFeedInv, PTL DEF Spec, KeepsThePromise, Feed!Spec
=============================================================================
