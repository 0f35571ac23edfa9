----------------------- MODULE CredentialGuard_proofs -----------------------
(***************************************************************************)
(* Proofs about CredentialGuard, for any fields, values, keyrings and      *)
(* bounds: no step writes a credential in plaintext, none that was saved   *)
(* is lost or reads back as another, none is left under an old key, and    *)
(* the fallback's key never stands in for a keyring's.                     *)
(***************************************************************************)
EXTENDS CredentialGuard, WellFoundedInduction, SequenceTheorems, TLAPS

(* The parts of the inductive invariant.                                   *)

\* What a launch has done so far shows in its state: no key is asked for
\* before the first, and a save waits only for that one.
InPhase ==
  /\ phase = "off" => state = "none" /\ ~creating /\ pending = {}
  /\ phase # "off" /\ state = "none" => storedKeys = <<>>
  /\ Len(storedKeys) <= MaxKeys
  /\ creating => phase # "off" /\ state = "none"
  /\ pending # {} => phase = "on"
  /\ state = "none" /\ ~creating => asked = 0 /\ pending = {}
  /\ Encrypting => currentKeyId \in keys

\* Nothing is kept for the session while it can be sealed.
SessionClean == state \in {"none", "ready", "weak"} => \A f \in Fields : sessionValues[f] = NoValue

\* What is on disk, sealed or not, is what was saved.
SavedIsStored == \A f \in Fields : saved[f] = IF stored[f] = Empty THEN NoValue ELSE stored[f].v

\* An envelope's key is among the saved ones, and its version one that opens.
Openable ==
  \A f \in Fields : IsEnvelope(stored[f]) =>
    /\ stored[f].k \in 1..Len(storedKeys)
    /\ legacyRetired => stored[f].enc = 2

\* A launch that goes on without a key found no plaintext that needs one.
NoneInPlain == phase = "on" /\ state = "none" => \A f \in Fields : stored[f].at # "plain"

\* What the fallback wrapped is known to be weak, and no weak key comes after a
\* keyring's own.
Wraps ==
  /\ \A i \in 1..Len(storedKeys) : storedKeys[i].by = Weak => storedKeys[i].weak
  /\ \A i, j \in 1..Len(storedKeys) : i < j /\ ~WasWeak(storedKeys[i]) => ~WasWeak(storedKeys[j])

Contents == SavedIsStored /\ Openable /\ NoneInPlain /\ SealedUnderCurrent
Keys == Wraps /\ KeyringNotDowngraded
Inv == TypeOK /\ InPhase /\ SessionClean /\ Contents /\ Keys

-----------------------------------------------------------------------------
(* Cells of the disk.                                                      *)

LEMMA CellFacts ==
  ASSUME NEW c \in Cells
  PROVE  /\ c.at \in {"empty", "plain", "envelope"}
         /\ c.at = "empty" <=> c = Empty
         /\ c.at = "plain" => c.v \in Values /\ c = Plain(c.v)
         /\ c.at = "envelope" => /\ c.k \in 1..MaxKeys /\ c.enc \in 1..2 /\ c.v \in Values
                                 /\ c = Envelope(c.k, c.enc, c.v)
<1>1. CASE c = Empty
  BY <1>1 DEF Empty
<1>2. CASE \E v \in Values : c = Plain(v)
  <2>1. PICK v \in Values : c = Plain(v)
    BY <1>2
  <2>. QED  BY <2>1 DEF Plain, Empty
<1>3. CASE \E k \in 1..MaxKeys, e \in 1..2, v \in Values : c = Envelope(k, e, v)
  <2>1. PICK k \in 1..MaxKeys, e \in 1..2, v \in Values : c = Envelope(k, e, v)
    BY <1>3
  <2>. QED  BY <2>1 DEF Envelope, Empty
<1>. QED  BY <1>1, <1>2, <1>3 DEF Cells

LEMMA EnvelopeFacts ==
  ASSUME NEW k \in 1..MaxKeys, NEW v \in Values
  PROVE  /\ Envelope(k, 2, v) \in Cells /\ Envelope(k, 2, v) # Empty
         /\ Envelope(k, 2, v).at = "envelope" /\ Envelope(k, 2, v).k = k
         /\ Envelope(k, 2, v).enc = 2 /\ Envelope(k, 2, v).v = v
<1>1. Envelope(k, 2, v) \in Cells
  BY DEF Cells
<1>2. /\ Envelope(k, 2, v).at = "envelope" /\ Envelope(k, 2, v).k = k
      /\ Envelope(k, 2, v).enc = 2 /\ Envelope(k, 2, v).v = v
  BY DEF Envelope
<1>. QED  BY <1>1, <1>2, CellFacts

LEMMA EmptyFacts == Empty \in Cells /\ Empty.at = "empty"
BY DEF Empty, Cells

\* What a launch's state says of its keys.
LEMMA CurrentKey ==
  ASSUME TypeOK, InPhase
  PROVE  /\ keys \subseteq 1..Len(storedKeys) /\ Len(storedKeys) \in Nat
         /\ keys \subseteq 1..MaxKeys
         /\ Encrypting => currentKeyId \in keys
<1>1. Len(storedKeys) \in Nat /\ MaxKeys \in Nat
  BY LenProperties, BoundsAssumption DEF TypeOK
<1>. QED  BY <1>1 DEF TypeOK, InPhase

\* sealDoc keeps what is there, empties it, or seals the value under the
\* current key; and a credential it empties is one that reads, or is empty.
LEMMA SealDocFacts ==
  ASSUME TypeOK, InPhase, NEW f \in Fields, NEW v \in Values \cup {NoValue}
  PROVE  LET new == SealDoc(f, v, stored[f]) IN
         /\ new \in Cells
         /\ v # NoValue /\ Encrypting => new = Envelope(currentKeyId, 2, v)
         /\ v # NoValue /\ ~Encrypting => new = stored[f]
         /\ v = NoValue => new \in {stored[f], Empty}
         /\ v = NoValue /\ new # stored[f] => Readable(f)
         /\ v = NoValue /\ Readable(f) /\ state # "none" => new = Empty
<1>1. stored[f] \in Cells /\ Empty \in Cells
  BY EmptyFacts DEF TypeOK
<1>2. CASE v # NoValue
  <2>1. Encrypting => Envelope(currentKeyId, 2, v) \in Cells
    BY <1>2, CurrentKey, EnvelopeFacts
  <2>. QED  BY <1>1, <1>2, <2>1 DEF SealDoc
<1>3. CASE v = NoValue
  <2>1. state \in {"none", "ready", "weak", "locked", "unavailable"}
    BY DEF TypeOK
  <2>2. stored[f].at \in {"empty", "plain", "envelope"} /\ (stored[f].at = "empty" <=> stored[f] = Empty)
    BY <1>1, CellFacts
  <2>. QED  BY <1>1, <1>3, <2>1, <2>2 DEF SealDoc, Readable, Encrypting, CanOpen, IsEnvelope
<1>. QED  BY <1>2, <1>3

\* A field written: what is on disk is what was saved, and sealed.
LEMMA WriteInv ==
  ASSUME Inv, NEW f \in Fields, NEW v \in Values \cup {NoValue}, Write(f, v), phase = "on",
         state = "none" => v = NoValue, UNCHANGED phase
  PROVE  /\ stored' \in [Fields -> Cells] /\ sessionValues' \in [Fields -> Values \cup {NoValue}]
         /\ saved' \in [Fields -> Values \cup {NoValue}]
         /\ SessionClean' /\ Contents' /\ Keys'
<1>. DEFINE new == SealDoc(f, v, stored[f])
<1>t. /\ TypeOK /\ InPhase /\ stored \in [Fields -> Cells]
      /\ sessionValues \in [Fields -> Values \cup {NoValue}]
      /\ saved \in [Fields -> Values \cup {NoValue}] /\ NoValue \notin Values
  BY KeychainsAssumption DEF Inv, TypeOK
<1>s. state \in {"none", "ready", "weak", "locked", "unavailable"}
  BY <1>t DEF TypeOK
<1>1. /\ stored' = [stored EXCEPT ![f] = new]
      /\ sessionValues' = [sessionValues EXCEPT ![f] = SessionValue(f, v, stored[f])]
      /\ saved' = [saved EXCEPT ![f] = IF v = NoValue THEN IF Readable(f) THEN NoValue ELSE saved[f]
                                       ELSE IF Encrypting THEN v ELSE saved[f]]
      /\ UNCHANGED <<storedKeys, legacyRetired, keychain, keys, currentKeyId, state>>
  BY DEF Write
<1>2. /\ new \in Cells
      /\ v # NoValue /\ Encrypting => new = Envelope(currentKeyId, 2, v)
      /\ v # NoValue /\ ~Encrypting => new = stored[f]
      /\ v = NoValue => new \in {stored[f], Empty}
      /\ v = NoValue /\ new # stored[f] => Readable(f)
      /\ v = NoValue /\ Readable(f) /\ state # "none" => new = Empty
  BY <1>t, SealDocFacts
<1>3. /\ keys \subseteq 1..Len(storedKeys) /\ keys \subseteq 1..MaxKeys
      /\ Encrypting => currentKeyId \in keys
  BY <1>t, CurrentKey
<1>e. v # NoValue /\ Encrypting =>
        /\ new # Empty /\ new.at = "envelope" /\ new.k = currentKeyId /\ new.enc = 2 /\ new.v = v
        /\ currentKeyId \in 1..Len(storedKeys)
  <2>. SUFFICES ASSUME v # NoValue, Encrypting
                PROVE  /\ new # Empty /\ new.at = "envelope" /\ new.k = currentKeyId
                       /\ new.enc = 2 /\ new.v = v /\ currentKeyId \in 1..Len(storedKeys)
    OBVIOUS
  <2>1. v \in Values /\ currentKeyId \in 1..MaxKeys /\ currentKeyId \in 1..Len(storedKeys)
    BY <1>3
  <2>2. new = Envelope(currentKeyId, 2, v)
    BY <1>2
  <2>. HIDE DEF new
  <2>. QED  BY <2>1, <2>2, EnvelopeFacts
<1>. HIDE DEF new
<1>4. stored' \in [Fields -> Cells] /\ saved' \in [Fields -> Values \cup {NoValue}]
  BY <1>t, <1>1, <1>2
<1>5. SessionValue(f, v, stored[f]) \in Values \cup {NoValue}
      /\ (v = NoValue \/ Encrypting => SessionValue(f, v, stored[f]) = NoValue)
  BY <1>t DEF SessionValue
<1>6. sessionValues' \in [Fields -> Values \cup {NoValue}]
  BY <1>t, <1>1, <1>5
<1>7. SessionClean'
  <2>1. ASSUME state \in {"none", "ready", "weak"}, NEW g \in Fields PROVE sessionValues'[g] = NoValue
    <3>1. sessionValues[g] = NoValue /\ (v = NoValue \/ Encrypting)
      BY <2>1 DEF Inv, SessionClean, Encrypting
    <3>. QED  BY <1>t, <1>1, <1>5, <3>1
  <2>. QED  BY <1>1, <2>1 DEF SessionClean
<1>8. /\ stored'[f] = new
      /\ \A g \in Fields : g # f => stored'[g] = stored[g] /\ saved'[g] = saved[g]
      /\ saved'[f] = IF v = NoValue THEN IF Readable(f) THEN NoValue ELSE saved[f]
                     ELSE IF Encrypting THEN v ELSE saved[f]
  BY <1>t, <1>1
<1>9. SavedIsStored'
  <2>1. saved[f] = IF stored[f] = Empty THEN NoValue ELSE stored[f].v
    BY DEF Inv, Contents, SavedIsStored
  <2>2. saved'[f] = IF new = Empty THEN NoValue ELSE new.v
    <3>1. CASE v # NoValue
      BY <1>2, <1>8, <1>e, <2>1, <3>1
    <3>2. CASE v = NoValue /\ ~Readable(f)
      BY <1>2, <1>8, <2>1, <3>2
    <3>3. CASE v = NoValue /\ Readable(f)
      <4>1. state # "none"
        <5>1. ASSUME state = "none" PROVE ~Readable(f)
          <6>1. stored[f].at # "plain"
            BY <5>1 DEF Inv, Contents, NoneInPlain
          <6>2. keys = {}
            BY <1>t, <1>3, <5>1, EmptySeq DEF InPhase
          <6>. QED  BY <6>1, <6>2 DEF Readable, CanOpen
        <5>. QED  BY <3>3, <5>1
      <4>. QED  BY <1>2, <1>8, <3>3, <4>1
    <3>. QED  BY <3>1, <3>2, <3>3
  <2>. QED  BY <1>8, <2>2 DEF Inv, Contents, SavedIsStored
<1>10. Openable'
  <2>1. ASSUME IsEnvelope(new) PROVE new.k \in 1..Len(storedKeys) /\ (legacyRetired => new.enc = 2)
    <3>1. CASE new = stored[f]
      BY <2>1, <3>1 DEF Inv, Contents, Openable
    <3>2. CASE new = Empty
      BY <2>1, <3>2, EmptyFacts DEF IsEnvelope
    <3>3. CASE v # NoValue /\ Encrypting
      BY <1>e, <3>3
    <3>. QED  BY <1>2, <3>1, <3>2, <3>3
  <2>. QED  BY <1>1, <1>8, <2>1 DEF Inv, Contents, Openable
<1>11. NoneInPlain'
  <2>1. ASSUME state = "none" PROVE new.at # "plain"
    <3>1. stored[f].at # "plain"
      BY <2>1 DEF Inv, Contents, NoneInPlain
    <3>. QED  BY <1>2, <2>1, <3>1, EmptyFacts
  <2>. QED  BY <1>1, <1>8, <2>1 DEF Inv, Contents, NoneInPlain
<1>12. SealedUnderCurrent'
  <2>1. ASSUME Encrypting PROVE ~NeedsSealing(new)
    <3>1. ~NeedsSealing(stored[f])
      BY <2>1 DEF Inv, Contents, SealedUnderCurrent
    <3>2. ~NeedsSealing(Empty)
      BY EmptyFacts DEF NeedsSealing, CanOpen, IsEnvelope
    <3>3. CASE v # NoValue
      BY <1>e, <2>1, <3>3 DEF NeedsSealing
    <3>. QED  BY <1>2, <3>1, <3>2, <3>3
  <2>2. ASSUME NEW c PROVE NeedsSealing(c)' <=> NeedsSealing(c)
    BY <1>1 DEF NeedsSealing, CanOpen
  <2>. QED  BY <1>1, <1>8, <2>1, <2>2 DEF Inv, Contents, SealedUnderCurrent, Encrypting, NeedsSealing, CanOpen
<1>13. Keys'
  BY <1>1 DEF Inv, Keys, Wraps, KeyringNotDowngraded
<1>. QED  BY <1>4, <1>6, <1>7, <1>9, <1>10, <1>11, <1>12, <1>13 DEF Contents

LEMMA SaveInv ==
  ASSUME Inv, NEW f \in Fields, NEW v \in Values \cup {NoValue}, Save(f, v)
  PROVE  Inv'
<1>1. phase = "on" /\ UNCHANGED phase
  BY DEF Save
<1>2. CASE state = "none" /\ v # NoValue
  <2>1. /\ pending' = pending \cup {<<f, v>>} /\ creating' = TRUE
        /\ asked' = IF creating THEN asked ELSE asked + 1
        /\ UNCHANGED <<disk, session, state, saved>>
    BY <1>2 DEF Save, EnsureKey
  <2>2. v \in Values
    BY <1>2
  <2>3. asked' \in 0..1
    BY <1>2, <2>1 DEF Inv, TypeOK, InPhase
  <2>4. pending' \subseteq Fields \X Values
    BY <2>1, <2>2 DEF Inv, TypeOK
  <2>5. TypeOK'
    BY <1>1, <2>1, <2>3, <2>4 DEF Inv, TypeOK, disk, session
  <2>6. InPhase'
    BY <1>1, <1>2, <2>1 DEF Inv, InPhase, disk, session, Encrypting
  <2>7. SessionClean' /\ SavedIsStored' /\ Openable' /\ NoneInPlain' /\ Keys'
    BY <1>1, <2>1 DEF Inv, SessionClean, Contents, SavedIsStored, Openable, NoneInPlain,
                      Keys, Wraps, KeyringNotDowngraded, disk, session
  <2>8. SealedUnderCurrent'
    BY <1>2, <2>1 DEF SealedUnderCurrent, Encrypting
  <2>. QED  BY <2>5, <2>6, <2>7, <2>8 DEF Inv, Contents
<1>3. CASE ~(state = "none" /\ v # NoValue)
  <2>1. Write(f, v) /\ UNCHANGED <<creating, pending, asked>>
    BY <1>3 DEF Save
  <2>2. UNCHANGED <<storedKeys, legacyRetired, keychain, keys, currentKeyId, state>>
    BY <2>1 DEF Write
  <2>3. /\ stored' \in [Fields -> Cells] /\ sessionValues' \in [Fields -> Values \cup {NoValue}]
        /\ saved' \in [Fields -> Values \cup {NoValue}]
        /\ SessionClean' /\ Contents' /\ Keys'
    BY <1>1, <1>3, <2>1, WriteInv
  <2>4. TypeOK'
    BY <1>1, <2>1, <2>2, <2>3 DEF Inv, TypeOK
  <2>5. InPhase'
    BY <1>1, <2>1, <2>2 DEF Inv, InPhase, Encrypting
  <2>. QED  BY <2>3, <2>4, <2>5 DEF Inv
<1>. QED  BY <1>2, <1>3

LEMMA SaveGoesOnInv ==
  ASSUME Inv, NEW f \in Fields, NEW v \in Values, SaveGoesOn(f, v)
  PROVE  Inv'
<1>1. /\ <<f, v>> \in pending /\ ~creating /\ pending' = pending \ {<<f, v>>} /\ Write(f, v)
      /\ UNCHANGED <<phase, creating, asked>>
  BY DEF SaveGoesOn
<1>2. UNCHANGED <<storedKeys, legacyRetired, keychain, keys, currentKeyId, state>>
  BY <1>1 DEF Write
<1>3. state # "none" /\ phase \in {"loaded", "on"}
  BY <1>1 DEF Inv, InPhase, TypeOK
<1>4. phase = "on"
  BY <1>1, <1>3 DEF Inv, InPhase
<1>5. /\ stored' \in [Fields -> Cells] /\ sessionValues' \in [Fields -> Values \cup {NoValue}]
      /\ saved' \in [Fields -> Values \cup {NoValue}]
      /\ SessionClean' /\ Contents' /\ Keys'
  BY <1>1, <1>3, <1>4, WriteInv
<1>6. TypeOK'
  BY <1>1, <1>2, <1>5 DEF Inv, TypeOK
<1>7. InPhase'
  BY <1>1, <1>2, <1>3 DEF Inv, InPhase, Encrypting
<1>. QED  BY <1>5, <1>6, <1>7 DEF Inv

\* The wrap the keychain answers with for a new key.
LEMMA NewWrap ==
  ASSUME NEW chain \in Keychains \ {Refuses}, NEW w, w = [by |-> chain, weak |-> chain = Weak]
  PROVE  /\ w \in WrappedKey /\ w.by = chain /\ w.weak = (chain = Weak)
         /\ (WasWeak(w) <=> chain = Weak) /\ (w.by = Weak => w.weak)
<1>1. w.by = chain /\ w.weak = (chain = Weak) /\ (chain = Weak) \in BOOLEAN
  OBVIOUS
<1>2. w \in WrappedKey
  BY <1>1 DEF WrappedKey, Keychains
<1>. QED  BY <1>1, <1>2 DEF WasWeak

LEMMA KeyCreatedInv ==
  ASSUME Inv, NEW made \in BOOLEAN, KeyCreated(made)
  PROVE  Inv'
<1>1. /\ creating /\ creating' = FALSE
      /\ UNCHANGED <<stored, legacyRetired, phase, keychain, sessionValues, pending, asked, saved>>
  BY DEF KeyCreated
<1>2. state = "none" /\ phase # "off" /\ storedKeys = <<>> /\ MaxKeys \in Nat \ {0}
  BY <1>1, BoundsAssumption DEF Inv, InPhase
<1>3. /\ keys = {} /\ \A f \in Fields : ~IsEnvelope(stored[f])
      /\ \A f \in Fields : sessionValues[f] = NoValue
  BY <1>2, EmptySeq DEF Inv, TypeOK, Contents, Openable, SessionClean
<1>4. SavedIsStored' /\ SessionClean'
  BY <1>1, <1>3 DEF Inv, Contents, SavedIsStored, SessionClean
<1>5. Openable'
  BY <1>1, <1>3 DEF Openable
<1>6. CASE made /\ keychain # Refuses
  <2>. DEFINE w == [by |-> keychain, weak |-> keychain = Weak]
  <2>1. /\ storedKeys' = Append(storedKeys, w) /\ keys' = keys \cup {Len(storedKeys')}
        /\ currentKeyId' = Len(storedKeys') /\ state' = StateUnder(storedKeys'[Len(storedKeys')])
    BY <1>6 DEF KeyCreated, Stored
  <2>2. keychain \in Keychains \ {Refuses}
    BY <1>6 DEF Inv, TypeOK
  <2>3. w \in WrappedKey /\ (WasWeak(w) <=> w.by = Weak) /\ (w.by = Weak => w.weak)
    BY <2>2, NewWrap
  <2>. HIDE DEF w
  <2>4. /\ storedKeys' \in Seq(WrappedKey) /\ Len(storedKeys') = 1 /\ storedKeys'[1] = w
    BY <1>2, <2>1, <2>3, EmptySeq, AppendProperties
  <2>5. keys' = {1} /\ currentKeyId' = 1 /\ state' = StateUnder(w)
    BY <1>3, <2>1, <2>4
  <2>6. state' \in {"weak", "ready"} /\ (state' = "weak" => WasWeak(w))
    BY <2>3, <2>5 DEF StateUnder
  <2>7. TypeOK'
    <3>1. /\ keys' \subseteq 1..Len(storedKeys') /\ currentKeyId' \in keys' \cup {0}
          /\ state' \in {"none", "ready", "weak", "locked", "unavailable"}
      BY <2>4, <2>5, <2>6
    <3>. QED  BY <1>1, <2>4, <3>1 DEF Inv, TypeOK
  <2>8. InPhase'
    BY <1>1, <1>2, <2>4, <2>5, <2>6 DEF Inv, InPhase
  <2>9. NoneInPlain' /\ (phase = "on" => \A f \in Fields : stored[f].at # "plain")
    BY <1>1, <1>2, <2>6 DEF Inv, Contents, NoneInPlain
  <2>10. SealedUnderCurrent'
    BY <1>1, <1>3, <2>9 DEF SealedUnderCurrent, NeedsSealing, CanOpen, IsEnvelope
  <2>11. Keys'
    BY <2>3, <2>4, <2>6 DEF Keys, Wraps, KeyringNotDowngraded
  <2>. QED  BY <1>4, <1>5, <2>7, <2>8, <2>9, <2>10, <2>11 DEF Inv, Contents
<1>7. CASE ~(made /\ keychain # Refuses)
  <2>1. state' = "unavailable" /\ UNCHANGED <<storedKeys, keys, currentKeyId>>
    BY <1>7 DEF KeyCreated
  <2>2. TypeOK'
    BY <1>1, <2>1 DEF Inv, TypeOK
  <2>3. InPhase'
    BY <1>1, <1>2, <2>1 DEF Inv, InPhase, Encrypting
  <2>4. NoneInPlain' /\ SealedUnderCurrent'
    BY <2>1 DEF NoneInPlain, SealedUnderCurrent, Encrypting
  <2>5. Keys'
    BY <2>1 DEF Inv, Keys, Wraps, KeyringNotDowngraded
  <2>. QED  BY <1>4, <1>5, <2>2, <2>3, <2>4, <2>5 DEF Inv, Contents
<1>. QED  BY <1>6, <1>7

LEMMA StartupAsksInv ==
  ASSUME Inv, StartupAsks
  PROVE  Inv'
<1>1. /\ phase = "loaded" /\ state = "none" /\ ~creating /\ creating' = TRUE /\ asked' = asked + 1
      /\ UNCHANGED <<disk, phase, session, state, pending, saved>>
  BY DEF StartupAsks, EnsureKey
<1>2. asked' \in 0..1
  BY <1>1 DEF Inv, InPhase
<1>3. TypeOK'
  BY <1>1, <1>2 DEF Inv, TypeOK, disk, session
<1>4. InPhase'
  BY <1>1 DEF Inv, InPhase, disk, session, Encrypting
<1>5. SessionClean' /\ SavedIsStored' /\ Openable' /\ NoneInPlain' /\ Keys'
  BY <1>1 DEF Inv, SessionClean, Contents, SavedIsStored, Openable, NoneInPlain,
              Keys, Wraps, KeyringNotDowngraded, disk, session
<1>6. SealedUnderCurrent'
  BY <1>1 DEF SealedUnderCurrent
<1>. QED  BY <1>3, <1>4, <1>5, <1>6 DEF Inv, Contents

\* The startup pass: each credential that needs it is sealed as what it reads.
LEMMA SealCredentialsInv ==
  ASSUME Inv, SealCredentials
  PROVE  Inv'
<1>. DEFINE needed == \E f \in Fields : NeedsSealing(stored[f])
<1>t. TypeOK /\ InPhase /\ stored \in [Fields -> Cells] /\ NoValue \notin Values
  BY KeychainsAssumption DEF Inv, TypeOK
<1>1. /\ phase = "loaded" /\ ~creating /\ (state = "none" => ~needed) /\ phase' = "on"
      /\ UNCHANGED <<storedKeys, session, state, creating, pending, asked, saved>>
  BY DEF SealCredentials
<1>2. InPhase' /\ SessionClean' /\ Keys'
  BY <1>1 DEF Inv, InPhase, SessionClean, Keys, Wraps, KeyringNotDowngraded, session, Encrypting
<1>3. CASE ~(needed /\ Encrypting)
  <2>1. UNCHANGED <<stored, legacyRetired>>
    BY <1>3 DEF SealCredentials
  <2>2. TypeOK'
    BY <1>1, <2>1 DEF Inv, TypeOK, session
  <2>3. SavedIsStored' /\ Openable'
    BY <1>1, <2>1 DEF Inv, Contents, SavedIsStored, Openable, session
  <2>4. NoneInPlain'
    BY <1>1, <2>1 DEF NoneInPlain, NeedsSealing
  <2>5. SealedUnderCurrent'
    BY <1>1, <1>3, <2>1 DEF SealedUnderCurrent, NeedsSealing, CanOpen, Encrypting, session
  <2>. QED  BY <1>2, <2>2, <2>3, <2>4, <2>5 DEF Inv, Contents
<1>4. CASE needed /\ Encrypting
  <2>1. /\ stored' = [f \in Fields |-> IF NeedsSealing(stored[f])
                                        THEN SealDoc(f, OpenDoc(f), stored[f]) ELSE stored[f]]
        /\ legacyRetired' = (legacyRetired \/ LegacyGone(stored'))
    BY <1>4 DEF SealCredentials
  <2>2. /\ currentKeyId \in keys /\ keys \subseteq 1..Len(storedKeys)
        /\ currentKeyId \in 1..MaxKeys /\ currentKeyId \in 1..Len(storedKeys)
    BY <1>4, <1>t, CurrentKey
  <2>3. state \in {"ready", "weak"}
    BY <1>4 DEF Encrypting
  <2>4. ASSUME NEW f \in Fields, NeedsSealing(stored[f])
        PROVE  /\ stored[f].v \in Values /\ stored[f] # Empty
               /\ stored'[f] = Envelope(currentKeyId, 2, stored[f].v)
    <3>1. stored[f].at \in {"plain", "envelope"}
      BY <2>4 DEF NeedsSealing, CanOpen, IsEnvelope
    <3>2. stored[f].v \in Values /\ stored[f] # Empty
      BY <1>t, <3>1, CellFacts, EmptyFacts
    <3>3. stored[f].at = "plain" \/ CanOpen(stored[f])
      BY <2>4 DEF NeedsSealing
    <3>4. sessionValues[f] = NoValue
      BY <2>3 DEF Inv, SessionClean
    <3>5. OpenDoc(f) = stored[f].v
      BY <2>3, <3>2, <3>3, <3>4 DEF OpenDoc, IsEnvelope
    <3>6. OpenDoc(f) \in Values \cup {NoValue} /\ OpenDoc(f) # NoValue
      BY <1>t, <3>2, <3>5
    <3>7. SealDoc(f, OpenDoc(f), stored[f]) = Envelope(currentKeyId, 2, OpenDoc(f))
      BY <1>4, <1>t, <3>6, SealDocFacts
    <3>. QED  BY <2>1, <2>4, <3>2, <3>5, <3>7
  <2>5. ASSUME NEW f \in Fields, ~NeedsSealing(stored[f]) PROVE stored'[f] = stored[f]
    BY <2>1, <2>5
  <2>6. ASSUME NEW f \in Fields, NeedsSealing(stored[f])
        PROVE  /\ stored'[f] \in Cells /\ stored'[f] # Empty /\ stored'[f].at = "envelope"
               /\ stored'[f].k = currentKeyId /\ stored'[f].enc = 2 /\ stored'[f].v = stored[f].v
    BY <2>2, <2>4, <2>6, EnvelopeFacts
  <2>7. stored' \in [Fields -> Cells] /\ legacyRetired' \in BOOLEAN
    <3>1. \A f \in Fields : stored'[f] \in Cells
      BY <1>t, <2>5, <2>6
    <3>2. LegacyGone(stored') \in BOOLEAN /\ legacyRetired \in BOOLEAN
      BY <1>t DEF LegacyGone, TypeOK
    <3>. QED  BY <2>1, <3>1, <3>2
  <2>8. TypeOK'
    BY <1>1, <2>7 DEF Inv, TypeOK, session
  <2>9. SavedIsStored'
    <3>1. ASSUME NEW f \in Fields
          PROVE  saved[f] = IF stored'[f] = Empty THEN NoValue ELSE stored'[f].v
      <4>1. saved[f] = IF stored[f] = Empty THEN NoValue ELSE stored[f].v
        BY DEF Inv, Contents, SavedIsStored
      <4>. QED  BY <2>4, <2>5, <2>6, <4>1
    <3>. QED  BY <1>1, <3>1 DEF SavedIsStored
  <2>10. Openable'
    <3>1. ASSUME NEW f \in Fields, IsEnvelope(stored'[f])
          PROVE  stored'[f].k \in 1..Len(storedKeys) /\ (legacyRetired' => stored'[f].enc = 2)
      <4>1. CASE NeedsSealing(stored[f])
        BY <2>2, <2>6, <4>1
      <4>2. CASE ~NeedsSealing(stored[f])
        BY <2>1, <2>5, <3>1, <4>2 DEF Inv, Contents, Openable, LegacyGone
      <4>. QED  BY <4>1, <4>2
    <3>. QED  BY <1>1, <3>1 DEF Openable, IsEnvelope
  <2>11. NoneInPlain'
    BY <1>1, <2>3 DEF NoneInPlain
  <2>12. SealedUnderCurrent'
    <3>1. ASSUME NEW f \in Fields
          PROVE  /\ stored'[f].at # "plain"
                 /\ IsEnvelope(stored'[f]) /\ stored'[f].k \in keys
                    /\ ~(stored'[f].enc = 1 /\ legacyRetired') =>
                    stored'[f].k = currentKeyId /\ stored'[f].enc # 1
      <4>1. CASE NeedsSealing(stored[f])
        BY <2>6, <4>1
      <4>2. CASE ~NeedsSealing(stored[f])
        BY <2>1, <2>5, <4>2 DEF NeedsSealing, CanOpen
      <4>. QED  BY <4>1, <4>2
    <3>2. UNCHANGED <<keys, currentKeyId>>
      BY <1>1 DEF session
    <3>. QED  BY <3>1, <3>2 DEF SealedUnderCurrent, NeedsSealing, CanOpen, IsEnvelope
  <2>. QED  BY <1>2, <2>8, <2>9, <2>10, <2>11, <2>12 DEF Inv, Contents
<1>. QED  BY <1>3, <1>4

LEMMA QuitInv ==
  ASSUME Inv, Quit
  PROVE  Inv'
<1>1. /\ phase' = "off" /\ state' = "none" /\ keychain' = Refuses /\ keys' = {} /\ currentKeyId' = 0
      /\ sessionValues' = [f \in Fields |-> NoValue] /\ creating' = FALSE /\ pending' = {}
      /\ asked' = 0 /\ UNCHANGED <<disk, saved>>
  BY DEF Quit
<1>2. TypeOK'
  <2>1. sessionValues' \in [Fields -> Values \cup {NoValue}] /\ Refuses \in Keychains
    BY <1>1 DEF Keychains
  <2>2. /\ keys' \subseteq 1..Len(storedKeys') /\ currentKeyId' \in keys' \cup {0}
        /\ pending' \subseteq Fields \X Values /\ asked' \in 0..1
    BY <1>1
  <2>. QED  BY <1>1, <2>1, <2>2 DEF Inv, TypeOK, disk
<1>3. InPhase'
  BY <1>1 DEF Inv, InPhase, disk, Encrypting
<1>4. SessionClean' /\ NoneInPlain' /\ SealedUnderCurrent'
  BY <1>1 DEF SessionClean, NoneInPlain, SealedUnderCurrent
<1>5. SavedIsStored' /\ Openable' /\ Keys'
  BY <1>1 DEF Inv, Contents, SavedIsStored, Openable, Keys, Wraps, KeyringNotDowngraded, disk
<1>. QED  BY <1>2, <1>3, <1>4, <1>5 DEF Inv, Contents

\* Among the keys that open one is the newest.
LEMMA NewestFacts ==
  ASSUME NEW n \in Nat, NEW opened \in SUBSET (1..n), opened # {}
  PROVE  /\ NewestUsable(opened) \in opened
         /\ \A j \in opened : j <= NewestUsable(opened)
<1>. DEFINE T == {n - i : i \in opened}
<1>1. T \in SUBSET Nat /\ T # {}
  <2>1. \A i \in opened : n - i \in Nat
    OBVIOUS
  <2>. QED  BY <2>1
<1>. HIDE DEF T
<1>2. PICK m \in T : \A k \in T : m <= k
  <2>. DEFINE R == OpToRel(<, Nat)
  <2>1. IsWellFoundedOn(R, Nat)
    BY NatLessThanWellFounded
  <2>2. \A a, b \in Nat : <<a, b>> \in R <=> a < b
    BY DEF OpToRel
  <2>. HIDE DEF R
  <2>3. \E x \in T : \A y \in T : ~ (<<y, x>> \in R)
    BY <1>1, <2>1, WFMin
  <2>4. PICK x \in T : \A y \in T : ~ (<<y, x>> \in R)
    BY <2>3
  <2>5. ASSUME NEW y \in T PROVE x <= y
    <3>1. x \in Nat /\ y \in Nat
      BY <1>1
    <3>2. ~(y < x)
      BY <2>2, <2>4, <3>1
    <3>. QED  BY <3>1, <3>2
  <2>. QED  BY <2>5
<1>. USE DEF T
<1>3. PICK i \in opened : m = n - i
  BY <1>2
<1>4. \A j \in opened : j <= i
  <2>. TAKE j \in opened
  <2>1. n - i <= n - j
    BY <1>2, <1>3
  <2>. QED  BY <2>1
<1>. QED  BY <1>4 DEF NewestUsable

\* What a launch does to the saved wraps and finds among them.
LEMMA LaunchInv ==
  ASSUME Inv, NEW chain \in Keychains, NEW answers \in 0..Len(storedKeys),
         NEW timedOut \in BOOLEAN, NEW made \in BOOLEAN,
         NEW rewrapped \in SUBSET {i \in 1..Len(storedKeys) : storedKeys[i].by = Weak},
         chain \notin Keyrings => rewrapped = {},
         Launch(chain, answers, timedOut, rewrapped, made)
  PROVE  Inv' /\ ((/\ \E i \in 1..Len(storedKeys) : storedKeys[i].by = chain /\ ~WasWeak(storedKeys[i])
                   /\ \A i \in 1..Len(storedKeys) : Unwraps(chain, storedKeys[i]) => i \in keys')
                  => state' = "ready")
<1>. DEFINE n == Len(storedKeys)
            opened == {i \in n - answers + 1..n : Unwraps(chain, storedKeys[i])}
            wraps == [i \in 1..n |-> IF i \in rewrapped \cap opened
                                       THEN [storedKeys[i] EXCEPT !.by = chain] ELSE storedKeys[i]]
            usable == NewestUsable(opened)
            adopts == opened # {} /\ StandsInFor(storedKeys[usable], storedKeys[n])
            fresh == /\ made /\ chain # Refuses /\ ~timedOut
                     /\ \/ adopts /\ WasWeak(storedKeys[usable]) /\ chain # Weak
                        \/ opened = {} /\ StartsOver(chain, storedKeys[n])
            w == [by |-> chain, weak |-> chain = Weak]
<1>t. /\ TypeOK /\ InPhase /\ storedKeys \in Seq(WrappedKey) /\ n \in Nat
      /\ MaxKeys \in Nat \ {0} /\ Weak \notin Keyrings /\ Refuses \notin Keyrings \cup {Weak}
      /\ \A i \in 1..n : storedKeys[i] \in WrappedKey
  BY LenProperties, ElementOfSeq, KeychainsAssumption, BoundsAssumption DEF Inv, TypeOK
<1>1. /\ phase = "off" /\ phase' = "loaded" /\ n < MaxKeys /\ keychain' = chain /\ asked' = 0
      /\ sessionValues' = [f \in Fields |-> NoValue]
      /\ UNCHANGED <<stored, legacyRetired, creating, pending, saved>>
      /\ Load(chain, answers, timedOut, rewrapped, made)
  BY DEF Launch
<1>2. ~creating /\ pending = {}
  BY <1>1 DEF Inv, InPhase
<1>w. /\ \A i \in 1..n : storedKeys[i].by = Weak => storedKeys[i].weak
      /\ \A i, j \in 1..n : i < j /\ ~WasWeak(storedKeys[i]) => ~WasWeak(storedKeys[j])
  BY DEF Inv, Keys, Wraps
<1>3. ASSUME storedKeys' \in Seq(WrappedKey), Len(storedKeys') <= MaxKeys, n <= Len(storedKeys'),
             keys' \subseteq 1..Len(storedKeys'), currentKeyId' \in keys' \cup {0},
             \/ state' = "none" /\ storedKeys' = <<>>
             \/ state' = "locked"
             \/ state' \in {"ready", "weak"} /\ currentKeyId' \in keys',
             Keys'
      PROVE  Inv'
  <2>1. sessionValues' \in [Fields -> Values \cup {NoValue}]
    BY <1>1
  <2>2. state' \in {"none", "ready", "weak", "locked", "unavailable"}
    BY <1>3
  <2>3. TypeOK'
    BY <1>1, <1>2, <1>3, <2>1, <2>2 DEF Inv, TypeOK
  <2>4. InPhase'
    BY <1>1, <1>2, <1>3 DEF InPhase, Encrypting
  <2>5. SessionClean' /\ NoneInPlain' /\ SealedUnderCurrent'
    BY <1>1 DEF SessionClean, NoneInPlain, SealedUnderCurrent
  <2>6. SavedIsStored'
    BY <1>1 DEF Inv, Contents, SavedIsStored
  <2>7. Openable'
    <3>1. 1..n \subseteq 1..Len(storedKeys')
      BY <1>t, <1>3, LenProperties
    <3>. QED  BY <1>1, <3>1 DEF Inv, Contents, Openable
  <2>. QED  BY <1>3, <2>3, <2>4, <2>5, <2>6, <2>7 DEF Inv, Contents
<1>4. CASE n = 0
  <2>1. state' = "none" /\ keys' = {} /\ currentKeyId' = 0 /\ UNCHANGED storedKeys
    BY <1>1, <1>4 DEF Load
  <2>2. storedKeys = <<>>
    BY <1>4, <1>t, EmptySeq
  <2>3. Keys'
    BY <2>1, <2>2, <1>4 DEF Keys, Wraps, KeyringNotDowngraded
  <2>4. Inv'
    BY <1>1, <1>3, <1>4, <1>t, <2>1, <2>2, <2>3
  <2>. QED  BY <1>4, <2>4
<1>5. CASE n # 0
  <2>1. /\ storedKeys' = IF fresh THEN Append(wraps, w) ELSE wraps
        /\ keys' = IF fresh THEN opened \cup {n + 1} ELSE opened
        /\ currentKeyId' = IF fresh THEN n + 1 ELSE IF adopts THEN usable ELSE 0
        /\ state' = IF fresh \/ adopts THEN StateUnder(storedKeys'[currentKeyId']) ELSE "locked"
    BY <1>1, <1>5 DEF Load, Stored
  <2>2. opened \in SUBSET (1..n) /\ (opened # {} => usable \in opened /\ \A j \in opened : j <= usable)
    <3>1. opened \in SUBSET (1..n)
      BY <1>t
    <3>. QED  BY <1>t, <3>1, NewestFacts
  <2>3. fresh => chain \in Keychains \ {Refuses}
    OBVIOUS
  <2>4. opened # {} => chain # Refuses
    BY DEF Unwraps
  <2>5. ASSUME NEW i \in 1..n
        PROVE  /\ wraps[i] \in WrappedKey /\ (WasWeak(wraps[i]) <=> WasWeak(storedKeys[i]))
               /\ (wraps[i].by = Weak => wraps[i].weak /\ storedKeys[i].by = Weak)
    <3>1. CASE i \in rewrapped \cap opened
      <4>1. chain \in Keyrings /\ storedKeys[i].by = Weak /\ storedKeys[i].weak
        BY <1>w, <3>1
      <4>2. /\ wraps[i] = [storedKeys[i] EXCEPT !.by = chain] /\ storedKeys[i] \in WrappedKey
        BY <1>t, <3>1
      <4>3. wraps[i].by = chain /\ wraps[i].weak = storedKeys[i].weak /\ wraps[i] \in WrappedKey
        BY <4>1, <4>2 DEF WrappedKey
      <4>. QED  BY <1>t, <4>1, <4>3 DEF WasWeak
    <3>2. CASE i \notin rewrapped \cap opened
      BY <1>t, <1>w, <3>2
    <3>. QED  BY <3>1, <3>2
  <2>6. wraps \in Seq(WrappedKey) /\ Len(wraps) = n
    BY <1>t, <2>5
  <2>. HIDE DEF wraps
  <2>7. CASE fresh
    <3>1. chain \in Keychains \ {Refuses}
      BY <2>7
    <3>2. w \in WrappedKey /\ w.by = chain /\ (WasWeak(w) <=> chain = Weak) /\ (w.by = Weak => w.weak)
      BY <3>1, NewWrap
    <3>3. opened # {} => chain # Weak /\ WasWeak(storedKeys[usable])
      BY <2>7
    <3>4. opened = {} => WasWeak(storedKeys[n]) \/ chain # Weak
      BY <2>7 DEF StartsOver
    <3>. HIDE DEF w, fresh, opened, adopts, usable
    <3>5. /\ storedKeys' \in Seq(WrappedKey) /\ Len(storedKeys') = n + 1
          /\ storedKeys'[n + 1] = w /\ \A i \in 1..n : storedKeys'[i] = wraps[i]
      BY <2>1, <2>6, <2>7, <3>2, AppendProperties
    <3>6. keys' = opened \cup {n + 1} /\ currentKeyId' = n + 1 /\ state' = StateUnder(w)
      BY <2>1, <2>7, <3>5
    <3>7. state' \in {"ready", "weak"} /\ (state' = "weak" => chain = Weak)
      BY <3>2, <3>6 DEF StateUnder
    <3>8. chain = Weak => \A i \in 1..n : WasWeak(storedKeys[i])
      <4>. SUFFICES ASSUME chain = Weak, NEW i \in 1..n, ~WasWeak(storedKeys[i]) PROVE FALSE
        OBVIOUS
      <4>1. WasWeak(storedKeys[n])
        BY <3>3, <3>4
      <4>2. i < n \/ i = n
        BY <1>t
      <4>. QED  BY <1>5, <1>t, <1>w, <4>1, <4>2
    <3>9. Wraps'
      <4>1. ASSUME NEW i \in 1..n + 1, storedKeys'[i].by = Weak PROVE storedKeys'[i].weak
        <5>1. CASE i = n + 1
          BY <3>2, <3>5, <4>1, <5>1
        <5>2. CASE i # n + 1
          <6>1. i \in 1..n
            BY <1>t, <5>2
          <6>. QED  BY <2>5, <3>5, <4>1, <6>1
        <5>. QED  BY <5>1, <5>2
      <4>2. ASSUME NEW i \in 1..n + 1, NEW j \in 1..n + 1, i < j, ~WasWeak(storedKeys'[i])
            PROVE  ~WasWeak(storedKeys'[j])
        <5>1. i \in 1..n
          BY <1>t, <4>2
        <5>2. ~WasWeak(storedKeys[i])
          BY <2>5, <3>5, <4>2, <5>1
        <5>3. CASE j = n + 1
          BY <3>2, <3>5, <3>8, <5>1, <5>2, <5>3
        <5>4. CASE j # n + 1
          <6>1. j \in 1..n
            BY <1>t, <5>4
          <6>2. ~WasWeak(storedKeys[j])
            BY <1>w, <4>2, <5>1, <5>2, <6>1
          <6>. QED  BY <2>5, <3>5, <6>1, <6>2
        <5>. QED  BY <5>3, <5>4
      <4>. QED  BY <3>5, <4>1, <4>2 DEF Wraps
    <3>10. KeyringNotDowngraded'
      <4>1. ASSUME state' = "weak", NEW i \in 1..n + 1 PROVE WasWeak(storedKeys'[i])
        <5>1. CASE i = n + 1
          BY <3>2, <3>5, <3>7, <4>1, <5>1
        <5>2. CASE i # n + 1
          <6>1. i \in 1..n
            BY <1>t, <5>2
          <6>. QED  BY <2>5, <3>5, <3>7, <3>8, <4>1, <6>1
        <5>. QED  BY <5>1, <5>2
      <4>. QED  BY <3>5, <4>1 DEF KeyringNotDowngraded
    <3>11. Inv'
      <4>1. /\ Len(storedKeys') <= MaxKeys /\ n <= Len(storedKeys')
            /\ keys' \subseteq 1..Len(storedKeys') /\ currentKeyId' \in keys'
        BY <1>1, <1>t, <2>2, <3>5, <3>6
      <4>. QED  BY <1>3, <3>5, <3>7, <3>9, <3>10, <4>1 DEF Keys
    <3>12. ASSUME NEW i \in 1..n, storedKeys[i].by = chain, ~WasWeak(storedKeys[i]),
                  \A j \in 1..n : Unwraps(chain, storedKeys[j]) => j \in keys'
           PROVE  state' = "ready"
      <4>1. chain # Weak
        BY <3>12 DEF WasWeak
      <4>. QED  BY <3>7, <4>1
    <3>. QED  BY <3>11, <3>12
  <2>8. CASE ~fresh /\ adopts
    <3>1. /\ storedKeys' = wraps /\ keys' = opened /\ currentKeyId' = usable
          /\ state' = StateUnder(wraps[usable]) /\ usable \in opened /\ usable \in 1..n
      BY <2>1, <2>2, <2>8
    <3>2. WasWeak(storedKeys[usable]) => WasWeak(storedKeys[n])
      BY <2>8 DEF StandsInFor
    <3>u. \A j \in opened : j <= usable
      BY <2>2, <3>1
    <3>o. \A i \in opened : i \in 1..n
      BY <2>2
    <3>. HIDE DEF fresh, opened, adopts, usable
    <3>3. state' \in {"ready", "weak"} /\ (state' = "weak" => storedKeys[usable].by = Weak)
      BY <2>5, <3>1 DEF StateUnder
    <3>4. Wraps'
      BY <1>w, <2>5, <2>6, <3>1 DEF Wraps
    <3>5. KeyringNotDowngraded'
      <4>1. ASSUME state' = "weak", NEW i \in 1..n PROVE WasWeak(wraps[i])
        <5>1. WasWeak(storedKeys[n])
          BY <3>2, <3>3, <4>1 DEF WasWeak
        <5>2. i < n \/ i = n
          BY <1>t
        <5>3. WasWeak(storedKeys[i])
          BY <1>5, <1>t, <1>w, <5>1, <5>2
        <5>. QED  BY <2>5, <5>3
      <4>. QED  BY <2>6, <3>1, <4>1 DEF KeyringNotDowngraded
    <3>6. Inv'
      <4>1. /\ storedKeys' \in Seq(WrappedKey) /\ Len(storedKeys') <= MaxKeys /\ n <= Len(storedKeys')
            /\ keys' \subseteq 1..Len(storedKeys') /\ currentKeyId' \in keys'
        BY <1>1, <1>t, <2>2, <2>6, <3>1
      <4>. QED  BY <1>3, <3>3, <3>4, <3>5, <4>1 DEF Keys
    <3>7. ASSUME NEW i \in 1..n, storedKeys[i].by = chain, ~WasWeak(storedKeys[i]),
                 \A j \in 1..n : Unwraps(chain, storedKeys[j]) => j \in keys'
          PROVE  state' = "ready"
      <4>1. chain # Refuses /\ Unwraps(chain, storedKeys[i])
        <5>1. storedKeys[i].by \in Keyrings \cup {Weak}
          BY <1>t DEF WrappedKey
        <5>. QED  BY <1>t, <3>7, <5>1 DEF Unwraps
      <4>2. i \in opened
        BY <3>1, <3>7, <4>1
      <4>3. ~WasWeak(storedKeys[usable])
        <5>1. i < usable \/ i = usable
          BY <1>t, <3>1, <3>u, <4>2
        <5>. QED  BY <1>w, <3>1, <3>7, <5>1
      <4>. QED  BY <3>3, <4>3 DEF WasWeak
    <3>. QED  BY <3>6, <3>7
  <2>9. CASE ~fresh /\ ~adopts
    <3>1. storedKeys' = wraps /\ keys' = opened /\ currentKeyId' = 0 /\ state' = "locked"
      BY <2>1, <2>9
    <3>a. opened # {} => ~(WasWeak(storedKeys[usable]) => WasWeak(storedKeys[n])) /\ usable \in 1..n
      BY <2>2, <2>9 DEF StandsInFor
    <3>b. opened # {} => \A j \in opened : j <= usable
      BY <2>2
    <3>. HIDE DEF fresh, opened, adopts, usable
    <3>2. Keys'
      BY <1>w, <2>5, <2>6, <3>1 DEF Keys, Wraps, KeyringNotDowngraded
    <3>3. Inv'
      <4>1. /\ storedKeys' \in Seq(WrappedKey) /\ Len(storedKeys') <= MaxKeys /\ n <= Len(storedKeys')
            /\ keys' \subseteq 1..Len(storedKeys')
        BY <1>1, <1>t, <2>2, <2>6, <3>1
      <4>. QED  BY <1>3, <3>1, <3>2, <4>1
    <3>4. ASSUME NEW i \in 1..n, storedKeys[i].by = chain, ~WasWeak(storedKeys[i]),
                 \A j \in 1..n : Unwraps(chain, storedKeys[j]) => j \in keys'
          PROVE  FALSE
      <4>1. chain # Refuses /\ Unwraps(chain, storedKeys[i])
        <5>1. storedKeys[i].by \in Keyrings \cup {Weak}
          BY <1>t DEF WrappedKey
        <5>. QED  BY <1>t, <3>4, <5>1 DEF Unwraps
      <4>2. i \in opened
        BY <3>1, <3>4, <4>1
      <4>3. i <= usable
        BY <3>b, <4>2
      <4>4. i < usable \/ i = usable
        BY <1>t, <3>a, <4>2, <4>3
      <4>. QED  BY <1>w, <3>4, <3>a, <4>2, <4>4
    <3>. QED  BY <3>3, <3>4
  <2>. QED  BY <2>7, <2>8, <2>9
<1>. QED  BY <1>4, <1>5

-----------------------------------------------------------------------------
LEMMA InitInv ==
  ASSUME Init
  PROVE  Inv
<1>t. NoValue \notin Values /\ Refuses \notin Keyrings \cup {Weak} /\ Weak \notin Keyrings
      /\ MaxKeys \in Nat \ {0}
  BY KeychainsAssumption, BoundsAssumption
<1>1. /\ legacyRetired = FALSE /\ phase = "off" /\ keychain = Refuses /\ state = "none"
      /\ keys = {} /\ currentKeyId = 0 /\ sessionValues = [f \in Fields |-> NoValue]
      /\ creating = FALSE /\ pending = {} /\ asked = 0
      /\ saved = [f \in Fields |-> IF stored[f] = Empty THEN NoValue ELSE stored[f].v]
  BY DEF Init
<1>2. /\ storedKeys \in Seq(WrappedKey) /\ Len(storedKeys) <= MaxKeys
      /\ stored \in [Fields -> Cells] /\ Openable /\ Wraps
  <2>1. CASE storedKeys = <<>> /\ stored \in [Fields -> {Empty} \cup {Plain(v) : v \in Values}]
    <3>1. storedKeys \in Seq(WrappedKey) /\ Len(storedKeys) = 0
      BY <2>1, EmptySeq
    <3>2. stored \in [Fields -> Cells]
      BY <2>1 DEF Cells
    <3>3. \A f \in Fields : stored[f].at # "envelope"
      BY <2>1 DEF Empty, Plain
    <3>. QED  BY <1>t, <3>1, <3>2, <3>3 DEF Openable, IsEnvelope, Wraps
  <2>2. CASE /\ \E by \in Keyrings \cup {Weak} : storedKeys = <<[by |-> by, weak |-> by = Weak]>>
             /\ stored \in [Fields -> {Empty} \cup {Envelope(1, 1, v) : v \in Values}]
    <3>1. PICK by \in Keyrings \cup {Weak} : storedKeys = <<[by |-> by, weak |-> by = Weak]>>
      BY <2>2
    <3>. DEFINE w == [by |-> by, weak |-> by = Weak]
    <3>2. w \in WrappedKey /\ (w.by = Weak => w.weak)
      BY DEF WrappedKey
    <3>. HIDE DEF w
    <3>3. storedKeys = <<w>>
      BY <3>1 DEF w
    <3>4. storedKeys \in Seq(WrappedKey) /\ Len(storedKeys) = 1 /\ storedKeys[1] = w
      BY <3>2, <3>3
    <3>5. 1 \in 1..MaxKeys /\ 1 \in 1..2
      BY <1>t
    <3>6. stored \in [Fields -> Cells]
      BY <2>2, <3>5 DEF Cells
    <3>7. \A f \in Fields : stored[f].at = "envelope" => stored[f].k = 1
      BY <2>2 DEF Empty, Envelope
    <3>8. Openable
      BY <1>1, <3>4, <3>7 DEF Openable, IsEnvelope
    <3>9. Wraps
      BY <3>2, <3>4 DEF Wraps
    <3>. QED  BY <1>t, <3>4, <3>6, <3>8, <3>9
  <2>. QED  BY <2>1, <2>2 DEF Init
<1>3. saved \in [Fields -> Values \cup {NoValue}]
  <2>1. ASSUME NEW f \in Fields, stored[f] # Empty PROVE stored[f].v \in Values
    <3>1. stored[f] \in Cells
      BY <1>2
    <3>. QED  BY <2>1, <3>1, CellFacts
  <2>. QED  BY <1>1, <2>1
<1>4. TypeOK
  <2>1. /\ keys \subseteq 1..Len(storedKeys) /\ currentKeyId \in keys \cup {0}
        /\ sessionValues \in [Fields -> Values \cup {NoValue}] /\ keychain \in Keychains
        /\ pending \subseteq Fields \X Values /\ asked \in 0..1
    BY <1>1 DEF Keychains
  <2>. QED  BY <1>1, <1>2, <1>3, <2>1 DEF TypeOK
<1>5. InPhase /\ SessionClean
  BY <1>1, <1>2 DEF InPhase, SessionClean, Encrypting
<1>6. Contents /\ Keys
  BY <1>1, <1>2 DEF Contents, SavedIsStored, NoneInPlain, SealedUnderCurrent, Keys, KeyringNotDowngraded
<1>. QED  BY <1>4, <1>5, <1>6 DEF Inv

LEMMA StutterInv ==
  ASSUME Inv, UNCHANGED vars
  PROVE  Inv'
<1>1. UNCHANGED <<storedKeys, stored, legacyRetired, phase, keychain, state, keys, currentKeyId,
                  sessionValues, creating, pending, asked, saved>>
  BY DEF vars, disk, session
<1>2. TypeOK' /\ InPhase' /\ SessionClean'
  BY <1>1 DEF Inv, TypeOK, InPhase, SessionClean, Encrypting
<1>3. Contents'
  BY <1>1 DEF Inv, Contents, SavedIsStored, Openable, NoneInPlain, SealedUnderCurrent, Encrypting,
              NeedsSealing, CanOpen
<1>4. Keys'
  BY <1>1 DEF Inv, Keys, Wraps, KeyringNotDowngraded
<1>. QED  BY <1>2, <1>3, <1>4 DEF Inv

\* Every reachable state satisfies the inductive invariant.
THEOREM SpecInv == Spec => []Inv
<1>1. Inv /\ [Next]_vars => Inv'
  <2>. SUFFICES ASSUME Inv, [Next]_vars PROVE Inv'
    OBVIOUS
  <2>1. ASSUME NEW chain \in Keychains, NEW answers \in 0..Len(storedKeys),
               NEW timedOut \in BOOLEAN, NEW made \in BOOLEAN,
               NEW rewrapped \in SUBSET {i \in 1..Len(storedKeys) : storedKeys[i].by = Weak},
               Launch(chain, answers, timedOut, IF chain \in Keyrings THEN rewrapped ELSE {}, made)
        PROVE  Inv'
    BY <2>1, LaunchInv
  <2>2. ASSUME NEW made \in BOOLEAN, KeyCreated(made) PROVE Inv'
    BY <2>2, KeyCreatedInv
  <2>3. CASE StartupAsks
    BY <2>3, StartupAsksInv
  <2>4. CASE SealCredentials
    BY <2>4, SealCredentialsInv
  <2>5. ASSUME NEW f \in Fields, NEW v \in Values \cup {NoValue}, Save(f, v) PROVE Inv'
    BY <2>5, SaveInv
  <2>6. ASSUME NEW f \in Fields, NEW v \in Values, SaveGoesOn(f, v) PROVE Inv'
    BY <2>6, SaveGoesOnInv
  <2>7. CASE Quit
    BY <2>7, QuitInv
  <2>8. CASE UNCHANGED vars
    BY <2>8, StutterInv
  <2>. QED  BY <2>1, <2>2, <2>3, <2>4, <2>5, <2>6, <2>7, <2>8 DEF Next
<1>. QED  BY <1>1, InitInv, PTL DEF Spec

\* A credential once on disk stays there, as saved, until it is replaced or,
\* while it reads, cleared; its key stays among the saved ones, and its
\* envelope is of a version that is opened (sealDoc, the startup pass, load).
THEOREM NothingIsLost == Spec => []NothingLost
<1>1. Inv => NothingLost
  <2>. SUFFICES ASSUME Inv PROVE NothingLost
    OBVIOUS
  <2>1. ASSUME NEW f \in Fields, saved[f] # NoValue PROVE stored[f] # Empty /\ stored[f].v = saved[f]
    BY <2>1 DEF Inv, Contents, SavedIsStored
  <2>2. ASSUME NEW f \in Fields, IsEnvelope(stored[f])
        PROVE  stored[f].k \in 1..Len(storedKeys) /\ (legacyRetired => stored[f].enc = 2)
    BY <2>2 DEF Inv, Contents, Openable
  <2>. QED  BY <2>1, <2>2 DEF Inv, NothingLost
<1>. QED  BY <1>1, SpecInv, PTL

\* While credentials can be sealed, what opens reads as it was last saved.
THEOREM ReadsBackAlways == Spec => []ReadsBack
<1>1. Inv => ReadsBack
  <2>. SUFFICES ASSUME Inv, Encrypting, NEW f \in Fields, IsEnvelope(stored[f]), stored[f].k \in keys
                PROVE  OpenDoc(f) = saved[f]
    BY DEF ReadsBack
  <2>1. sessionValues[f] = NoValue /\ state \in {"ready", "weak"}
    BY DEF Inv, SessionClean, Encrypting
  <2>2. stored[f] # Empty
    BY EmptyFacts DEF IsEnvelope
  <2>3. CanOpen(stored[f])
    BY DEF Inv, Contents, Openable, CanOpen
  <2>4. saved[f] = stored[f].v
    BY <2>2 DEF Inv, Contents, SavedIsStored
  <2>. QED  BY <2>1, <2>2, <2>3, <2>4 DEF OpenDoc
<1>. QED  BY <1>1, SpecInv, PTL

\* Past the startup pass, nothing that can be sealed is left in plaintext, under
\* an older key that opens, or in a version 1 envelope that does.
THEOREM AllSealed == Spec => []SealedUnderCurrent
BY SpecInv, PTL DEF Inv, Contents

\* With a keyring's key among the saved ones, nothing is sealed under a key that
\* is only obfuscated, whatever the keychain does on each launch.
THEOREM NotDowngraded == Spec => []KeyringNotDowngraded
BY SpecInv, PTL DEF Inv, Keys

\* No step writes a credential in plaintext.
THEOREM NeverInPlain == Spec => NoNewPlaintext
<1>1. Inv /\ [Next]_vars => [\A f \in Fields : stored'[f].at = "plain" => stored'[f] = stored[f]]_vars
  <2>. SUFFICES ASSUME Inv, [Next]_vars, NEW f \in Fields, stored'[f].at = "plain"
                PROVE  stored'[f] = stored[f]
    OBVIOUS
  <2>t. TypeOK /\ InPhase /\ stored \in [Fields -> Cells]
    BY DEF Inv, TypeOK
  <2>0. ASSUME NEW g \in Fields, NEW v \in Values \cup {NoValue}, SealDoc(g, v, stored[g]).at = "plain"
        PROVE  SealDoc(g, v, stored[g]) = stored[g]
    <3>1. CASE v # NoValue /\ Encrypting
      <4>1. v \in Values /\ currentKeyId \in 1..MaxKeys
        BY <2>t, <3>1, CurrentKey
      <4>2. SealDoc(g, v, stored[g]) = Envelope(currentKeyId, 2, v)
        BY <2>t, <3>1, SealDocFacts
      <4>3. Envelope(currentKeyId, 2, v).at = "envelope"
        BY <4>1, EnvelopeFacts
      <4>. QED  BY <2>0, <4>2, <4>3
    <3>2. CASE v # NoValue /\ ~Encrypting
      BY <2>t, <3>2, SealDocFacts
    <3>3. CASE v = NoValue
      <4>1. SealDoc(g, v, stored[g]) \in {stored[g], Empty}
        BY <2>t, <3>3, SealDocFacts
      <4>. QED  BY <2>0, <4>1, EmptyFacts
    <3>. QED  BY <3>1, <3>2, <3>3
  <2>w. ASSUME NEW g \in Fields, NEW v \in Values \cup {NoValue}, Write(g, v)
        PROVE  stored'[f] = stored[f]
    <3>1. stored' = [stored EXCEPT ![g] = SealDoc(g, v, stored[g])]
      BY <2>w DEF Write
    <3>. QED  BY <2>0, <2>t, <3>1
  <2>1. ASSUME NEW chain, NEW answers, NEW timedOut, NEW made, NEW rewrapped,
               Launch(chain, answers, timedOut, rewrapped, made)
        PROVE  UNCHANGED stored
    BY <2>1 DEF Launch
  <2>2. ASSUME NEW made, KeyCreated(made) PROVE UNCHANGED stored
    BY <2>2 DEF KeyCreated
  <2>3. CASE StartupAsks
    BY <2>3 DEF StartupAsks, disk
  <2>4. CASE SealCredentials
    <3>1. CASE UNCHANGED stored
      BY <3>1
    <3>2. CASE ~UNCHANGED stored
      <4>1. /\ stored' = [g \in Fields |-> IF NeedsSealing(stored[g])
                                            THEN SealDoc(g, OpenDoc(g), stored[g]) ELSE stored[g]]
            /\ Encrypting
        BY <2>4, <3>2 DEF SealCredentials
      <4>2. CASE ~NeedsSealing(stored[f])
        BY <4>1, <4>2
      <4>3. CASE NeedsSealing(stored[f])
        <5>1. OpenDoc(f) \in Values \cup {NoValue}
          <6>1. stored[f] \in Cells /\ sessionValues[f] \in Values \cup {NoValue}
            BY <2>t DEF TypeOK
          <6>2. stored[f] # Empty => stored[f].v \in Values
            BY <6>1, CellFacts
          <6>. QED  BY <6>1, <6>2 DEF OpenDoc
        <5>2. stored'[f] = SealDoc(f, OpenDoc(f), stored[f])
          BY <4>1, <4>3
        <5>. QED  BY <2>0, <5>1, <5>2
      <4>. QED  BY <4>2, <4>3
    <3>. QED  BY <3>1, <3>2
  <2>5. ASSUME NEW g \in Fields, NEW v \in Values \cup {NoValue}, Save(g, v)
        PROVE  stored'[f] = stored[f]
    <3>1. CASE Write(g, v)
      BY <2>w, <3>1
    <3>2. CASE UNCHANGED disk
      BY <3>2 DEF disk
    <3>. QED  BY <2>5, <3>1, <3>2 DEF Save
  <2>6. ASSUME NEW g \in Fields, NEW v \in Values, SaveGoesOn(g, v) PROVE stored'[f] = stored[f]
    BY <2>6, <2>w DEF SaveGoesOn
  <2>7. CASE Quit
    BY <2>7 DEF Quit, disk
  <2>8. CASE UNCHANGED vars
    BY <2>8 DEF vars, disk
  <2>. QED  BY <2>1, <2>2, <2>3, <2>4, <2>5, <2>6, <2>7, <2>8 DEF Next
<1>. QED  BY <1>1, SpecInv, PTL DEF Spec, NoNewPlaintext

\* A keyring that wrapped a key of its own and answers for all it opens is used
\* again by load, whatever launches came between.
THEOREM ComesBack == Spec => KeyringComesBack
<1>. DEFINE Back == phase = "off" /\ phase' = "loaded"
                      /\ (\E i \in 1..Len(storedKeys) :
                            storedKeys[i].by = keychain' /\ ~WasWeak(storedKeys[i]))
                      /\ (\A i \in 1..Len(storedKeys) : Unwraps(keychain', storedKeys[i]) => i \in keys')
                    => state' = "ready"
<1>1. Inv /\ [Next]_vars => [Back]_vars
  <2>. SUFFICES ASSUME Inv, [Next]_vars, phase = "off", phase' = "loaded",
                       \E i \in 1..Len(storedKeys) : storedKeys[i].by = keychain' /\ ~WasWeak(storedKeys[i]),
                       \A i \in 1..Len(storedKeys) : Unwraps(keychain', storedKeys[i]) => i \in keys'
                PROVE  state' = "ready"
    OBVIOUS
  <2>1. ASSUME NEW chain \in Keychains, NEW answers \in 0..Len(storedKeys),
               NEW timedOut \in BOOLEAN, NEW made \in BOOLEAN,
               NEW rewrapped \in SUBSET {i \in 1..Len(storedKeys) : storedKeys[i].by = Weak},
               Launch(chain, answers, timedOut, IF chain \in Keyrings THEN rewrapped ELSE {}, made)
        PROVE  state' = "ready"
    <3>1. keychain' = chain
      BY <2>1 DEF Launch
    <3>2. (IF chain \in Keyrings THEN rewrapped ELSE {})
             \in SUBSET {i \in 1..Len(storedKeys) : storedKeys[i].by = Weak}
      OBVIOUS
    <3>. QED  BY <2>1, <3>1, <3>2, LaunchInv
  <2>2. ASSUME NEW made \in BOOLEAN, KeyCreated(made) PROVE FALSE
    BY <2>2 DEF KeyCreated
  <2>3. ~StartupAsks /\ ~SealCredentials
    BY DEF StartupAsks, SealCredentials
  <2>4. ASSUME NEW f \in Fields, NEW v \in Values \cup {NoValue}, Save(f, v) PROVE FALSE
    BY <2>4 DEF Save
  <2>5. ASSUME NEW f \in Fields, NEW v \in Values, SaveGoesOn(f, v) PROVE FALSE
    BY <2>5 DEF SaveGoesOn
  <2>6. ~Quit /\ ~UNCHANGED vars
    BY DEF Quit, vars
  <2>. QED  BY <2>1, <2>2, <2>3, <2>4, <2>5, <2>6 DEF Next
<1>. QED  BY <1>1, SpecInv, PTL DEF Spec, KeyringComesBack
=============================================================================
