-------------------------- MODULE CredentialGuard --------------------------
(***************************************************************************)
(* Credentials at rest, over several launches of the app: CredentialGuard  *)
(* (common/credential-guard.ts), the store that seals every write and      *)
(* opens every read with it (common/sqlite-store.ts), and the startup that *)
(* attaches it (database.init, common/database.ts).                        *)
(*                                                                         *)
(* A launch finds a keychain: a keyring of the user's, the weak fallback   *)
(* that only obfuscates, or one that refuses; and it may stop answering.   *)
(* Ciphertext is what it opens to and under which key; keys are numbered   *)
(* in the order they were made.                                            *)
(***************************************************************************)
EXTENDS Integers, Sequences

CONSTANTS
  Fields,     \* the credential fields of the docs
  Certs,      \* those that are a Workspace's legacy certificates
  Values,     \* what a credential may be
  NoValue,    \* an empty one
  Keyrings,   \* the keyrings the app may find on its launches
  Weak,       \* the keychain that only obfuscates (Linux without a keyring)
  Refuses,    \* a keychain that answers every call with an error
  MaxKeys,    \* bound: keys made
  MaxLaunches \* bound: launches

ASSUME CertsAssumption == Certs \subseteq Fields
ASSUME BoundsAssumption == MaxKeys \in Nat \ {0} /\ MaxLaunches \in Nat
ASSUME KeychainsAssumption ==
  Weak \notin Keyrings /\ Refuses \notin Keyrings \cup {Weak} /\ NoValue \notin Values

Keychains == Keyrings \cup {Weak, Refuses}

VARIABLES
  storedKeys,    \* meta: the keys' wraps, oldest first
  stored,        \* the docs' fields as they are on disk
  legacyRetired, \* meta: no version 1 envelope is left, and none opens
  phase,         \* "off", "loaded" (the startup pass to come) or "on"
  keychain,      \* what this launch's safeStorage answers with
  state,         \* the guard's state
  keys,          \* the keys opened this session
  currentKeyId,  \* the one that seals, 0 none
  sessionValues, \* credentials kept for the session only
  creating,      \* an ensureKey attempt is under way
  pending,       \* the saves that wait for it
  launches,      \* history: launches so far
  asked,         \* history: attempts to create a first key, this launch
  saved,         \* history: each field's last value put on disk
  entered        \* history: each field's value last saved this session

disk == <<storedKeys, stored, legacyRetired>>
session == <<keychain, keys, currentKeyId, sessionValues>>
vars == <<disk, phase, session, state, creating, pending, launches, asked, saved, entered>>

Empty == [at |-> "empty"]
Plain(v) == [at |-> "plain", v |-> v]
Envelope(k, version, v) == [at |-> "envelope", k |-> k, enc |-> version, v |-> v]
IsEnvelope(cell) == cell.at = "envelope"

Cells == {Empty} \cup {Plain(v) : v \in Values}
           \cup {Envelope(k, e, v) : k \in 1..MaxKeys, e \in 1..2, v \in Values}
WrappedKey == [by : Keyrings \cup {Weak}, weak : BOOLEAN]

NotEntered == [at |-> "not entered"]

TypeOK ==
  /\ storedKeys \in Seq(WrappedKey)
  /\ stored \in [Fields -> Cells]
  /\ legacyRetired \in BOOLEAN
  /\ phase \in {"off", "loaded", "on"}
  /\ keychain \in Keychains
  /\ state \in {"none", "ready", "weak", "locked", "unavailable"}
  /\ keys \subseteq 1..Len(storedKeys)
  /\ currentKeyId \in keys \cup {0}
  /\ sessionValues \in [Fields -> Values \cup {NoValue}]
  /\ creating \in BOOLEAN
  /\ pending \subseteq Fields \X Values
  /\ saved \in [Fields -> Values \cup {NoValue}]
  /\ asked \in 0..1   \* a first key is asked for once a launch

\* A data folder from before encryption, or from a version 1 that had one key.
Init ==
  /\ \/ storedKeys = <<>> /\ stored \in [Fields -> {Empty} \cup {Plain(v) : v \in Values}]
     \/ /\ \E by \in Keyrings \cup {Weak} : storedKeys = <<[by |-> by, weak |-> by = Weak]>>
        /\ stored \in [Fields -> {Empty} \cup {Envelope(1, 1, v) : v \in Values}]
  /\ legacyRetired = FALSE
  /\ phase = "off" /\ keychain = Refuses /\ state = "none"
  /\ keys = {} /\ currentKeyId = 0
  /\ sessionValues = [f \in Fields |-> NoValue]
  /\ creating = FALSE /\ pending = {} /\ launches = 0 /\ asked = 0
  /\ saved = [f \in Fields |-> IF stored[f] = Empty THEN NoValue ELSE stored[f].v]
  /\ entered = [f \in Fields |-> NotEntered]

-----------------------------------------------------------------------------
Encrypting == state \in {"ready", "weak"}

CanOpen(cell) ==
  IsEnvelope(cell) /\ cell.k \in keys /\ ~(cell.enc = 1 /\ legacyRetired)

\* openDoc: the plaintext view of a field.
OpenDoc(f) ==
  IF f \in Certs /\ state \in {"locked", "unavailable"} THEN NoValue
  ELSE IF sessionValues[f] # NoValue THEN sessionValues[f]
  ELSE IF stored[f] = Empty \/ (IsEnvelope(stored[f]) /\ ~CanOpen(stored[f])) THEN NoValue
  ELSE stored[f].v

\* History: the value on disk is one the user sees, and so may mean to clear.
Readable(f) ==
  /\ stored[f].at = "plain" \/ CanOpen(stored[f])
  /\ f \in Certs => state \notin {"locked", "unavailable"}

\* Mutants of SealDoc: an unreadable credential is cleared by the empty value it
\* reads as; ciphertext is kept whatever it holds; ciphertext of the same value is
\* kept under an older key; without a key the value is stored as it is.
SealDocForgets(f, v, before) ==
  IF v = NoValue THEN Empty
  ELSE IF Encrypting THEN Envelope(currentKeyId, 2, v) ELSE before
SealDocKeepsAny(f, v, before) ==
  IF v = NoValue THEN IF Encrypting /\ CanOpen(before) THEN Empty ELSE before
  ELSE IF Encrypting /\ ~CanOpen(before) THEN Envelope(currentKeyId, 2, v) ELSE before
SealDocKeepsOldKey(f, v, before) ==
  IF v = NoValue THEN before
  ELSE IF Encrypting /\ ~(CanOpen(before) /\ before.v = v)
    THEN Envelope(currentKeyId, 2, v) ELSE before
SealDocInPlain(f, v, before) ==
  IF v = NoValue THEN before
  ELSE IF Encrypting THEN Envelope(currentKeyId, 2, v) ELSE Plain(v)

\* sealDoc: what is stored of a field written as v, over what is there.
SealDoc(f, v, before) ==
  IF v = NoValue
    THEN IF \/ IsEnvelope(before) /\ ~CanOpen(before)
            \/ f \in Certs /\ ~Encrypting
         THEN before ELSE Empty
    ELSE IF ~Encrypting \/ (CanOpen(before) /\ before = Envelope(currentKeyId, 2, v))
      THEN before
      ELSE Envelope(currentKeyId, 2, v)

\* ... and of what the session keeps of it.
SessionValue(f, v, before) ==
  IF v = NoValue \/ Encrypting THEN NoValue
  ELSE IF before = Plain(v) THEN sessionValues[f] ELSE v

LegacyGone(cells) == \A f \in Fields : IsEnvelope(cells[f]) => cells[f].enc = 2

NeedsSealing(cell) ==
  \/ cell.at = "plain"
  \/ CanOpen(cell) /\ (cell.k # currentKeyId \/ cell.enc = 1)

-----------------------------------------------------------------------------
\* What a wrap opens with: its own keyring, and the fallback's built-in key
\* wherever the keychain answers at all.
Unwraps(chain, wrapped) == chain # Refuses /\ wrapped.by \in {chain, Weak}

\* A key that was ever only obfuscated stays suspect.
WasWeak(wrapped) == wrapped.weak \/ wrapped.by = Weak

\* newKey and store: appended, and adopted.
Stored(list, chain) == Append(list, [by |-> chain, weak |-> chain = Weak])
StateUnder(wrapped) == IF wrapped.by = Weak THEN "weak" ELSE "ready"

\* The newest key opened.
NewestUsable(opened) == CHOOSE i \in opened : \A j \in opened : j <= i

\* An obfuscated key doesn't stand in for a keyring's that can't be opened now.
StandsInForAny(wrapped, newest) == TRUE
StandsInFor(wrapped, newest) == WasWeak(wrapped) => WasWeak(newest)

\* None of the keys opens: a new one is made, but not by the fallback after a
\* keyring's, which is locked and not lost.
StartsOverAnyhow(chain, newest) == TRUE
StartsOver(chain, newest) == WasWeak(newest) \/ chain # Weak

\* load(): unwraps the keys, newest first.  `answers` of them get an answer
\* before the keychain stops; the keyring re-wraps some of those; `made`: a
\* new key, if one is asked for, is wrapped and opens again.
Load(chain, answers, timedOut, rewrapped, made) ==
  LET n == Len(storedKeys)
      opened == {i \in n - answers + 1..n : Unwraps(chain, storedKeys[i])}
      wraps == [i \in 1..n |-> IF i \in rewrapped \cap opened
                                 THEN [storedKeys[i] EXCEPT !.by = chain] ELSE storedKeys[i]]
      usable == NewestUsable(opened)
      adopts == opened # {} /\ StandsInFor(storedKeys[usable], storedKeys[n])
      fresh == /\ made /\ chain # Refuses /\ ~timedOut
               /\ \/ adopts /\ WasWeak(storedKeys[usable]) /\ chain # Weak
                  \/ opened = {} /\ StartsOver(chain, storedKeys[n])
  IN
  IF n = 0
    THEN /\ state' = "none" /\ keys' = {} /\ currentKeyId' = 0
         /\ UNCHANGED storedKeys
    ELSE /\ storedKeys' = IF fresh THEN Stored(wraps, chain) ELSE wraps
         /\ keys' = IF fresh THEN opened \cup {n + 1} ELSE opened
         /\ currentKeyId' = IF fresh THEN n + 1 ELSE IF adopts THEN usable ELSE 0
         /\ state' = IF fresh \/ adopts THEN StateUnder(storedKeys'[currentKeyId']) ELSE "locked"

Launch(chain, answers, timedOut, rewrapped, made) ==
  /\ phase = "off" /\ launches < MaxLaunches /\ Len(storedKeys) < MaxKeys
  /\ answers < Len(storedKeys) => timedOut
  /\ timedOut => Len(storedKeys) > 0
  /\ Load(chain, answers, timedOut, rewrapped, made)
  /\ phase' = "loaded" /\ keychain' = chain
  /\ sessionValues' = [f \in Fields |-> NoValue]
  /\ launches' = launches + 1 /\ asked' = 0
  /\ entered' = [f \in Fields |-> NotEntered]
  /\ UNCHANGED <<stored, legacyRetired, creating, pending, saved>>

-----------------------------------------------------------------------------
\* ensureKey: the first key, asked for once however many saves wait for it.
EnsureKey == creating' = TRUE /\ asked' = IF creating THEN asked ELSE asked + 1

\* The keychain's answer to that attempt.
KeyCreated(made) ==
  /\ creating /\ creating' = FALSE
  /\ IF made /\ keychain # Refuses
       THEN /\ storedKeys' = Stored(storedKeys, keychain)
            /\ keys' = keys \cup {Len(storedKeys')}
            /\ currentKeyId' = Len(storedKeys')
            /\ state' = StateUnder(storedKeys'[Len(storedKeys')])
       ELSE state' = "unavailable" /\ UNCHANGED <<storedKeys, keys, currentKeyId>>
  /\ UNCHANGED <<stored, legacyRetired, phase, keychain, sessionValues, pending, launches, asked,
                 saved, entered>>

\* The startup pass: saved credentials not sealed under the current key are
\* found, a first key is made for them if there is none, and they are sealed in
\* one transaction.  The last version 1 envelope gone, none is opened again.
StartupAsks ==
  /\ phase = "loaded" /\ state = "none" /\ ~creating
  /\ \E f \in Fields : NeedsSealing(stored[f])
  /\ EnsureKey
  /\ UNCHANGED <<disk, phase, session, state, pending, launches, saved, entered>>

SealCredentials ==
  /\ phase = "loaded" /\ ~creating
  /\ LET needed == \E f \in Fields : NeedsSealing(stored[f]) IN
     /\ state = "none" => ~needed
     /\ IF needed /\ Encrypting
          THEN /\ stored' = [f \in Fields |-> IF NeedsSealing(stored[f])
                               THEN SealDoc(f, OpenDoc(f), stored[f]) ELSE stored[f]]
               /\ legacyRetired' = (legacyRetired \/ LegacyGone(stored'))
          ELSE UNCHANGED <<stored, legacyRetired>>
  /\ phase' = "on"
  /\ UNCHANGED <<storedKeys, session, state, creating, pending, launches, asked, saved, entered>>

-----------------------------------------------------------------------------
\* A field is written: sealed, as the state is by now.
Write(f, v) ==
  /\ stored' = [stored EXCEPT ![f] = SealDoc(f, v, @)]
  /\ sessionValues' = [sessionValues EXCEPT ![f] = SessionValue(f, v, stored[f])]
  /\ saved' = [saved EXCEPT ![f] =
       IF v = NoValue THEN IF Readable(f) THEN NoValue ELSE @
       ELSE IF Encrypting THEN v ELSE @]
  /\ entered' = [entered EXCEPT ![f] = v]
  /\ UNCHANGED <<storedKeys, legacyRetired, keychain, keys, currentKeyId, state>>

\* A save of a doc with the field as v; the first credential waits for a key.
Save(f, v) ==
  /\ phase = "on"
  /\ IF state = "none" /\ v # NoValue
       THEN /\ pending' = pending \cup {<<f, v>>}
            /\ EnsureKey
            /\ UNCHANGED <<disk, session, state, saved, entered>>
       ELSE Write(f, v) /\ UNCHANGED <<creating, pending, asked>>
  /\ UNCHANGED <<phase, launches>>

SaveGoesOn(f, v) ==
  /\ <<f, v>> \in pending /\ ~creating
  /\ pending' = pending \ {<<f, v>>}
  /\ Write(f, v)
  /\ UNCHANGED <<phase, creating, launches, asked>>

\* The app quits or crashes: what is not on disk is gone.
Quit ==
  /\ phase # "off"
  /\ phase' = "off" /\ state' = "none" /\ keychain' = Refuses
  /\ keys' = {} /\ currentKeyId' = 0
  /\ sessionValues' = [f \in Fields |-> NoValue]
  /\ creating' = FALSE /\ pending' = {}
  /\ entered' = [f \in Fields |-> NotEntered] /\ asked' = 0
  /\ UNCHANGED <<disk, launches, saved>>

Next ==
  \/ \E chain \in Keychains, answers \in 0..Len(storedKeys), timedOut, made \in BOOLEAN,
        rewrapped \in SUBSET {i \in 1..Len(storedKeys) : storedKeys[i].by = Weak} :
       Launch(chain, answers, timedOut, IF chain \in Keyrings THEN rewrapped ELSE {}, made)
  \/ \E made \in BOOLEAN : KeyCreated(made)
  \/ StartupAsks \/ SealCredentials
  \/ \E f \in Fields, v \in Values \cup {NoValue} : Save(f, v)
  \/ \E f \in Fields, v \in Values : SaveGoesOn(f, v)
  \/ Quit

Spec == Init /\ [][Next]_vars

-----------------------------------------------------------------------------
\* No step writes a credential in plaintext: what is plain on disk was there
\* before this version, whatever the keychain does.
NoNewPlaintext ==
  [][\A f \in Fields : stored'[f].at = "plain" => stored'[f] = stored[f]]_vars

\* A credential that was put on disk stays there until it is replaced or, while
\* it can be read, cleared; and its key stays among the saved ones, so that the
\* keychain it was wrapped by opens it again, in an envelope of a version that
\* is opened.
NothingLost ==
  /\ TypeOK
  /\ \A f \in Fields :
       /\ saved[f] # NoValue => stored[f] # Empty /\ stored[f].v = saved[f]
       /\ IsEnvelope(stored[f]) => stored[f].k \in 1..Len(storedKeys)
       /\ IsEnvelope(stored[f]) /\ legacyRetired => stored[f].enc = 2

\* What can be opened reads as it was saved.
ReadsBack ==
  phase = "on" /\ Encrypting =>
    \A f \in Fields : IsEnvelope(stored[f]) /\ stored[f].k \in keys => OpenDoc(f) = saved[f]

\* Once the startup pass is done and credentials can be sealed, none is left in
\* plaintext, under an older key that opens, or in a version 1 envelope that does.
SealedUnderCurrent ==
  phase = "on" /\ Encrypting => \A f \in Fields : ~NeedsSealing(stored[f])

\* A keyring's key is never stood in for by the fallback's: with one among the
\* saved keys, nothing is sealed under a key that is only obfuscated.
KeyringNotDowngraded ==
  (\E i \in 1..Len(storedKeys) : ~WasWeak(storedKeys[i])) => state # "weak"

\* A keyring that comes back after launches without it, or with another, is used
\* again: one that wrapped a key of its own is never left locked out or weak, once
\* it has answered for every key it opens.
KeyringComesBack ==
  [][phase = "off" /\ phase' = "loaded"
       /\ (\E i \in 1..Len(storedKeys) :
             storedKeys[i].by = keychain' /\ ~WasWeak(storedKeys[i]))
       /\ (\A i \in 1..Len(storedKeys) : Unwraps(keychain', storedKeys[i]) => i \in keys')
     => state' = "ready"]_vars

\* "Credentials you enter now are kept only until you quit": until then they
\* read back as entered.
SessionReadsBack ==
  phase = "on" /\ state \in {"unavailable", "locked"} =>
    \A f \in Fields \ Certs : entered[f] \in Values => OpenDoc(f) = entered[f]
============================================================================
