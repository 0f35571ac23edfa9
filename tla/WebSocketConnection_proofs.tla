--------------------- MODULE WebSocketConnection_proofs ---------------------
(***************************************************************************)
(* Proofs about WebSocketConnection, for every number of attempts and of   *)
(* calls, overlapping or not: the connection in use is the one in the map, *)
(* a drop is not forgotten halfway, reconnects run out, a close by hand is *)
(* final, and the button shown is the connection's.                        *)
(*                                                                         *)
(* The inductive invariant says where a call's socket and streams can be   *)
(* at each of the call's stages (Stages), what the maps' entries refer to  *)
(* (Entries), that without overlap only the last call is unfinished and    *)
(* has the maps (Apart), that nothing reconnects while a call is on its    *)
(* way and the attempts counted bound the reconnects made (Attempts), and  *)
(* that a window shows Disconnect only with something under way (Told).    *)
(***************************************************************************)
EXTENDS WebSocketConnection, TLAPS

Coming(c) == Opening(c) \/ ws[c] = "connecting"

Stage(c) ==
  /\ pc[c] = "none" <=> c > opens
  /\ pc[c] \in {"none", "request", "environment", "prepare"} => ws[c] = "none"
  /\ pc[c] \in {"none", "request"} => streams[c] # "open"
  /\ pc[c] = "socket" => ws[c] # "none"
  /\ pc[c] = "answering" => ws[c] \in {"answered", "aborting", "closed"}
  /\ pc[c] = "done" => ws[c] \in {"none", "answered", "aborting", "closed"}
  /\ pc[c] # "none" => response[c] \in 1..opens

Stages == \A c \in Calls : Stage(c)

Entries ==
  /\ conn # 0 => Unfinished(conn) /\ ws[conn] # "none"
  /\ reconnect # None => reconnect.response \in 1..opens
  /\ reconnect # None => ws[reconnect.of] \notin {"none", "connecting"}
  /\ \A e \in decisions : ws[e] \notin {"none", "connecting"}
  /\ \A e \in decisions : reconnect.of = e => reconnect.deciding
  /\ reconnect.deciding => reconnect.of \in decisions /\ ~reconnect.timer

Alone(c) ==
  /\ Unfinished(c) => c = opens
  /\ ws[c] \in {"connecting", "open"} => conn = c
  /\ streams[c] = "open" => stream = c /\ Unfinished(c)

Apart == ~overlapped => \A c \in Calls : Alone(c)

\* While a call is on its way, nothing else reconnects.
OnlyOne(c) ==
  Coming(c) =>
    /\ ~reconnect.timer /\ ~reconnect.deciding
    /\ tries <= reconnect.attempt
    /\ ~Resumes(c) => reconnect = None

Counted ==
  /\ tries <= MaxAttempts
  /\ reconnect.timer => tries < reconnect.attempt
  /\ reconnect # None => tries <= reconnect.attempt

Attempts == ~overlapped => Counted /\ \A c \in Calls : OnlyOne(c)

Closed ==
  closed = "idle" /\ ~overlapped =>
    reconnect = None /\ \A c \in Calls : ~Coming(c) /\ ws[c] # "open"

\* What keeps a window showing Disconnect.
Pending(c) == Unfinished(c) \/ (pc[c] = "done" /\ ~Resumes(c) /\ ws[c] = "none")

Told ==
  /\ ConnectedIsShown
  /\ shown => \/ \E c \in Calls : Pending(c)
              \/ reconnect.timer \/ reconnect.deciding \/ ~requestExists

Inv == TypeOK /\ Stages /\ Entries /\ Apart /\ Attempts /\ NotForgotten /\ Closed /\ Told

-----------------------------------------------------------------------------
\* An entry of the map, and what there is without one.
LEMMA EntryFacts ==
  ASSUME reconnect \in Entry \cup {None}
  PROVE  /\ reconnect.of \in 0..MaxOpens /\ reconnect.attempt \in 0..MaxAttempts
         /\ reconnect.timer \in BOOLEAN /\ reconnect.deciding \in BOOLEAN
         /\ reconnect.opened \in BOOLEAN /\ reconnect.response \in 0..MaxOpens
         /\ reconnect # None => reconnect \in Entry /\ reconnect.of \in Calls
                                /\ reconnect.response \in Calls
         /\ reconnect = None => /\ reconnect.of = 0 /\ reconnect.attempt = 0
                                /\ ~reconnect.timer /\ ~reconnect.deciding
<1>1. CASE reconnect = None
  BY <1>1, AttemptsAssumption, OpensAssumption DEF None
<1>2. CASE reconnect \in Entry
  <2>1. /\ reconnect.of \in Calls /\ reconnect.attempt \in 0..MaxAttempts
        /\ reconnect.timer \in BOOLEAN /\ reconnect.deciding \in BOOLEAN
        /\ reconnect.opened \in BOOLEAN /\ reconnect.response \in Calls
    BY <1>2 DEF Entry
  <2>2. reconnect # None
    BY <2>1, OpensAssumption DEF None, Calls
  <2> QED BY <1>2, <2>1, <2>2, OpensAssumption DEF Calls
<1> QED BY <1>1, <1>2

\* The types of the variables, one by one.
LEMMA TypeFacts ==
  ASSUME TypeOK
  PROVE  /\ requestExists \in BOOLEAN /\ closingOnPurpose \in BOOLEAN
         /\ shown \in BOOLEAN /\ overlapped \in BOOLEAN
         /\ opens \in Nat /\ MaxOpens \in Nat /\ MaxAttempts \in Nat /\ MaxAttempts > 0 /\ opens <= MaxOpens
         /\ conn \in 0..MaxOpens /\ stream \in 0..MaxOpens
         /\ conn # 0 => conn \in Calls
         /\ tries \in Nat
         /\ decisions \subseteq Calls
         /\ DOMAIN pc = Calls /\ DOMAIN ws = Calls /\ DOMAIN streams = Calls /\ DOMAIN response = Calls
BY AttemptsAssumption, OpensAssumption DEF TypeOK, Calls

\* Before the first call.
LEMMA InitInv == Init => Inv
<1> SUFFICES ASSUME Init PROVE Inv
  OBVIOUS
<1>1. TypeOK
  <2>1. /\ opens \in 0..MaxOpens /\ conn \in 0..MaxOpens /\ stream \in 0..MaxOpens
        /\ tries \in Nat
    BY OpensAssumption DEF Init
  <2>2. /\ pc \in [Calls -> {"none", "request", "environment", "prepare", "socket", "answering", "done"}]
        /\ streams \in [Calls -> {"none", "open", "ended"}]
    BY DEF Init
  <2>3. ws \in [Calls -> {"none", "connecting", "aborting", "answered", "open", "closing", "erring",
                          "closed"}]
    BY DEF Init
  <2>4. response \in [Calls -> 0..MaxOpens]
    BY OpensAssumption DEF Init
  <2>5. /\ requestExists \in BOOLEAN /\ reconnect \in Entry \cup {None} /\ decisions \subseteq Calls
        /\ {closingOnPurpose, shown, overlapped} \subseteq BOOLEAN
        /\ closed \in {"no", "idle", "opening"}
    BY DEF Init
  <2> QED BY <2>1, <2>2, <2>3, <2>4, <2>5 DEF TypeOK
<1>2. None.of = 0 /\ None.attempt = 0 /\ ~None.timer /\ ~None.deciding
  BY DEF None
<1>3. \A c \in Calls : c > 0 /\ pc[c] = "none" /\ ws[c] = "none" /\ streams[c] = "none"
  BY OpensAssumption DEF Init, Calls
<1>4. Stages
  BY <1>3 DEF Init, Stages, Stage
<1>5. Entries
  BY <1>2 DEF Init, Entries
<1>6. Apart
  BY <1>3 DEF Apart, Alone, Unfinished, Opening, Alive
<1>7. Attempts
  BY <1>2, <1>3, AttemptsAssumption DEF Init, Attempts, Counted, OnlyOne, Coming, Opening
<1>8. NotForgotten /\ Closed
  BY DEF Init, NotForgotten, Closed
<1>9. Told
  BY <1>2 DEF Init, Told, ConnectedIsShown, IsConnected
<1> QED BY <1>1, <1>4, <1>5, <1>6, <1>7, <1>8, <1>9 DEF Inv

-----------------------------------------------------------------------------
\* A call's end, or its socket's, with what afterDrop makes of it: one argument
\* for an error, a close, an answer in HTTP and a reconnect that fails to
\* prepare.
LEMMA DroppedInv ==
  ASSUME Inv, NEW c \in Calls, NEW p, NEW w, NEW onPurpose \in BOOLEAN,
         Unfinished(c),
         p \in {"socket", "answering", "done"}, pc[c] # "none",
         w \in {"none", "answered", "aborting", "erring", "closed"},
         p # "done" => w # "none", p # "socket" => w # "erring",
         w = "none" => ws[c] = "none",
         pc' = [pc EXCEPT ![c] = p], ws' = [ws EXCEPT ![c] = w],
         DeleteRequestMaps, AfterDrop(onPurpose), SocketOnly
  PROVE  Inv'
<1>t. TypeOK /\ Stages /\ Entries /\ Apart /\ Attempts /\ NotForgotten /\ Closed /\ Told
  BY DEF Inv
<1>f. /\ requestExists \in BOOLEAN /\ closingOnPurpose \in BOOLEAN
      /\ shown \in BOOLEAN /\ overlapped \in BOOLEAN
      /\ opens \in Nat /\ opens <= MaxOpens /\ MaxOpens \in Nat /\ conn \in 0..MaxOpens /\ stream \in 0..MaxOpens
      /\ conn # 0 => conn \in Calls
      /\ tries \in Nat /\ decisions \subseteq Calls
      /\ DOMAIN pc = Calls /\ DOMAIN ws = Calls /\ DOMAIN streams = Calls /\ DOMAIN response = Calls
  BY <1>t, TypeFacts
<1>e. /\ reconnect.of \in 0..MaxOpens /\ reconnect.timer \in BOOLEAN /\ reconnect.deciding \in BOOLEAN
      /\ reconnect.attempt \in 0..MaxAttempts
      /\ reconnect # None => reconnect \in Entry /\ reconnect.of \in Calls
      /\ reconnect = None => reconnect.of = 0 /\ reconnect.attempt = 0 /\ ~reconnect.timer /\ ~reconnect.deciding
  BY <1>t, EntryFacts DEF TypeOK
<1>u. /\ requestExists' = requestExists /\ opens' = opens /\ response' = response
      /\ overlapped' = overlapped /\ closed' = closed /\ tries' = tries
  BY DEF SocketOnly
<1>d. /\ conn' = 0 /\ stream' = 0
      /\ DOMAIN streams' = Calls
      /\ \A d \in Calls : streams'[d] = IF d = stream THEN "ended" ELSE streams[d]
  BY DEF DeleteRequestMaps
<1>n. /\ None.of = 0 /\ None.attempt = 0 /\ None.timer = FALSE /\ None.deciding = FALSE
  BY DEF None
\* The four outcomes of afterDrop
<1>o. \/ /\ reconnect.timer \/ reconnect.deciding
         /\ reconnect' = reconnect /\ decisions' = decisions /\ shown' = shown
      \/ /\ reconnect' = None /\ decisions' = decisions
         /\ shown' = FALSE
      \/ /\ reconnect # None /\ ~reconnect.timer /\ ~reconnect.deciding
         /\ reconnect' \in Entry
         /\ reconnect'.of = reconnect.of /\ reconnect'.attempt = reconnect.attempt
         /\ reconnect'.timer = FALSE /\ reconnect'.deciding = TRUE
         /\ reconnect'.response = reconnect.response
         /\ decisions' = decisions \cup {reconnect.of} /\ shown' = shown
  <2>1. CASE reconnect.timer \/ reconnect.deciding
    BY <2>1 DEF AfterDrop
  <2>2. CASE ~(reconnect.timer \/ reconnect.deciding) /\ (reconnect = None \/ onPurpose)
    BY <2>2, <1>d, <1>n DEF AfterDrop, Broadcast, IsConnected
  <2>3. CASE ~(reconnect.timer \/ reconnect.deciding) /\ ~(reconnect = None \/ onPurpose)
    <3>1. /\ reconnect' = [reconnect EXCEPT !.deciding = TRUE]
          /\ decisions' = decisions \cup {reconnect.of} /\ shown' = shown
      BY <2>3 DEF AfterDrop
    <3>2. reconnect \in Entry /\ ~reconnect.timer /\ ~reconnect.deciding /\ reconnect # None
      BY <2>3, <1>e
    <3> QED BY <3>1, <3>2, <1>e DEF Entry
  <2> QED BY <2>1, <2>2, <2>3
<1>r. reconnect' \in Entry \cup {None}
  BY <1>o, <1>t DEF TypeOK
<1>p. /\ closingOnPurpose' = FALSE
  BY DEF AfterDrop
<1> HIDE DEF None, Entry
\* What is unfinished after the step was so before it, and is not on its way
\* if it is this call.
<1>a. /\ \A d \in Calls : d # c => pc'[d] = pc[d] /\ ws'[d] = ws[d]
      /\ pc'[c] = p /\ ws'[c] = w
  BY <1>f
<1>b. /\ \A d \in Calls : d # c => Unfinished(d)' = Unfinished(d) /\ Coming(d)' = Coming(d)
      /\ ~Coming(c)'
  BY <1>a DEF Unfinished, Coming, Opening, Alive
<1>1. TypeOK'
  <2>1. pc' \in [Calls -> {"none", "request", "environment", "prepare", "socket", "answering", "done"}]
    BY <1>t DEF TypeOK
  <2>2. ws' \in [Calls -> {"none", "connecting", "aborting", "answered", "open", "closing", "erring",
                       "closed"}]
    BY <1>t DEF TypeOK
  <2>3. streams' \in [Calls -> {"none", "open", "ended"}]
    BY <1>t DEF TypeOK, DeleteRequestMaps
  <2>4. decisions' \subseteq Calls
    BY <1>o, <1>f, <1>e
  <2>5. shown' \in BOOLEAN
    BY <1>o, <1>f
  <2>6. /\ requestExists' \in BOOLEAN /\ opens' \in 0..MaxOpens /\ response' \in [Calls -> 0..MaxOpens]
        /\ overlapped' \in BOOLEAN /\ closed' \in {"no", "idle", "opening"} /\ tries' \in Nat
    BY <1>t, <1>u DEF TypeOK
  <2>7. conn' \in 0..MaxOpens /\ stream' \in 0..MaxOpens
    BY <1>d, <1>f
  <2>8. {closingOnPurpose', shown', overlapped'} \subseteq BOOLEAN
    BY <2>5, <2>6, <1>p
  <2> QED BY <1>r, <2>1, <2>2, <2>3, <2>4, <2>6, <2>7, <2>8 DEF TypeOK
<1>2. Stages'
  <2> SUFFICES ASSUME NEW d \in Calls PROVE Stage(d)'
    BY DEF Stages
  <2>1. Stage(d)
    BY <1>t DEF Stages
  <2>2. CASE d # c
    BY <2>1, <2>2, <1>a, <1>u, <1>d DEF Stage
  <2>3. CASE d = c
    <3>1. c <= opens /\ response[c] \in 1..opens
      BY <2>1, <2>3, <1>f DEF Stage, Calls
    <3> QED BY <2>1, <2>3, <3>1, <1>a, <1>u, <1>f, <1>d DEF Stage, Calls
  <2> QED BY <2>2, <2>3
<1>3. Entries'
  <2>1. /\ reconnect' # None => reconnect' = reconnect \/ reconnect # None
        /\ reconnect' # None => reconnect'.response = reconnect.response /\ reconnect'.of = reconnect.of
    BY <1>o
  <2>2. reconnect' # None => reconnect'.response \in 1..opens'
    BY <2>1, <1>t, <1>u DEF Entries
  <2>3. \A d \in Calls : ws[d] \notin {"none", "connecting"} => ws'[d] \notin {"none", "connecting"}
    BY <1>a
  <2>4. reconnect' # None => ws'[reconnect'.of] \notin {"none", "connecting"}
    BY <2>1, <2>3, <1>t, <1>e DEF Entries
  <2>5. \A e \in decisions' : e \in decisions \/ (reconnect # None /\ e = reconnect.of)
    BY <1>o
  <2>6. \A e \in decisions' : ws'[e] \notin {"none", "connecting"}
    BY <2>5, <2>3, <1>t, <1>e, <1>f DEF Entries
  <2>7. \A e \in decisions' : reconnect'.of = e => reconnect'.deciding
    <3> SUFFICES ASSUME NEW e \in decisions', reconnect'.of = e PROVE reconnect'.deciding
      OBVIOUS
    <3>1. e \in Calls
      BY <1>o, <1>f, <1>e
    <3>2. e # 0
      BY <3>1 DEF Calls
    <3>3. CASE reconnect' = reconnect /\ decisions' = decisions
      BY <3>3, <1>t DEF Entries
    <3>4. CASE reconnect' = None
      BY <3>4, <3>2, <1>n
    <3>5. CASE reconnect'.deciding = TRUE
      BY <3>5
    <3> QED BY <3>3, <3>4, <3>5, <1>o
  <2>8. reconnect'.deciding => reconnect'.of \in decisions' /\ ~reconnect'.timer
    BY <1>o, <1>t, <1>n DEF Entries
  <2> QED BY <2>2, <2>4, <2>6, <2>7, <2>8, <1>d DEF Entries
<1>4. Apart'
  <2> SUFFICES ASSUME ~overlapped, NEW d \in Calls PROVE Alone(d)'
    BY <1>u DEF Apart
  <2>1. Alone(d) /\ Alone(c)
    BY <1>t DEF Apart
  <2>2. c = opens
    BY <2>1 DEF Alone
  <2>3. d # c => ~Unfinished(d)
    BY <2>1, <2>2 DEF Alone
  <2>4. Unfinished(d)' => d = opens'
    BY <2>2, <2>3, <1>b, <1>u
  <2>5. ws'[d] \notin {"connecting", "open"}
    BY <2>3, <1>a DEF Unfinished, Alive
  <2>6. streams'[d] # "open"
    BY <2>1, <1>d DEF Alone
  <2> QED BY <2>4, <2>5, <2>6 DEF Alone
<1>5. Attempts'
  <2> SUFFICES ASSUME ~overlapped PROVE Counted' /\ \A d \in Calls : OnlyOne(d)'
    BY <1>u DEF Attempts
  <2>1. Counted /\ \A d \in Calls : OnlyOne(d)
    BY <1>t DEF Attempts
  <2>2. Counted'
    BY <2>1, <1>o, <1>u, <1>n DEF Counted
  <2>3. ASSUME NEW d \in Calls PROVE OnlyOne(d)'
    <3>1. d # c => ~Unfinished(d)
      BY <1>t DEF Apart, Alone
    <3>2. ~Coming(d)'
      BY <3>1, <1>b, <1>a DEF Coming, Unfinished, Alive
    <3> QED BY <3>2 DEF OnlyOne
  <2> QED BY <2>2, <2>3
<1>6. NotForgotten'
  BY <1>o, <1>u, <1>t DEF NotForgotten
<1>7. Closed'
  <2> SUFFICES ASSUME closed = "idle", ~overlapped
               PROVE  reconnect' = None /\ \A d \in Calls : ~Coming(d)' /\ ws'[d] # "open"
    BY <1>u DEF Closed
  <2>1. reconnect = None /\ \A d \in Calls : ~Coming(d) /\ ws[d] # "open"
    BY <1>t DEF Closed
  <2> QED BY <2>1, <1>o, <1>e, <1>a, <1>b
<1>8. Told'
  <2>1. ConnectedIsShown'
    BY <1>o, <1>t, <1>d, <1>n DEF Told, ConnectedIsShown, IsConnected
  <2>2. shown' => reconnect'.timer \/ reconnect'.deciding
    BY <1>o
  <2> QED BY <2>1, <2>2 DEF Told
<1> QED BY <1>1, <1>2, <1>3, <1>4, <1>5, <1>6, <1>7, <1>8 DEF Inv

-----------------------------------------------------------------------------
\* The events that end a connection, and a reconnect that fails to prepare.
LEMMA SocketEndsInv ==
  ASSUME Inv, NEW c \in Calls,
         SocketFails(c) \/ SocketErrs(c) \/ SocketCloses(c)
  PROVE  Inv'
<1>1. /\ Stage(c) /\ closingOnPurpose \in BOOLEAN
      /\ DOMAIN pc = Calls
  BY TypeFacts DEF Inv, Stages
<1>2. ws[c] # "none" /\ Alive(c)
  BY DEF SocketFails, SocketErrs, SocketCloses, Alive
<1>3. pc' = pc /\ DeleteRequestMaps /\ AfterDrop(closingOnPurpose) /\ SocketOnly
  BY DEF SocketFails, SocketErrs, SocketCloses
<1>4. pc[c] \in {"socket", "answering", "done"}
  BY <1>1, <1>2 DEF Stage, Inv, TypeOK
<1>5. CASE SocketErrs(c)
  <2>1. ws' = [ws EXCEPT ![c] = "erring"]
    BY <1>5 DEF SocketErrs
  <2>2. pc[c] = "socket"
    BY <1>1, <1>4, <1>5 DEF Stage, SocketErrs
  <2>3. pc' = [pc EXCEPT ![c] = "socket"]
    BY <1>1, <1>3, <2>2 DEF Inv, TypeOK
  <2> QED BY <1>1, <1>2, <1>3, <2>1, <2>2, <2>3, DroppedInv DEF Unfinished
<1>6. CASE SocketFails(c) \/ SocketCloses(c)
  <2>1. ws' = [ws EXCEPT ![c] = "closed"]
    BY <1>6 DEF SocketFails, SocketCloses
  <2>2. pc' = [pc EXCEPT ![c] = pc[c]]
    BY <1>3 DEF Inv, TypeOK
  <2> QED BY <1>1, <1>2, <1>3, <1>4, <2>1, <2>2, DroppedInv DEF Unfinished
<1> QED BY <1>5, <1>6

LEMMA AnswerSavedInv ==
  ASSUME Inv, NEW c \in Calls, AnswerSaved(c)
  PROVE  Inv'
<1>1. Stage(c) /\ closingOnPurpose \in BOOLEAN
  BY TypeFacts DEF Inv, Stages
<1>2. ws[c] \in {"answered", "aborting", "closed"} /\ pc[c] = "answering"
  BY <1>1 DEF Stage, AnswerSaved
<1>3. /\ pc' = [pc EXCEPT ![c] = "done"] /\ ws' = [ws EXCEPT ![c] = ws[c]]
      /\ DeleteRequestMaps /\ AfterDrop(closingOnPurpose) /\ SocketOnly
  BY DEF AnswerSaved, Inv, TypeOK
<1> QED BY <1>1, <1>2, <1>3, DroppedInv DEF Unfinished

LEMMA HttpAnswerInv ==
  ASSUME Inv, NEW c \in Calls, HttpAnswer(c)
  PROVE  Inv'
<1>t. TypeOK /\ Stages /\ Entries /\ Apart /\ Attempts /\ NotForgotten /\ Closed /\ Told
  BY DEF Inv
<1>f. DOMAIN pc = Calls /\ DOMAIN ws = Calls
  BY <1>t, TypeFacts
<1>1. ws[c] = "connecting" /\ pc[c] = "socket"
  BY <1>t DEF HttpAnswer, Stages, Stage, TypeOK
<1>2. CASE Resumes(c)
  <2>1. /\ pc' = [pc EXCEPT ![c] = "socket"] /\ ws' = [ws EXCEPT ![c] = "answered"]
        /\ DeleteRequestMaps /\ AfterDrop(TRUE) /\ SocketOnly
    BY <1>1, <1>2, <1>t DEF HttpAnswer, TypeOK
  <2> QED BY <1>1, <2>1, DroppedInv DEF Unfinished, Alive
<1>3. CASE ~Resumes(c)
  <2>1. /\ pc' = [pc EXCEPT ![c] = "answering"] /\ ws' = [ws EXCEPT ![c] = "answered"]
        /\ closingOnPurpose' = TRUE
        /\ UNCHANGED <<streams, conn, stream, reconnect, decisions, shown>>
        /\ UNCHANGED <<requestExists, opens, response, overlapped, closed, tries>>
    BY <1>3 DEF HttpAnswer, SocketOnly
  <2>a. /\ pc'[c] = "answering" /\ ws'[c] = "answered"
        /\ \A d \in Calls : d # c => pc'[d] = pc[d] /\ ws'[d] = ws[d]
    BY <2>1, <1>f
  <2>b. /\ \A d \in Calls : Unfinished(d)' = Unfinished(d)
        /\ \A d \in Calls : Coming(d)' => Coming(d)
    BY <2>a, <1>1 DEF Unfinished, Coming, Opening, Alive
  <2>2. TypeOK'
    BY <2>1, <1>t DEF TypeOK
  <2>3. Stages'
    BY <2>1, <2>a, <1>1, <1>t DEF Stages, Stage
  <2>4. Entries'
    <3>1. \A d \in Calls : ws[d] \notin {"none", "connecting"} => ws'[d] \notin {"none", "connecting"}
      BY <2>a
    <3>2. conn # 0 => conn \in Calls
      BY <1>t, TypeFacts
    <3>3. reconnect # None => reconnect.of \in Calls
      BY <1>t, EntryFacts DEF TypeOK
    <3>4. conn # 0 => Unfinished(conn)' /\ ws'[conn] # "none"
      <4> SUFFICES ASSUME NEW d \in Calls, conn = d PROVE Unfinished(d)' /\ ws'[d] # "none"
        BY <3>2, <2>1
      <4> QED BY <3>2, <2>a, <2>b, <1>1, <1>t, OpensAssumption DEF Entries, Calls
    <3>5. reconnect # None => ws'[reconnect.of] \notin {"none", "connecting"}
      BY <3>1, <3>3, <1>t DEF Entries
    <3>6. \A e \in decisions : ws'[e] \notin {"none", "connecting"}
      BY <3>1, <1>t DEF Entries, TypeOK
    <3> QED BY <3>4, <3>5, <3>6, <2>1, <1>t DEF Entries, Unfinished, Opening, Alive
  <2>5. Apart'
    BY <2>1, <2>a, <2>b, <1>t DEF Apart, Alone, Unfinished, Opening, Alive
  <2>6. Attempts'
    BY <2>1, <2>b, <1>t DEF Attempts, Counted, OnlyOne, Resumes, Coming, Opening
  <2>7. NotForgotten'
    <3>1. ~overlapped => conn = c
      BY <1>1, <1>t DEF Apart, Alone
    <3>2. c # 0
      BY OpensAssumption DEF Calls
    <3> QED BY <3>1, <3>2, <2>1 DEF NotForgotten
  <2>8. Closed'
    BY <2>1, <2>a, <2>b, <1>t DEF Closed, Coming, Opening
  <2>9. Told'
    <3>1. ConnectedIsShown'
      BY <2>1, <2>a, <1>f, <1>t DEF Told, ConnectedIsShown, IsConnected, TypeOK, Calls
    <3>2. \A d \in Calls : Pending(d) => Pending(d)'
      BY <2>a, <2>b, <2>1 DEF Pending, Resumes, Unfinished, Opening, Alive
    <3> QED BY <3>1, <3>2, <2>1, <1>t DEF Told
  <2> QED BY <2>2, <2>3, <2>4, <2>5, <2>6, <2>7, <2>8, <2>9 DEF Inv
<1> QED BY <1>2, <1>3

LEMMA PrepareFailsInv ==
  ASSUME Inv, NEW c \in Calls, PrepareFails(c)
  PROVE  Inv'
<1>t. TypeOK /\ Stages /\ Entries /\ Apart /\ Attempts /\ NotForgotten /\ Closed /\ Told
  BY DEF Inv
<1>f. /\ DOMAIN pc = Calls /\ DOMAIN ws = Calls /\ DOMAIN streams = Calls
      /\ closingOnPurpose \in BOOLEAN /\ opens \in Nat /\ MaxOpens \in Nat
      /\ conn \in 0..MaxOpens /\ stream \in 0..MaxOpens
  BY <1>t, TypeFacts
<1>1. ws[c] = "none" /\ pc[c] = "prepare" /\ Coming(c) /\ Unfinished(c)
  BY <1>t DEF PrepareFails, Stages, Stage, Coming, Opening, Unfinished
<1>2. CASE Resumes(c)
  <2>1. /\ pc' = [pc EXCEPT ![c] = "done"] /\ ws' = [ws EXCEPT ![c] = "none"]
        /\ DeleteRequestMaps /\ AfterDrop(closingOnPurpose) /\ SocketOnly
    BY <1>1, <1>2, <1>t DEF PrepareFails, TypeOK, SocketOnly
  <2> QED BY <1>1, <1>f, <2>1, DroppedInv
<1>3. CASE ~Resumes(c)
  <2>1. /\ pc' = [pc EXCEPT ![c] = "done"] /\ ws' = ws
        /\ UNCHANGED <<reconnect, closingOnPurpose, decisions, shown>>
        /\ UNCHANGED <<requestExists, opens, response, overlapped, closed, tries>>
    BY <1>3 DEF PrepareFails
  <2>d. /\ conn' = 0 /\ stream' = 0
        /\ streams' = [d \in Calls |-> IF d = stream THEN "ended" ELSE streams[d]]
    BY DEF PrepareFails, DeleteRequestMaps
  <2>s. \A d \in Calls : streams'[d] = IF d = stream THEN "ended" ELSE streams[d]
    BY <2>d
  <2>a. /\ pc'[c] = "done"
        /\ \A d \in Calls : d # c => pc'[d] = pc[d]
    BY <2>1, <1>f
  <2>b. /\ \A d \in Calls : d # c => Unfinished(d)' = Unfinished(d) /\ Coming(d)' = Coming(d)
        /\ ~Unfinished(c)' /\ ~Coming(c)'
    BY <2>a, <2>1, <1>1 DEF Unfinished, Coming, Opening, Alive
  <2>2. TypeOK'
    <3>1. pc' \in [Calls -> {"none", "request", "environment", "prepare", "socket", "answering", "done"}]
      BY <2>1, <1>t DEF TypeOK
    <3>2. streams' \in [Calls -> {"none", "open", "ended"}]
      BY <2>d, <1>t DEF TypeOK
    <3> QED BY <3>1, <3>2, <2>1, <2>d, <1>f, <1>t DEF TypeOK
  <2>3. Stages'
    <3> SUFFICES ASSUME NEW d \in Calls PROVE Stage(d)'
      BY DEF Stages
    <3>1. Stage(d)
      BY <1>t DEF Stages
    <3>2. CASE d = c
      <4>1. c <= opens /\ response[c] \in 1..opens
        BY <3>1, <3>2, <1>1, <1>f DEF Stage, Calls
      <4> QED BY <3>2, <4>1, <2>1, <2>a, <1>1, <1>f DEF Stage, Calls
    <3>3. CASE d # c
      BY <3>1, <3>3, <2>1, <2>a, <2>s DEF Stage
    <3> QED BY <3>2, <3>3
  <2>4. Entries'
    BY <2>1, <2>d, <1>t DEF Entries
  <2>5. Apart'
    <3> SUFFICES ASSUME ~overlapped, NEW d \in Calls PROVE Alone(d)'
      BY <2>1 DEF Apart
    <3>1. Alone(d) /\ Alone(c)
      BY <1>t DEF Apart
    <3>2. d # c => ~Unfinished(d)
      BY <3>1, <1>1 DEF Alone
    <3>3. ~Unfinished(d)'
      BY <3>2, <2>b
    <3>4. ws'[d] \notin {"connecting", "open"}
      BY <3>2, <2>1, <1>1 DEF Unfinished, Alive
    <3>5. streams'[d] # "open"
      BY <3>1, <2>s DEF Alone
    <3> QED BY <3>3, <3>4, <3>5 DEF Alone
  <2>6. Attempts'
    BY <2>1, <2>b, <1>t DEF Attempts, Counted, OnlyOne, Resumes
  <2>7. NotForgotten'
    <3>1. ~overlapped => reconnect = None
      BY <1>1, <1>3, <1>t DEF Attempts, OnlyOne
    <3> QED BY <3>1, <2>1 DEF NotForgotten
  <2>8. Closed'
    BY <2>1, <2>b, <1>t DEF Closed
  <2>9. Told'
    <3>1. ConnectedIsShown'
      BY <2>1, <2>d, <1>t DEF Told, ConnectedIsShown, IsConnected
    <3>2. Pending(c)'
      BY <2>a, <2>1, <1>1, <1>3 DEF Pending, Resumes
    <3> QED BY <3>1, <3>2 DEF Told
  <2> QED BY <2>2, <2>3, <2>4, <2>5, <2>6, <2>7, <2>8, <2>9 DEF Inv
<1> QED BY <1>2, <1>3

-----------------------------------------------------------------------------
\* What begins with a call, whatever becomes of the reconnect's entry.
LEMMA BegunFacts ==
  ASSUME Inv, NEW n, n = opens + 1, NEW writes \in 0..opens, BeginOpen(writes)
  PROVE  /\ n \in Calls /\ opens' = n /\ opens \in Nat
         /\ pc'[n] = "request" /\ ws'[n] = "none" /\ ws' = ws /\ streams' = streams
         /\ conn' = conn /\ stream' = stream /\ decisions' = decisions /\ requestExists' = requestExists
         /\ response'[n] = IF writes = 0 THEN n ELSE writes
         /\ \A d \in Calls : d # n => pc'[d] = pc[d] /\ response'[d] = response[d]
         /\ \A d \in Calls : d # n => Unfinished(d)' = Unfinished(d) /\ Coming(d)' = Coming(d)
         /\ Unfinished(n)' /\ Opening(n)' /\ Coming(n)' /\ pc[n] = "none"
         /\ ~overlapped' => ~overlapped /\ \A d \in Calls : ~Unfinished(d)
         /\ pc' \in [Calls -> {"none", "request", "environment", "prepare", "socket", "answering", "done"}]
         /\ response' \in [Calls -> 0..MaxOpens]
         /\ overlapped' \in BOOLEAN /\ closingOnPurpose' = FALSE
<1>t. TypeOK /\ Stages
  BY DEF Inv
<1>f. /\ opens \in Nat /\ opens <= MaxOpens /\ MaxOpens \in Nat /\ overlapped \in BOOLEAN
      /\ DOMAIN pc = Calls /\ DOMAIN response = Calls
  BY <1>t, TypeFacts
<1>1. /\ opens < MaxOpens /\ opens' = n
      /\ pc' = [pc EXCEPT ![n] = "request"]
      /\ response' = [response EXCEPT ![n] = IF writes = 0 THEN n ELSE writes]
      /\ closingOnPurpose' = FALSE
      /\ overlapped' = (overlapped \/ \E c \in Calls : Unfinished(c))
      /\ UNCHANGED <<requestExists, ws, streams, conn, stream, decisions>>
  BY DEF BeginOpen
<1>2. n \in Calls /\ n > opens
  BY <1>1, <1>f DEF Calls
<1>3. pc[n] = "none" /\ ws[n] = "none"
  BY <1>2, <1>t, <1>f DEF Stages, Stage
<1>4. /\ pc'[n] = "request" /\ response'[n] = IF writes = 0 THEN n ELSE writes
      /\ \A d \in Calls : d # n => pc'[d] = pc[d] /\ response'[d] = response[d]
  BY <1>1, <1>2, <1>f
<1>5. \A d \in Calls : d # n => Unfinished(d)' = Unfinished(d) /\ Coming(d)' = Coming(d)
  BY <1>1, <1>4 DEF Unfinished, Opening, Alive, Coming
<1>6. Unfinished(n)' /\ Opening(n)' /\ Coming(n)'
  BY <1>4 DEF Unfinished, Opening, Coming
<1>7. pc' \in [Calls -> {"none", "request", "environment", "prepare", "socket", "answering", "done"}]
  BY <1>1, <1>t DEF TypeOK
<1>8. response' \in [Calls -> 0..MaxOpens]
  BY <1>1, <1>2, <1>f, <1>t DEF TypeOK, Calls
<1> QED BY <1>1, <1>2, <1>3, <1>4, <1>5, <1>6, <1>7, <1>8, <1>f

\* The parts of the invariant that a call's beginning keeps by itself.
LEMMA BegunInv ==
  ASSUME Inv, NEW n, n = opens + 1, NEW writes \in 0..opens, BeginOpen(writes)
  PROVE  /\ Stages' /\ Apart'
         /\ conn' # 0 => Unfinished(conn)' /\ ws'[conn'] # "none"
<1>t. TypeOK /\ Stages /\ Entries /\ Apart
  BY DEF Inv
<1>b. /\ n \in Calls /\ opens' = n /\ opens \in Nat
      /\ pc'[n] = "request" /\ ws' = ws /\ streams' = streams /\ ws'[n] = "none" /\ pc[n] = "none"
      /\ conn' = conn /\ stream' = stream
      /\ response'[n] = IF writes = 0 THEN n ELSE writes
      /\ \A d \in Calls : d # n => pc'[d] = pc[d] /\ response'[d] = response[d]
      /\ \A d \in Calls : d # n => Unfinished(d)' = Unfinished(d)
      /\ Unfinished(n)'
      /\ ~overlapped' => ~overlapped /\ \A d \in Calls : ~Unfinished(d)
  BY BegunFacts
<1>1. Stages'
  <2> SUFFICES ASSUME NEW d \in Calls PROVE Stage(d)'
    BY DEF Stages
  <2>1. Stage(d)
    BY <1>t DEF Stages
  <2>2. CASE d = n
    <3>1. streams[n] # "open"
      BY <2>1, <2>2, <1>b DEF Stage
    <3> QED BY <2>2, <3>1, <1>b DEF Stage
  <2>3. CASE d # n
    <3>1. d \in Nat /\ (d > opens <=> d > n)
      BY <2>3, <1>b DEF Calls
    <3> QED BY <2>1, <2>3, <3>1, <1>b DEF Stage
  <2> QED BY <2>2, <2>3
<1>2. Apart'
  <2> SUFFICES ASSUME ~overlapped', NEW d \in Calls PROVE Alone(d)'
    BY DEF Apart
  <2>1. ~overlapped /\ ~Unfinished(d)
    BY <1>b
  <2>2. Alone(d)
    BY <1>t, <2>1 DEF Apart
  <2>3. streams[d] # "open" /\ ws[d] \notin {"connecting", "open"}
    BY <2>1, <2>2 DEF Alone, Unfinished, Alive
  <2> QED BY <2>1, <2>3, <1>b DEF Alone
<1>3. ASSUME conn' # 0 PROVE Unfinished(conn)' /\ ws'[conn'] # "none"
  <2> SUFFICES ASSUME NEW d \in Calls, conn = d PROVE Unfinished(d)' /\ ws'[d] # "none"
    BY <1>3, <1>b, <1>t, TypeFacts
  <2>1. Unfinished(d) /\ ws[d] # "none"
    BY <1>3, <1>b, <1>t DEF Entries
  <2> QED BY <2>1, <1>b
<1> QED BY <1>1, <1>2, <1>3

LEMMA OpenInv == Inv /\ Open => Inv'
<1> SUFFICES ASSUME Inv, Open PROVE Inv'
  OBVIOUS
<1>t. TypeOK /\ Stages /\ Entries /\ Apart /\ Attempts /\ NotForgotten /\ Closed /\ Told
  BY DEF Inv
<1>f. /\ opens \in Nat /\ opens <= MaxOpens /\ MaxOpens \in Nat /\ MaxAttempts \in Nat
      /\ shown \in BOOLEAN /\ conn \in 0..MaxOpens /\ stream \in 0..MaxOpens
      /\ decisions \subseteq Calls /\ requestExists \in BOOLEAN
  BY <1>t, TypeFacts
<1>1. /\ BeginOpen(0) /\ conn = 0 /\ reconnect' = None /\ closed' = "no" /\ tries' = 0 /\ shown' = shown
  BY DEF Open
<1>n. /\ None.of = 0 /\ None.attempt = 0 /\ None.timer = FALSE /\ None.deciding = FALSE
  BY DEF None
<1>2. PICK n : n = opens + 1
  OBVIOUS
<1>3. 0 \in 0..opens
  BY <1>f
<1>b. /\ n \in Calls /\ opens' = n /\ ws' = ws /\ streams' = streams
      /\ conn' = conn /\ stream' = stream /\ decisions' = decisions /\ requestExists' = requestExists
      /\ Unfinished(n)' /\ Opening(n)'
      /\ pc' \in [Calls -> {"none", "request", "environment", "prepare", "socket", "answering", "done"}]
      /\ response' \in [Calls -> 0..MaxOpens]
      /\ overlapped' \in BOOLEAN /\ closingOnPurpose' = FALSE
  BY <1>1, <1>2, <1>3, BegunFacts
<1>c. Stages' /\ Apart' /\ (conn' # 0 => Unfinished(conn)' /\ ws'[conn'] # "none")
  BY <1>1, <1>2, <1>3, BegunInv
<1>4. TypeOK'
  <2>1. opens' \in 0..MaxOpens
    BY <1>b DEF Calls
  <2>2. {closingOnPurpose', shown', overlapped'} \subseteq BOOLEAN
    BY <1>b, <1>1, <1>f
  <2> QED BY <2>1, <2>2, <1>1, <1>b, <1>f, <1>t DEF TypeOK
<1>5. Entries'
  <2>1. \A e \in decisions' : reconnect'.of # e
    BY <1>1, <1>n, <1>b, <1>f DEF Calls
  <2>2. ~reconnect'.deciding /\ reconnect' = None
    BY <1>1, <1>n
  <2> QED BY <2>1, <2>2, <1>b, <1>c, <1>t DEF Entries
<1>6. Attempts'
  BY <1>1, <1>n, <1>f DEF Attempts, Counted, OnlyOne
<1>7. NotForgotten' /\ Closed'
  BY <1>1 DEF NotForgotten, Closed
<1>8. Told'
  <2>1. ConnectedIsShown'
    BY <1>1, <1>n, <1>b DEF ConnectedIsShown, IsConnected
  <2>2. Pending(n)'
    BY <1>b DEF Pending
  <2> QED BY <1>b, <2>1, <2>2 DEF Told
<1> QED BY <1>4, <1>5, <1>6, <1>7, <1>8, <1>c DEF Inv

LEMMA TimerFiresInv == Inv /\ TimerFires => Inv'
<1> SUFFICES ASSUME Inv, TimerFires PROVE Inv'
  OBVIOUS
<1>t. TypeOK /\ Stages /\ Entries /\ Apart /\ Attempts /\ NotForgotten /\ Closed /\ Told
  BY DEF Inv
<1>f. /\ opens \in Nat /\ opens <= MaxOpens /\ MaxOpens \in Nat /\ MaxAttempts \in Nat /\ tries \in Nat
      /\ shown \in BOOLEAN /\ overlapped \in BOOLEAN /\ closingOnPurpose \in BOOLEAN
      /\ conn \in 0..MaxOpens /\ stream \in 0..MaxOpens
      /\ conn # 0 => conn \in Calls
      /\ decisions \subseteq Calls /\ requestExists \in BOOLEAN
  BY <1>t, TypeFacts
<1>1. /\ reconnect.timer /\ reconnect' = [reconnect EXCEPT !.timer = FALSE]
      /\ shown' = shown /\ closed' = closed
  BY DEF TimerFires
<1>e. /\ reconnect \in Entry /\ reconnect # None /\ reconnect.of \in Calls
      /\ reconnect.attempt \in 0..MaxAttempts /\ reconnect.response \in Calls
  BY <1>1, <1>t, EntryFacts DEF TypeOK
<1>2. ~reconnect.deciding /\ reconnect.response \in 1..opens
  BY <1>1, <1>e, <1>t DEF Entries
<1>3. /\ reconnect' \in Entry /\ ~reconnect'.timer /\ ~reconnect'.deciding
      /\ reconnect'.of = reconnect.of /\ reconnect'.attempt = reconnect.attempt
      /\ reconnect'.response = reconnect.response
  BY <1>1, <1>e, <1>2 DEF Entry
<1>4. reconnect' # None
  BY <1>3, <1>e, OpensAssumption DEF None, Calls
<1>5. closed = "idle" => overlapped
  BY <1>e, <1>t DEF Closed
<1> HIDE DEF None, Entry
<1>6. CASE conn # 0
  <2>1. UNCHANGED <<tries, requestExists, opens, pc, response, ws, streams, conn, stream, decisions,
                    closingOnPurpose, overlapped>>
    BY <1>6 DEF TimerFires
  <2>u. \A d \in Calls : Unfinished(d)' = Unfinished(d) /\ Coming(d)' = Coming(d)
    BY <2>1 DEF Unfinished, Coming, Opening, Alive
  <2>2. TypeOK'
    BY <2>1, <1>1, <1>3, <1>t DEF TypeOK
  <2>3. Stages'
    BY <2>1, <1>t DEF Stages, Stage
  <2>4. Entries'
    <3>1. \A e \in decisions : reconnect'.of # e
      BY <1>3, <1>2, <1>t DEF Entries
    <3> QED BY <3>1, <2>1, <1>3, <1>e, <1>t DEF Entries, Unfinished, Opening, Alive
  <2>5. Apart'
    BY <2>1, <2>u, <1>t DEF Apart, Alone
  <2>6. Attempts'
    BY <2>1, <2>u, <1>1, <1>3, <1>e, <1>t DEF Attempts, Counted, OnlyOne, Resumes
  <2>7. NotForgotten' /\ Closed'
    BY <2>1, <1>1, <1>6, <1>5 DEF NotForgotten, Closed
  <2>8. Told'
    <3>1. ConnectedIsShown'
      BY <2>1, <1>1, <1>t DEF Told, ConnectedIsShown, IsConnected
    <3>2. Pending(conn)'
      BY <1>6, <1>t, <2>1 DEF Entries, Pending, Unfinished, Opening, Alive
    <3>3. conn' \in Calls
      BY <1>6, <1>f, <2>1
    <3> QED BY <3>1, <3>2, <3>3 DEF Told
  <2> QED BY <2>2, <2>3, <2>4, <2>5, <2>6, <2>7, <2>8 DEF Inv
<1>7. CASE conn = 0
  <2>1. BeginOpen(reconnect.response) /\ tries' = tries + 1
    BY <1>7 DEF TimerFires
  <2>2. PICK n : n = opens + 1
    OBVIOUS
  <2>3. PICK writes \in 0..opens : writes = reconnect.response
    BY <1>2
  <2>b. /\ n \in Calls /\ opens' = n /\ ws' = ws /\ streams' = streams
        /\ conn' = conn /\ stream' = stream /\ decisions' = decisions /\ requestExists' = requestExists
        /\ Unfinished(n)' /\ Opening(n)'
        /\ response'[n] = IF writes = 0 THEN n ELSE writes
        /\ \A d \in Calls : d # n => pc'[d] = pc[d] /\ response'[d] = response[d]
        /\ \A d \in Calls : d # n => Coming(d)' = Coming(d)
        /\ ~overlapped' => ~overlapped /\ \A d \in Calls : ~Unfinished(d)
        /\ pc' \in [Calls -> {"none", "request", "environment", "prepare", "socket", "answering", "done"}]
        /\ response' \in [Calls -> 0..MaxOpens]
        /\ overlapped' \in BOOLEAN /\ closingOnPurpose' = FALSE
    BY <2>1, <2>2, <2>3, BegunFacts
  <2>c. Stages' /\ Apart' /\ (conn' # 0 => Unfinished(conn)' /\ ws'[conn'] # "none")
    BY <2>1, <2>2, <2>3, BegunInv
  <2>4. TypeOK'
    <3>1. opens' \in 0..MaxOpens /\ tries' \in Nat
      BY <2>1, <2>b, <1>f DEF Calls
    <3>2. {closingOnPurpose', shown', overlapped'} \subseteq BOOLEAN
      BY <2>b, <1>1, <1>f
    <3> QED BY <3>1, <3>2, <1>1, <1>3, <2>b, <1>f, <1>t DEF TypeOK
  <2>5. Entries'
    <3>1. \A e \in decisions : reconnect'.of # e
      BY <1>3, <1>2, <1>t DEF Entries
    <3>2. reconnect'.response \in 1..opens'
      BY <1>2, <1>3, <2>2, <2>b, <1>f
    <3> QED BY <3>1, <3>2, <2>b, <2>c, <1>3, <1>e, <1>t DEF Entries
  <2>6. Attempts'
    <3> SUFFICES ASSUME ~overlapped' PROVE Counted' /\ \A d \in Calls : OnlyOne(d)'
      BY DEF Attempts
    <3>1. ~overlapped /\ \A d \in Calls : ~Unfinished(d)
      BY <2>b
    <3>2. tries < reconnect.attempt
      BY <3>1, <1>1, <1>t DEF Attempts, Counted
    <3>3. tries' <= reconnect'.attempt /\ tries' <= MaxAttempts
      BY <3>2, <2>1, <1>3, <1>e, <1>f
    <3>4. Counted'
      BY <3>3, <1>3 DEF Counted
    <3>5. \A d \in Calls : d # n => ~Coming(d)'
      BY <3>1, <2>b DEF Coming, Unfinished, Opening, Alive
    <3>6. response'[n] # n
      BY <2>2, <2>3, <2>b, <1>2, <1>f
    <3>7. ASSUME NEW d \in Calls PROVE OnlyOne(d)'
      BY <3>3, <3>5, <3>6, <1>3 DEF OnlyOne, Resumes
    <3> QED BY <3>4, <3>7
  <2>7. NotForgotten' /\ Closed'
    BY <2>b, <1>1, <1>5 DEF NotForgotten, Closed
  <2>8. Told'
    <3>1. ConnectedIsShown'
      BY <2>b, <1>1, <1>t DEF Told, ConnectedIsShown, IsConnected
    <3>2. Pending(n)'
      BY <2>b DEF Pending
    <3> QED BY <3>1, <3>2, <2>b DEF Told
  <2> QED BY <2>4, <2>5, <2>6, <2>7, <2>8, <2>c DEF Inv
<1> QED BY <1>6, <1>7

\* Opening a connection, step by step: each keeps the call unfinished, or ends
\* it before it has a socket.
LEMMA GotRequestInv ==
  ASSUME Inv, NEW c \in Calls, GotRequest(c)
  PROVE  Inv'
<1>t. TypeOK /\ Stages /\ Entries /\ Apart /\ Attempts /\ NotForgotten /\ Closed /\ Told
  BY DEF Inv
<1>f. /\ DOMAIN pc = Calls /\ DOMAIN ws = Calls /\ DOMAIN streams = Calls
      /\ opens \in Nat /\ MaxOpens \in Nat /\ requestExists \in BOOLEAN
      /\ conn # 0 => conn \in Calls
  BY <1>t, TypeFacts
<1>1. /\ UNCHANGED <<requestExists, opens, response, ws, conn, reconnect, closingOnPurpose, decisions,
                      shown, overlapped, closed, tries>>
      /\ pc[c] = "request"
  BY DEF GotRequest
<1>2. ws[c] = "none" /\ streams[c] # "open" /\ Unfinished(c) /\ Opening(c)
  BY <1>1, <1>t DEF Stages, Stage, Opening, Unfinished
<1>3. conn # c
  BY <1>2, <1>t, OpensAssumption DEF Entries, Calls
<1>4. PICK p \in {"environment", "done"} : pc' = [pc EXCEPT ![c] = p] /\ (p = "environment" <=> requestExists)
  BY DEF GotRequest
<1>a. pc'[c] = p /\ \A d \in Calls : d # c => pc'[d] = pc[d]
  BY <1>4, <1>f
<1>b. /\ \A d \in Calls : d # c => Unfinished(d)' = Unfinished(d) /\ Coming(d)' = Coming(d)
      /\ Coming(c)' => Coming(c)
  BY <1>a, <1>1, <1>2 DEF Unfinished, Coming, Opening, Alive
<1>d. \/ /\ p = "done" /\ ~requestExists /\ stream' = stream /\ streams' = streams
      \/ /\ p = "environment" /\ requestExists /\ stream' = c /\ streams' = [streams EXCEPT ![c] = "open"]
  BY <1>4, <1>1, <1>f DEF GotRequest
<1>s. /\ \A d \in Calls : d # c => streams'[d] = streams[d]
      /\ streams'[c] = "open" => p = "environment" /\ stream' = c
  BY <1>d, <1>2, <1>f
<1>5. TypeOK'
  <2>1. pc' \in [Calls -> {"none", "request", "environment", "prepare", "socket", "answering", "done"}]
    BY <1>4, <1>t DEF TypeOK
  <2>2. streams' \in [Calls -> {"none", "open", "ended"}] /\ stream' \in 0..MaxOpens
    <3>1. streams' \in [Calls -> {"none", "open", "ended"}]
      BY <1>d, <1>t DEF TypeOK
    <3>2. stream' \in 0..MaxOpens
      BY <1>d, <1>t, <1>f DEF TypeOK, Calls
    <3> QED BY <3>1, <3>2
  <2> QED BY <2>1, <2>2, <1>1, <1>t DEF TypeOK
<1>6. Stages'
  <2> SUFFICES ASSUME NEW d \in Calls PROVE Stage(d)'
    BY DEF Stages
  <2>1. Stage(d)
    BY <1>t DEF Stages
  <2>2. CASE d = c
    BY <2>1, <2>2, <1>1, <1>2, <1>a DEF Stage
  <2>3. CASE d # c
    BY <2>1, <2>3, <1>1, <1>a, <1>s DEF Stage
  <2> QED BY <2>2, <2>3
<1>7. Entries'
  <2>1. ASSUME conn # 0 PROVE Unfinished(conn)' /\ ws'[conn'] # "none"
    <3> SUFFICES ASSUME NEW d \in Calls, conn = d PROVE Unfinished(d)' /\ ws'[d] # "none"
      BY <1>1, <1>f, <2>1
    <3> QED BY <2>1, <1>1, <1>3, <1>b, <1>t DEF Entries
  <2> QED BY <2>1, <1>1, <1>t DEF Entries
<1>8. Apart'
  <2> SUFFICES ASSUME ~overlapped, NEW d \in Calls PROVE Alone(d)'
    BY <1>1 DEF Apart
  <2>1. Alone(d) /\ Alone(c)
    BY <1>t DEF Apart
  <2>2. CASE d = c
    BY <2>1, <2>2, <1>1, <1>2, <1>a, <1>s DEF Alone, Unfinished, Opening
  <2>3. CASE d # c
    <3>1. ~Unfinished(d)
      BY <2>1, <2>3, <1>2 DEF Alone
    <3> QED BY <3>1, <2>1, <2>3, <1>1, <1>b, <1>s DEF Alone
  <2> QED BY <2>2, <2>3
<1>9. Attempts' /\ Closed'
  BY <1>1, <1>b, <1>t DEF Attempts, Counted, OnlyOne, Resumes, Closed
<1>10. NotForgotten'
  BY <1>1, <1>a, <1>4, <1>t DEF NotForgotten, Opening
<1>11. Told'
  <2>1. ConnectedIsShown'
    BY <1>1, <1>t DEF Told, ConnectedIsShown, IsConnected
  <2>2. \A d \in Calls : d # c /\ Pending(d) => Pending(d)'
    BY <1>1, <1>a, <1>b DEF Pending, Resumes
  <2>3. requestExists => Pending(c)'
    BY <1>4, <1>a DEF Pending, Unfinished, Opening
  <2> QED BY <2>1, <2>2, <2>3, <1>1, <1>t DEF Told
<1> QED BY <1>5, <1>6, <1>7, <1>8, <1>9, <1>10, <1>11 DEF Inv

LEMMA GotEnvironmentInv ==
  ASSUME Inv, NEW c \in Calls, GotEnvironment(c)
  PROVE  Inv'
<1>t. TypeOK /\ Stages /\ Entries /\ Apart /\ Attempts /\ NotForgotten /\ Closed /\ Told
  BY DEF Inv
<1>f. DOMAIN pc = Calls /\ (conn # 0 => conn \in Calls)
  BY <1>t, TypeFacts
<1>1. /\ UNCHANGED <<requestExists, opens, response, ws, streams, conn, stream, reconnect,
                      closingOnPurpose, decisions, shown, overlapped, closed, tries>>
      /\ pc[c] = "environment" /\ pc' = [pc EXCEPT ![c] = "prepare"]
  BY DEF GotEnvironment, maps
<1>a. pc'[c] = "prepare" /\ \A d \in Calls : d # c => pc'[d] = pc[d]
  BY <1>1, <1>f
<1>b. \A d \in Calls : Opening(d)' = Opening(d) /\ Unfinished(d)' = Unfinished(d) /\ Coming(d)' = Coming(d)
  BY <1>a, <1>1 DEF Unfinished, Coming, Opening, Alive
<1>2. TypeOK'
  BY <1>1, <1>t DEF TypeOK
<1>3. Stages'
  BY <1>1, <1>a, <1>t DEF Stages, Stage
<1>4. Entries'
  <2>1. ASSUME conn # 0 PROVE Unfinished(conn)' /\ ws'[conn'] # "none"
    <3> SUFFICES ASSUME NEW d \in Calls, conn = d PROVE Unfinished(d)' /\ ws'[d] # "none"
      BY <1>1, <1>f, <2>1
    <3> QED BY <2>1, <1>1, <1>b, <1>t DEF Entries
  <2> QED BY <2>1, <1>1, <1>t DEF Entries
<1>5. Apart'
  BY <1>1, <1>b, <1>t DEF Apart, Alone
<1>6. Attempts' /\ Closed'
  BY <1>1, <1>b, <1>t DEF Attempts, Counted, OnlyOne, Resumes, Closed
<1>7. NotForgotten'
  BY <1>1, <1>b, <1>t DEF NotForgotten
<1>8. Told'
  <2>1. \A d \in Calls : Pending(d) => Pending(d)'
    BY <1>1, <1>a, <1>b DEF Pending, Resumes
  <2>2. ConnectedIsShown'
    BY <1>1, <1>t DEF Told, ConnectedIsShown, IsConnected
  <2> QED BY <2>1, <2>2, <1>1, <1>t DEF Told
<1> QED BY <1>2, <1>3, <1>4, <1>5, <1>6, <1>7, <1>8 DEF Inv

LEMMA ConnectInv ==
  ASSUME Inv, NEW c \in Calls, Connect(c)
  PROVE  Inv'
<1>t. TypeOK /\ Stages /\ Entries /\ Apart /\ Attempts /\ NotForgotten /\ Closed /\ Told
  BY DEF Inv
<1>f. DOMAIN pc = Calls /\ DOMAIN ws = Calls /\ MaxOpens \in Nat
  BY <1>t, TypeFacts
<1>1. /\ UNCHANGED <<requestExists, opens, response, streams, stream, reconnect,
                      closingOnPurpose, decisions, shown, overlapped, closed, tries>>
      /\ pc[c] = "prepare" /\ pc' = [pc EXCEPT ![c] = "socket"]
      /\ ws' = [ws EXCEPT ![c] = "connecting"] /\ conn' = c
  BY DEF Connect
<1>2. ws[c] = "none" /\ Unfinished(c) /\ Coming(c)
  BY <1>1, <1>t DEF Stages, Stage, Opening, Unfinished, Coming
<1>a. /\ pc'[c] = "socket" /\ ws'[c] = "connecting"
      /\ \A d \in Calls : d # c => pc'[d] = pc[d] /\ ws'[d] = ws[d]
  BY <1>1, <1>f
<1>b. /\ \A d \in Calls : d # c => Unfinished(d)' = Unfinished(d) /\ Coming(d)' = Coming(d)
      /\ Unfinished(c)' /\ Coming(c)'
  BY <1>a DEF Unfinished, Coming, Opening, Alive
<1>3. TypeOK'
  BY <1>1, <1>f, <1>t DEF TypeOK, Calls
<1>4. Stages'
  BY <1>1, <1>a, <1>t DEF Stages, Stage
<1>5. Entries'
  <2>1. Unfinished(conn)' /\ ws'[conn'] # "none"
    BY <1>1, <1>a DEF Unfinished, Alive
  <2>2. \A d \in Calls : ws[d] \notin {"none", "connecting"} => ws'[d] \notin {"none", "connecting"}
    BY <1>a, <1>2
  <2>3. reconnect # None => reconnect.of \in Calls
    BY <1>t, EntryFacts DEF TypeOK
  <2>4. reconnect # None => ws'[reconnect.of] \notin {"none", "connecting"}
    BY <2>2, <2>3, <1>t DEF Entries
  <2>5. \A e \in decisions : ws'[e] \notin {"none", "connecting"}
    BY <2>2, <1>t DEF Entries, TypeOK
  <2> QED BY <2>1, <2>4, <2>5, <1>1, <1>t DEF Entries
<1>6. Apart'
  <2> SUFFICES ASSUME ~overlapped, NEW d \in Calls PROVE Alone(d)'
    BY <1>1 DEF Apart
  <2>1. Alone(d) /\ Alone(c)
    BY <1>t DEF Apart
  <2>2. CASE d = c
    BY <2>1, <2>2, <1>1, <1>2, <1>b DEF Alone
  <2>3. CASE d # c
    <3>1. ~Unfinished(d)
      BY <2>1, <2>3, <1>2 DEF Alone
    <3>2. ws'[d] \notin {"connecting", "open"}
      BY <3>1, <2>3, <1>a DEF Unfinished, Alive
    <3> QED BY <3>1, <3>2, <2>1, <2>3, <1>1, <1>b DEF Alone
  <2> QED BY <2>2, <2>3
<1>7. Attempts' /\ Closed'
  BY <1>1, <1>2, <1>a, <1>b, <1>t DEF Attempts, Counted, OnlyOne, Resumes, Closed
<1>8. NotForgotten'
  BY <1>1, OpensAssumption DEF NotForgotten, Calls
<1>9. Told'
  <2>1. Pending(c)'
    BY <1>b DEF Pending
  <2>2. ConnectedIsShown'
    BY <1>1, <1>a, <1>t DEF Told, ConnectedIsShown, IsConnected
  <2> QED BY <2>1, <2>2 DEF Told
<1> QED BY <1>3, <1>4, <1>5, <1>6, <1>7, <1>8, <1>9 DEF Inv

LEMMA MessageEndsInv ==
  ASSUME Inv, NEW c \in Calls, MessageEnds(c)
  PROVE  Inv'
<1>t. TypeOK /\ Stages /\ Entries /\ Apart /\ Attempts /\ NotForgotten /\ Closed /\ Told
  BY DEF Inv
<1>f. DOMAIN ws = Calls /\ (conn # 0 => conn \in Calls) /\ MaxOpens \in Nat
  BY <1>t, TypeFacts
<1>1. /\ UNCHANGED <<requestExists, opens, pc, response, streams, conn, stream, reconnect, decisions,
                      shown, overlapped, closed, tries>>
      /\ ws[c] = "open" /\ ws' = [ws EXCEPT ![c] = "closing"] /\ closingOnPurpose' = TRUE
  BY DEF MessageEnds, SocketOnly
<1>a. ws'[c] = "closing" /\ \A d \in Calls : d # c => ws'[d] = ws[d]
  BY <1>1, <1>f
<1>b. \A d \in Calls : Opening(d)' = Opening(d) /\ Unfinished(d)' = Unfinished(d) /\ Coming(d)' = Coming(d)
  BY <1>a, <1>1 DEF Unfinished, Coming, Opening, Alive
<1>2. TypeOK'
  BY <1>1, <1>t DEF TypeOK
<1>3. Stages'
  BY <1>1, <1>a, <1>t DEF Stages, Stage
<1>4. Entries'
  <2>1. ASSUME conn # 0 PROVE Unfinished(conn)' /\ ws'[conn'] # "none"
    <3> SUFFICES ASSUME NEW d \in Calls, conn = d PROVE Unfinished(d)' /\ ws'[d] # "none"
      BY <1>1, <1>f, <2>1
    <3> QED BY <2>1, <1>a, <1>b, <1>t DEF Entries
  <2>2. \A d \in Calls : ws[d] \notin {"none", "connecting"} => ws'[d] \notin {"none", "connecting"}
    BY <1>a
  <2>3. reconnect # None => reconnect.of \in Calls
    BY <1>t, EntryFacts DEF TypeOK
  <2>4. reconnect # None => ws'[reconnect.of] \notin {"none", "connecting"}
    BY <2>2, <2>3, <1>t DEF Entries
  <2>5. \A e \in decisions : ws'[e] \notin {"none", "connecting"}
    BY <2>2, <1>t DEF Entries, TypeOK
  <2> QED BY <2>1, <2>4, <2>5, <1>1, <1>t DEF Entries
<1>5. Apart'
  BY <1>1, <1>a, <1>b, <1>t DEF Apart, Alone
<1>6. Attempts' /\ Closed'
  BY <1>1, <1>a, <1>b, <1>t DEF Attempts, Counted, OnlyOne, Resumes, Closed
<1>7. NotForgotten'
  BY <1>1, <1>b, <1>t DEF NotForgotten
<1>8. Told'
  <2>1. Pending(c)'
    BY <1>a DEF Pending, Unfinished, Alive
  <2>2. ConnectedIsShown'
    <3>1. \A d \in Calls : ws'[d] = "open" => ws[d] = "open"
      BY <1>a
    <3> QED BY <3>1, <1>1, <1>f, <1>t DEF Told, ConnectedIsShown, IsConnected
  <2> QED BY <2>1, <2>2 DEF Told
<1> QED BY <1>2, <1>3, <1>4, <1>5, <1>6, <1>7, <1>8 DEF Inv

LEMMA SocketOpensInv ==
  ASSUME Inv, NEW c \in Calls, SocketOpens(c)
  PROVE  Inv'
<1>t. TypeOK /\ Stages /\ Entries /\ Apart /\ Attempts /\ NotForgotten /\ Closed /\ Told
  BY DEF Inv
<1>f. /\ DOMAIN ws = Calls /\ (conn # 0 => conn \in Calls) /\ MaxOpens \in Nat /\ opens \in Nat
      /\ opens <= MaxOpens /\ MaxAttempts \in Nat /\ tries \in Nat
      /\ overlapped \in BOOLEAN /\ closingOnPurpose \in BOOLEAN
  BY <1>t, TypeFacts
<1>e. /\ reconnect.attempt \in 0..MaxAttempts
      /\ reconnect = None => reconnect.attempt = 0
  BY <1>t, EntryFacts DEF TypeOK
<1>1. /\ UNCHANGED <<requestExists, opens, pc, response, streams, conn, stream, decisions,
                      closingOnPurpose, overlapped, closed, tries>>
      /\ ws[c] = "connecting" /\ ws' = [ws EXCEPT ![c] = "open"]
      /\ reconnect' = [of |-> c, attempt |-> IF Resumes(c) THEN reconnect.attempt ELSE 0,
                       timer |-> FALSE, deciding |-> FALSE, opened |-> TRUE,
                       response |-> response[c]]
      /\ shown' = IsConnected(conn', ws', reconnect')
  BY DEF SocketOpens, SocketOnly, Broadcast
<1>a. ws'[c] = "open" /\ \A d \in Calls : d # c => ws'[d] = ws[d]
  BY <1>1, <1>f
<1>b. /\ \A d \in Calls : Opening(d)' = Opening(d) /\ Unfinished(d)' = Unfinished(d)
      /\ \A d \in Calls : Coming(d)' => Coming(d)
      /\ Unfinished(c) /\ Coming(c)
  BY <1>a, <1>1 DEF Unfinished, Coming, Opening, Alive
<1>2. pc[c] = "socket" /\ response[c] \in 1..opens
  BY <1>1, <1>t DEF Stages, Stage, TypeOK
<1>3. ~Coming(c)'
  BY <1>1, <1>2, <1>a DEF Coming, Opening
<1>4. /\ reconnect' \in Entry /\ reconnect'.of = c /\ reconnect'.response = response[c]
      /\ reconnect'.timer = FALSE /\ reconnect'.deciding = FALSE
      /\ reconnect'.attempt = IF Resumes(c) THEN reconnect.attempt ELSE 0
  BY <1>1, <1>2, <1>e, <1>f DEF Entry, Calls
<1>5. TypeOK'
  <2>1. shown' \in BOOLEAN
    BY <1>1, <1>4 DEF IsConnected
  <2>2. {closingOnPurpose', shown', overlapped'} \subseteq BOOLEAN
    BY <1>1, <1>f, <2>1
  <2> QED BY <2>2, <1>1, <1>4, <1>t DEF TypeOK
<1>6. Stages'
  BY <1>1, <1>2, <1>a, <1>t DEF Stages, Stage
<1>7. Entries'
  <2>1. ASSUME conn # 0 PROVE Unfinished(conn)' /\ ws'[conn'] # "none"
    <3> SUFFICES ASSUME NEW d \in Calls, conn = d PROVE Unfinished(d)' /\ ws'[d] # "none"
      BY <1>1, <1>f, <2>1
    <3> QED BY <2>1, <1>a, <1>b, <1>t DEF Entries
  <2>2. \A d \in Calls : ws[d] \notin {"none", "connecting"} => ws'[d] \notin {"none", "connecting"}
    BY <1>a
  <2>3. c \notin decisions
    BY <1>1, <1>t DEF Entries
  <2>4. \A e \in decisions : ws'[e] \notin {"none", "connecting"}
    BY <2>2, <1>t DEF Entries, TypeOK
  <2> QED BY <2>1, <2>3, <2>4, <1>1, <1>2, <1>4, <1>a, <1>t DEF Entries
<1>8. Apart'
  BY <1>1, <1>a, <1>b, <1>t DEF Apart, Alone
<1>9. Attempts'
  <2> SUFFICES ASSUME ~overlapped PROVE Counted' /\ \A d \in Calls : OnlyOne(d)'
    BY <1>1 DEF Attempts
  <2>1. Counted /\ OnlyOne(c)
    BY <1>t DEF Attempts
  <2>2. tries <= IF Resumes(c) THEN reconnect.attempt ELSE 0
    BY <2>1, <1>b, <1>e DEF OnlyOne
  <2>3. Counted'
    BY <2>1, <2>2, <1>1, <1>4 DEF Counted
  <2>4. ASSUME NEW d \in Calls PROVE ~Coming(d)'
    <3>1. d # c => ~Unfinished(d)
      BY <1>b, <1>t DEF Apart, Alone
    <3> QED BY <3>1, <1>b, <1>3 DEF Coming, Unfinished, Alive
  <2> QED BY <2>3, <2>4 DEF OnlyOne
<1>10. NotForgotten'
  <2>1. ~overlapped => conn = c
    BY <1>1, <1>t DEF Apart, Alone
  <2> QED BY <2>1, <1>1, OpensAssumption DEF NotForgotten, Calls
<1>11. Closed'
  BY <1>1, <1>b, <1>t DEF Closed
<1>12. Told'
  <2>1. Pending(c)'
    BY <1>b DEF Pending
  <2>2. ConnectedIsShown'
    BY <1>1 DEF ConnectedIsShown
  <2> QED BY <2>1, <2>2 DEF Told
<1> QED BY <1>5, <1>6, <1>7, <1>8, <1>9, <1>10, <1>11, <1>12 DEF Inv

-----------------------------------------------------------------------------
\* afterDrop, its request read.
LEMMA DecideInv ==
  ASSUME Inv, NEW e \in decisions, NEW enabled \in BOOLEAN, NEW stable \in BOOLEAN,
         Decide(e, enabled, stable)
  PROVE  Inv'
<1>t. TypeOK /\ Stages /\ Entries /\ Apart /\ Attempts /\ NotForgotten /\ Closed /\ Told
  BY DEF Inv
<1>f. /\ (conn # 0 => conn \in Calls) /\ MaxOpens \in Nat /\ opens \in Nat
      /\ opens <= MaxOpens /\ MaxAttempts \in Nat /\ MaxAttempts > 0 /\ tries \in Nat /\ decisions \subseteq Calls
      /\ overlapped \in BOOLEAN /\ closingOnPurpose \in BOOLEAN /\ shown \in BOOLEAN
  BY <1>t, TypeFacts
<1>1. /\ UNCHANGED <<requestExists, opens, pc, response, ws, streams, conn, stream, closingOnPurpose,
                      overlapped, closed>>
      /\ decisions' = decisions \ {e}
  BY DEF Decide
<1>n. /\ None.of = 0 /\ None.attempt = 0 /\ None.timer = FALSE /\ None.deciding = FALSE
  BY DEF None
<1>b. \A d \in Calls : Opening(d)' = Opening(d) /\ Unfinished(d)' = Unfinished(d) /\ Coming(d)' = Coming(d)
                        /\ Pending(d)' = Pending(d)
  BY <1>1 DEF Unfinished, Coming, Opening, Alive, Pending, Resumes
\* What a decision leaves of the entry, whichever way it goes.
<1>2. \/ /\ reconnect.of # e /\ reconnect' = reconnect /\ shown' = shown /\ tries' = tries
      \/ /\ reconnect.of = e /\ reconnect \in Entry /\ reconnect.deciding
         /\ \/ /\ conn # 0 /\ reconnect' \in Entry /\ ~reconnect'.deciding /\ ~reconnect'.timer
               /\ reconnect'.of = e /\ reconnect'.attempt = reconnect.attempt
               /\ reconnect'.response = reconnect.response
               /\ shown' = shown /\ tries' = tries
            \/ /\ conn = 0 /\ tries' \in {0, tries}
               /\ reconnect' = None /\ shown' = FALSE
            \/ /\ conn = 0 /\ tries' \in {0, tries}
               /\ reconnect' \in Entry /\ ~reconnect'.deciding /\ reconnect'.timer
               /\ reconnect'.of = e /\ reconnect'.response = reconnect.response
               /\ reconnect'.attempt \in 1..MaxAttempts
               /\ \/ tries' = 0
                  \/ tries' = tries /\ reconnect'.attempt = reconnect.attempt + 1
               /\ shown' = TRUE
  <2>1. CASE reconnect.of # e
    BY <2>1 DEF Decide
  <2>2. CASE reconnect.of = e
    <3>1. e \in Calls /\ e # 0
      BY <1>f DEF Calls
    <3>2. reconnect \in Entry /\ reconnect.deciding /\ ~reconnect.timer
      BY <2>2, <3>1, <1>n, <1>t DEF TypeOK, Entries
    <3>3. CASE conn # 0
      <4>1. reconnect' = [reconnect EXCEPT !.deciding = FALSE] /\ shown' = shown /\ tries' = tries
        BY <2>2, <3>3 DEF Decide
      <4> QED BY <4>1, <2>2, <3>2, <3>3 DEF Entry
    <3>4. CASE conn = 0
      <4> DEFINE attempt == IF stable THEN 0 ELSE reconnect.attempt
                 retries == requestExists /\ enabled /\ attempt < MaxAttempts
      <4>1. /\ tries' = IF stable THEN 0 ELSE tries
            /\ reconnect' = IF retries
                 THEN [reconnect EXCEPT !.deciding = FALSE, !.opened = FALSE, !.timer = TRUE,
                                        !.attempt = attempt + 1]
                 ELSE None
            /\ shown' = IsConnected(conn', ws', reconnect')
        BY <2>2, <3>4 DEF Decide, Broadcast
      <4>2. attempt \in 0..MaxAttempts
        BY <3>2, <1>f DEF Entry
      <4>3. CASE ~retries
        <5>1. reconnect' = None
          BY <4>1, <4>3
        <5>2. shown' = FALSE
          BY <4>1, <5>1, <1>1, <1>n, <3>4 DEF IsConnected
        <5> QED BY <5>1, <5>2, <4>1, <3>2, <3>4, <2>2
      <4>4. CASE retries
        <5>1. attempt + 1 \in 1..MaxAttempts
          BY <4>2, <4>4, <1>f
        <5>2. reconnect' = [reconnect EXCEPT !.deciding = FALSE, !.opened = FALSE, !.timer = TRUE,
                                             !.attempt = attempt + 1]
          BY <4>1, <4>4
        <5>3. attempt + 1 \in 0..MaxAttempts
          BY <5>1, <1>f
        <5> HIDE DEF retries
        <5>4. /\ reconnect' \in Entry /\ reconnect'.deciding = FALSE /\ reconnect'.timer = TRUE
              /\ reconnect'.of = e /\ reconnect'.response = reconnect.response
              /\ reconnect'.attempt = attempt + 1
          <6> HIDE DEF attempt
          <6> QED BY <5>2, <5>3, <3>2, <2>2 DEF Entry
        <5>5. shown' = TRUE
          BY <4>1, <5>4 DEF IsConnected
        <5>6. tries' = 0 \/ (tries' = tries /\ attempt = reconnect.attempt)
          BY <4>1
        <5> QED BY <5>1, <5>4, <5>5, <5>6, <3>2, <3>4, <2>2
      <4> QED BY <4>3, <4>4
    <3> QED BY <3>3, <3>4
  <2> QED BY <2>1, <2>2
<1>e. /\ reconnect.attempt \in 0..MaxAttempts /\ reconnect.of \in 0..MaxOpens
      /\ reconnect # None => reconnect.of \in Calls
      /\ reconnect.timer \in BOOLEAN /\ reconnect.deciding \in BOOLEAN
  BY <1>t, EntryFacts DEF TypeOK
<1>w. reconnect.of = e => reconnect # None
  BY <1>n, <1>f DEF Calls
<1> HIDE DEF None, Entry
<1>3. TypeOK'
  <2>1. tries' \in Nat /\ shown' \in BOOLEAN /\ reconnect' \in Entry \cup {None}
    <3>1. tries' \in {0, tries}
      BY <1>2
    <3>2. shown' \in BOOLEAN
      BY <1>2, <1>f
    <3>3. reconnect' \in Entry \cup {None}
      BY <1>2, <1>t DEF TypeOK
    <3>4. tries' \in Nat
      BY <3>1, <1>f
    <3> QED BY <3>2, <3>3, <3>4
  <2>2. {closingOnPurpose', shown', overlapped'} \subseteq BOOLEAN
    BY <1>1, <1>f, <2>1
  <2> QED BY <2>1, <2>2, <1>1, <1>t DEF TypeOK
<1>4. Stages'
  BY <1>1, <1>t DEF Stages, Stage
<1>5. Entries'
  <2>1. ASSUME conn # 0 PROVE Unfinished(conn)' /\ ws'[conn'] # "none"
    <3> SUFFICES ASSUME NEW d \in Calls, conn = d PROVE Unfinished(d)' /\ ws'[d] # "none"
      BY <1>1, <1>f, <2>1
    <3> QED BY <2>1, <1>1, <1>b, <1>t DEF Entries
  <2>2. reconnect' # None => /\ reconnect # None /\ reconnect'.of = reconnect.of
                             /\ reconnect'.response = reconnect.response
    BY <1>2, <1>w
  <2>3. \A d \in decisions' : reconnect'.of = d => reconnect'.deciding
    <3> SUFFICES ASSUME NEW d \in decisions, d # e, reconnect'.of = d PROVE reconnect'.deciding
      BY <1>1
    <3>1. d # 0
      BY <1>f DEF Calls
    <3> QED BY <3>1, <1>2, <1>n, <1>t DEF Entries
  <2>4. reconnect'.deciding => reconnect'.of \in decisions' /\ ~reconnect'.timer
    BY <1>1, <1>2, <1>n, <1>t DEF Entries
  <2> QED BY <2>1, <2>2, <2>3, <2>4, <1>1, <1>t DEF Entries
<1>6. Apart'
  BY <1>1, <1>b, <1>t DEF Apart, Alone
<1>7. Attempts'
  <2> SUFFICES ASSUME ~overlapped PROVE Counted' /\ \A d \in Calls : OnlyOne(d)'
    BY <1>1 DEF Attempts
  <2>1. Counted /\ \A d \in Calls : OnlyOne(d)
    BY <1>t DEF Attempts
  <2>2. reconnect.of = e => tries <= reconnect.attempt
    BY <2>1, <1>w DEF Counted
  <2>3. Counted'
    <3>1. CASE reconnect.of # e
      BY <3>1, <2>1, <1>2 DEF Counted
    <3>2. CASE reconnect' = None
      BY <3>2, <2>1, <1>2, <1>n, <1>f DEF Counted
    <3>3. CASE reconnect.of = e /\ reconnect'.timer
      BY <3>3, <2>1, <2>2, <1>2, <1>n, <1>f, <1>e DEF Counted
    <3>4. CASE reconnect.of = e /\ ~reconnect'.timer /\ reconnect' # None
      BY <3>4, <2>1, <2>2, <1>2 DEF Counted
    <3> QED BY <3>1, <3>2, <3>3, <3>4
  <2>4. ASSUME NEW d \in Calls PROVE OnlyOne(d)'
    <3>1. OnlyOne(d)
      BY <2>1
    <3>2. CASE reconnect.of # e
      BY <3>1, <3>2, <1>1, <1>2, <1>b DEF OnlyOne, Resumes
    <3>3. CASE reconnect.of = e
      BY <3>1, <3>3, <1>2, <1>b DEF OnlyOne
    <3> QED BY <3>2, <3>3
  <2> QED BY <2>3, <2>4
<1>8. NotForgotten'
  BY <1>1, <1>2, <1>b, <1>t DEF NotForgotten
<1>9. Closed'
  <2> SUFFICES ASSUME closed = "idle", ~overlapped
               PROVE  reconnect' = None /\ \A d \in Calls : ~Coming(d)' /\ ws'[d] # "open"
    BY <1>1 DEF Closed
  <2>1. reconnect = None /\ \A d \in Calls : ~Coming(d) /\ ws[d] # "open"
    BY <1>t DEF Closed
  <2> QED BY <2>1, <1>1, <1>2, <1>b, <1>w
<1>10. Told'
  <2>1. CASE reconnect.of # e
    BY <2>1, <1>1, <1>2, <1>b, <1>t DEF Told, ConnectedIsShown, IsConnected
  <2>2. CASE reconnect.of = e /\ conn # 0
    <3>1. Pending(conn)
      BY <2>2, <1>t DEF Entries, Pending
    <3>2. \E d \in Calls : Pending(d)'
      BY <2>2, <3>1, <1>f, <1>b
    <3>3. ConnectedIsShown'
      BY <2>2, <1>1, <1>2, <1>n, <1>t DEF Told, ConnectedIsShown, IsConnected
    <3> QED BY <3>2, <3>3 DEF Told
  <2>3. CASE reconnect.of = e /\ conn = 0
    BY <2>3, <1>1, <1>2, <1>n DEF Told, ConnectedIsShown, IsConnected
  <2> QED BY <2>1, <2>2, <2>3
<1> QED BY <1>3, <1>4, <1>5, <1>6, <1>7, <1>8, <1>9, <1>10 DEF Inv

LEMMA CloseInv == Inv /\ Close => Inv'
<1> SUFFICES ASSUME Inv, Close PROVE Inv'
  OBVIOUS
<1>t. TypeOK /\ Stages /\ Entries /\ Apart /\ Attempts /\ NotForgotten /\ Closed /\ Told
  BY DEF Inv
<1>f. /\ DOMAIN ws = Calls /\ conn \in 0..MaxOpens /\ (conn # 0 => conn \in Calls) /\ MaxOpens \in Nat
      /\ MaxAttempts \in Nat /\ decisions \subseteq Calls
      /\ overlapped \in BOOLEAN /\ closingOnPurpose \in BOOLEAN /\ shown \in BOOLEAN
  BY <1>t, TypeFacts
<1>n. /\ None.of = 0 /\ None.attempt = 0 /\ None.timer = FALSE /\ None.deciding = FALSE
  BY DEF None
<1>1. /\ UNCHANGED <<requestExists, opens, pc, response, streams, conn, stream, decisions, overlapped>>
      /\ reconnect' = None /\ tries' = 0
      /\ closed' = IF \E c \in Calls : Opening(c) THEN "opening" ELSE "idle"
      /\ closingOnPurpose' \in BOOLEAN
  BY <1>f DEF Close
<1>2. IF conn = 0 THEN ws' = ws /\ shown' = FALSE
      ELSE /\ shown' = shown
           /\ ws' = [ws EXCEPT ![conn] = IF ws[conn] \in {"connecting", "answered"} THEN "aborting"
                                         ELSE IF ws[conn] = "open" THEN "closing" ELSE ws[conn]]
  BY <1>1, <1>n DEF Close, Broadcast, IsConnected
<1>a. \A d \in Calls :
        /\ d # conn => ws'[d] = ws[d]
        /\ d = conn => ws'[d] = IF ws[d] \in {"connecting", "answered"} THEN "aborting"
                               ELSE IF ws[d] = "open" THEN "closing" ELSE ws[d]
  BY <1>2, <1>f DEF Calls
<1>u. \A d \in Calls : d = conn => Unfinished(d) /\ ws[d] # "none" /\ d # 0
  BY <1>f, <1>t DEF Entries, Calls
<1>b. \A d \in Calls : Opening(d)' = Opening(d) /\ Unfinished(d)' = Unfinished(d)
                        /\ Pending(d)' = Pending(d)
  BY <1>a, <1>u, <1>1 DEF Unfinished, Opening, Alive, Pending, Resumes
<1>3. TypeOK'
  <2>1. closed' \in {"no", "idle", "opening"} /\ tries' \in Nat
    BY <1>1
  <2>2. ws' \in [Calls -> {"none", "connecting", "aborting", "answered", "open", "closing", "erring",
                          "closed"}]
    BY <1>2, <1>t DEF TypeOK
  <2>3. {closingOnPurpose', shown', overlapped'} \subseteq BOOLEAN
    BY <1>1, <1>2, <1>f
  <2> QED BY <2>1, <2>2, <2>3, <1>1, <1>t DEF TypeOK
<1>4. Stages'
  BY <1>1, <1>a, <1>u, <1>t DEF Stages, Stage
<1>5. Entries'
  <2>1. ASSUME conn # 0 PROVE Unfinished(conn)' /\ ws'[conn'] # "none"
    <3> SUFFICES ASSUME NEW d \in Calls, conn = d PROVE Unfinished(d)' /\ ws'[d] # "none"
      BY <1>1, <1>f, <2>1
    <3> QED BY <2>1, <1>a, <1>b, <1>u
  <2>2. \A e \in decisions : ws'[e] \notin {"none", "connecting"}
    BY <1>a, <1>f, <1>t DEF Entries
  <2>3. \A e \in decisions : e # 0
    BY <1>f DEF Calls
  <2> QED BY <2>1, <2>2, <2>3, <1>1, <1>n DEF Entries
<1>6. Apart'
  BY <1>1, <1>a, <1>b, <1>t DEF Apart, Alone
<1>7. Attempts'
  BY <1>1, <1>n, <1>f DEF Attempts, Counted, OnlyOne
<1>8. NotForgotten'
  BY <1>1 DEF NotForgotten
<1>9. Closed'
  <2> SUFFICES ASSUME closed' = "idle", ~overlapped, NEW d \in Calls
               PROVE  ~Coming(d)' /\ ws'[d] # "open"
    BY <1>1 DEF Closed
  <2>1. ~Opening(d)'
    BY <1>1, <1>b
  <2>2. ws[d] \in {"connecting", "open"} => conn = d
    BY <1>t DEF Apart, Alone
  <2> QED BY <2>1, <2>2, <1>a DEF Coming
<1>10. Told'
  <2>1. CASE conn = 0
    BY <2>1, <1>1, <1>2, <1>n DEF Told, ConnectedIsShown, IsConnected
  <2>2. CASE conn # 0
    <3>1. conn \in Calls /\ Pending(conn)
      BY <2>2, <1>f, <1>u DEF Pending
    <3>2. \E d \in Calls : Pending(d)'
      BY <3>1, <1>b
    <3>3. ConnectedIsShown'
      BY <3>1, <1>a, <1>1, <1>n DEF ConnectedIsShown, IsConnected
    <3> QED BY <3>2, <3>3 DEF Told
  <2> QED BY <2>1, <2>2
<1> QED BY <1>3, <1>4, <1>5, <1>6, <1>7, <1>8, <1>9, <1>10 DEF Inv

LEMMA RemoveRequestInv == Inv /\ RemoveRequest => Inv'
<1> SUFFICES ASSUME Inv, RemoveRequest PROVE Inv'
  OBVIOUS
<1>1. /\ requestExists' = FALSE
      /\ UNCHANGED <<opens, pc, response, ws, streams, conn, stream, reconnect, closingOnPurpose,
                     decisions, shown, overlapped, closed, tries>>
  BY DEF RemoveRequest, maps
<1>2. TypeOK' /\ Stages' /\ Entries'
  BY <1>1 DEF Inv, TypeOK, Stages, Stage, Entries, Unfinished, Opening, Alive
<1>3. Apart' /\ Attempts' /\ NotForgotten' /\ Closed'
  BY <1>1 DEF Inv, Apart, Alone, Attempts, Counted, OnlyOne, NotForgotten, Closed, Coming, Resumes,
              Unfinished, Opening, Alive
<1>4. Told'
  BY <1>1 DEF Inv, Told, ConnectedIsShown, IsConnected
<1> QED BY <1>2, <1>3, <1>4 DEF Inv

LEMMA StutterInv == Inv /\ UNCHANGED vars => Inv'
<1> SUFFICES ASSUME Inv, UNCHANGED vars PROVE Inv'
  OBVIOUS
<1>1. TypeOK' /\ Stages' /\ Entries'
  BY DEF vars, maps, Inv, TypeOK, Stages, Stage, Entries, Unfinished, Opening, Alive
<1>2. Apart' /\ Attempts' /\ NotForgotten' /\ Closed'
  BY DEF vars, maps, Inv, Apart, Alone, Attempts, Counted, OnlyOne, NotForgotten, Closed, Coming,
         Resumes, Unfinished, Opening, Alive
<1>3. Told'
  BY DEF vars, maps, Inv, Told, ConnectedIsShown, IsConnected, Pending, Resumes, Unfinished, Opening,
         Alive
<1> QED BY <1>1, <1>2, <1>3 DEF Inv

-----------------------------------------------------------------------------
\* The connection's invariant holds throughout: whatever calls, sockets and the
\* timer do, in whichever order.
THEOREM SpecInv == Spec => []Inv
<1>1. Init => Inv
  BY InitInv
<1>2. Inv /\ [Next]_vars => Inv'
  <2> SUFFICES ASSUME Inv, [Next]_vars PROVE Inv'
    OBVIOUS
  <2>1. CASE Open
    BY <2>1, OpenInv
  <2>2. CASE TimerFires
    BY <2>2, TimerFiresInv
  <2>3. CASE Close
    BY <2>3, CloseInv
  <2>4. CASE RemoveRequest
    BY <2>4, RemoveRequestInv
  <2>5. ASSUME NEW c \in Calls, GotRequest(c) PROVE Inv'
    BY <2>5, GotRequestInv
  <2>6. ASSUME NEW c \in Calls, GotEnvironment(c) PROVE Inv'
    BY <2>6, GotEnvironmentInv
  <2>7. ASSUME NEW c \in Calls, Connect(c) PROVE Inv'
    BY <2>7, ConnectInv
  <2>8. ASSUME NEW c \in Calls, PrepareFails(c) PROVE Inv'
    BY <2>8, PrepareFailsInv
  <2>9. ASSUME NEW c \in Calls, SocketOpens(c) PROVE Inv'
    BY <2>9, SocketOpensInv
  <2>10. ASSUME NEW c \in Calls, SocketFails(c) \/ SocketErrs(c) \/ SocketCloses(c) PROVE Inv'
    BY <2>10, SocketEndsInv
  <2>11. ASSUME NEW c \in Calls, HttpAnswer(c) PROVE Inv'
    BY <2>11, HttpAnswerInv
  <2>12. ASSUME NEW c \in Calls, AnswerSaved(c) PROVE Inv'
    BY <2>12, AnswerSavedInv
  <2>13. ASSUME NEW c \in Calls, MessageEnds(c) PROVE Inv'
    BY <2>13, MessageEndsInv
  <2>14. ASSUME NEW e \in decisions, NEW enabled \in BOOLEAN, NEW stable \in BOOLEAN,
                Decide(e, enabled, stable)
         PROVE  Inv'
    BY <2>14, DecideInv
  <2>15. CASE UNCHANGED vars
    BY <2>15, StutterInv
  <2> QED BY <2>1, <2>2, <2>3, <2>4, <2>5, <2>6, <2>7, <2>8, <2>9, <2>10, <2>11, <2>12, <2>13, <2>14,
             <2>15 DEF Next
<1> QED BY <1>1, <1>2, PTL DEF Spec

\* As long as calls did not overlap, a live socket is in the map, where it can
\* be sent on and closed, and so is every log file that is open.
THEOREM ConnectionsTracked == Spec => []Tracked
<1>1. Inv => Tracked
  BY DEF Inv, Tracked, Apart, Alone
<1> QED BY <1>1, SpecInv, PTL

\* A connection that dropped is being decided about, waits for its timer or is
\* being opened: afterDrop and the timer hand it on without a gap.
THEOREM NeverForgotten == Spec => []NotForgotten
<1>1. Inv => NotForgotten
  BY DEF Inv
<1> QED BY <1>1, SpecInv, PTL

\* A connection that drops again and again is reopened maxAttempts times at
\* most, whatever maxAttempts is.
THEOREM ReconnectsRunOut == Spec => []AttemptsRunOut
<1>1. Inv => AttemptsRunOut
  BY DEF Inv, AttemptsRunOut, Attempts, Counted
<1> QED BY <1>1, SpecInv, PTL

\* closeWebSocketConnection, with no call in its awaits, leaves nothing that
\* opens later.
THEOREM ClosedForGood == Spec => []CloseIsFinal
<1>1. Inv => CloseIsFinal
  BY DEF Inv, CloseIsFinal, Closed, Coming
<1> QED BY <1>1, SpecInv, PTL

\* What broadcastReadyState told the windows last shows every connection that
\* can be acted on, and nothing once all is over; overlapping calls included.
THEOREM StatusShown == Spec => []StatusIsShown
<1>1. Inv => StatusIsShown
  <2> SUFFICES ASSUME Inv PROVE StatusIsShown
    OBVIOUS
  <2>1. ConnectedIsShown
    BY DEF Inv, Told
  <2>2. DisconnectedIsShown
    <3> SUFFICES ASSUME \A c \in Calls : ~Unfinished(c) /\ (pc[c] = "done" => Resumes(c) \/ ws[c] # "none"),
                        decisions = {}, ~reconnect.timer, requestExists
                 PROVE  ~shown
      BY DEF DisconnectedIsShown
    <3>1. ~reconnect.deciding
      BY DEF Inv, Entries
    <3>2. \A c \in Calls : ~Pending(c)
      BY DEF Pending
    <3> QED BY <3>1, <3>2 DEF Inv, Told
  <2> QED BY <2>1, <2>2 DEF StatusIsShown
<1> QED BY <1>1, SpecInv, PTL
=============================================================================
