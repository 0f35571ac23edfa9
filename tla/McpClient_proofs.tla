-------------------------- MODULE McpClient_proofs --------------------------
(***************************************************************************)
(* Proofs about McpClient, for any calls of connect and disconnect, and    *)
(* however often the user leaves.  What is said of the connections is      *)
(* proved where no call comes while another loads the SDK or closes an     *)
(* earlier connection (~Amid), as TLC's run has it.                        *)
(***************************************************************************)
EXTENDS McpClient, SequenceTheorems, TLAPS

Places ==
  {"idle", "rendering", "asked", "loading", "closing pending", "closing connection", "opening",
   "listing", "discarding", "done"}

Messages == {"connected", "failed", "disconnected", "closed", "stopped"}

Types ==
  /\ connecting \in Clients \cup {None} /\ connection \in Clients \cup {None}
  /\ clients \in [Clients -> {"none", "opening", "open", "closed"}]
  /\ at \in [Calls -> Places]
  /\ using \in [Calls -> Clients \cup {None}]
  /\ shown \in {"disconnected", "connecting", "connected"}
  /\ toWindow \in Seq(Messages)
  /\ viewed \in BOOLEAN /\ unheard \in BOOLEAN
  /\ stopped \subseteq Connects

\* A connect works with a client of its own; a call that closes a connection,
\* with the one it closes.
Owned ==
  \A c \in Calls :
    /\ at[c] \in {"opening", "listing", "discarding"} =>
         c \in Connects /\ using[c] \in Clients /\ using[c][1] = c
    /\ at[c] = "closing connection" => using[c] \in Clients
    /\ at[c] = "loading" => c \in Connects
    /\ at[c] = "rendering" => c \in Window

LEMMA CallsOf == Connects \subseteq Calls /\ Disconnects \subseteq Calls
BY DEF Calls

LEMMA ClientOf ==
  ASSUME NEW c \in Connects, NEW n \in {1, 2}
  PROVE  Client(c, n) \in Clients /\ Client(c, n)[1] = c /\ Client(c, n) # None
BY DEF Client, Clients, None

LEMMA NoneIsNoClient == None \notin Clients
BY DEF Clients, None

LEMMA OneMessage ==
  ASSUME NEW S, NEW x \in S
  PROVE  <<x>> \in Seq(S)
OBVIOUS

LEMMA AnswerType ==
  ASSUME NEW c, NEW text \in Messages
  PROVE  Answer(c, text) \in Seq(Messages)
BY DEF Answer

TypeInv == Types /\ Owned

\* What follows mcpDisconnect, with `told` said first and the clients as they are `now`.
LEMMA FollowType ==
  ASSUME TypeInv, NEW c \in Calls, NEW told \in Seq(Messages),
         NEW now \in [Clients -> {"none", "opening", "open", "closed"}], Follow(c, told, now)
  PROVE  /\ connecting' \in Clients \cup {None} /\ toWindow' \in Seq(Messages)
         /\ clients' \in [Clients -> {"none", "opening", "open", "closed"}]
         /\ at' \in [Calls -> Places] /\ using' \in [Calls -> Clients \cup {None}]
         /\ Owned'
<1>. USE DEF TypeInv, Types
<1>1. CASE c \in Connects
  <2>1. Client(c, 1) \in Clients /\ Client(c, 1)[1] = c
    BY <1>1, ClientOf
  <2>a. toWindow' = toWindow \o told
    BY <1>1 DEF Follow
  <2>2. toWindow' \in Seq(Messages)
    BY <2>a, ConcatProperties
  <2>3. /\ at' = [at EXCEPT ![c] = "opening"]
        /\ using' = [using EXCEPT ![c] = Client(c, 1)]
        /\ connecting' = Client(c, 1)
        /\ clients' = [now EXCEPT ![Client(c, 1)] = "opening"]
    BY <1>1 DEF Follow, Start
  <2>4. Owned'
    BY <1>1, <2>1, <2>3 DEF Owned
  <2>. QED  BY <2>1, <2>2, <2>3, <2>4 DEF Places
<1>2. CASE c \notin Connects
  <2>1. /\ at' = [at EXCEPT ![c] = "done"]
        /\ using' = [using EXCEPT ![c] = None]
        /\ clients' = now /\ UNCHANGED connecting
        /\ toWindow' = toWindow \o told \o Answer(c, "disconnected")
    BY <1>2 DEF Follow
  <2>2. toWindow' \in Seq(Messages)
    BY <2>1, AnswerType, ConcatProperties DEF Messages
  <2>3. Owned'
    BY <2>1 DEF Owned
  <2>. QED  BY <2>1, <2>2, <2>3 DEF Places
<1>. QED  BY <1>1, <1>2

LEMMA EndsType ==
  ASSUME TypeInv, NEW c \in Calls, NEW text \in Messages, Ends(c, text)
  PROVE  /\ toWindow' \in Seq(Messages) /\ at' \in [Calls -> Places]
         /\ using' \in [Calls -> Clients \cup {None}] /\ Owned'
<1>. USE DEF TypeInv, Types, Ends
<1>1. toWindow' \in Seq(Messages)
  BY AnswerType, ConcatProperties
<1>2. Owned'
  BY DEF Owned
<1>. QED  BY <1>1, <1>2 DEF Places

LEMMA TypeStep ==
  ASSUME TypeInv, [Next]_vars
  PROVE  TypeInv'
<1>. USE DEF TypeInv, Types, Places
<1>1. ASSUME NEW c \in Calls, Render(c) \/ NotRendered(c) PROVE TypeInv'
  BY <1>1 DEF Render, NotRendered, Owned, maps, window, history
<1>2. ASSUME NEW c \in Calls, AskToConnect(c) PROVE TypeInv'
  BY <1>2 DEF AskToConnect, Owned, maps, history
<1>3. ASSUME NEW c \in Calls, AskToDisconnect(c) PROVE TypeInv'
  BY <1>3 DEF AskToDisconnect, Owned, maps, window, history
<1>4. ASSUME NEW c \in Calls, Connect(c) PROVE TypeInv'
  BY <1>4 DEF Connect, Owned, maps, window, history
<1>5. ASSUME NEW c \in Calls, SdkLoaded(c) PROVE TypeInv'
  BY <1>5 DEF SdkLoaded, ClosePending, Owned, window
<1>6. ASSUME NEW c \in Calls, Disconnect(c) PROVE TypeInv'
  BY <1>6 DEF Disconnect, ClosePending, Owned, window
<1>7. ASSUME NEW c \in Calls, PendingClosed(c) PROVE TypeInv'
  <2>1. CASE connection = None
    BY <1>7, <2>1, FollowType, EmptySeq DEF PendingClosed, window
  <2>2. CASE connection # None
    BY <1>7, <2>2 DEF PendingClosed, Owned, window
  <2>. QED  BY <2>1, <2>2
<1>8. ASSUME NEW c \in Calls, ConnectionClosed(c) PROVE TypeInv'
  <2>1. <<"closed">> \in Seq(Messages)
    BY OneMessage DEF Messages
  <2>2. [clients EXCEPT ![using[c]] = "closed"]
          \in [Clients -> {"none", "opening", "open", "closed"}]
    OBVIOUS
  <2>. QED  BY <1>8, <2>1, <2>2, FollowType DEF ConnectionClosed, window
<1>9. ASSUME NEW c \in Calls, Opened(c) PROVE TypeInv'
  BY <1>9 DEF Opened, Owned, window, maps, history
<1>10. ASSUME NEW c \in Calls, RefusedFirst(c) PROVE TypeInv'
  <2>1. c \in Connects
    BY <1>10 DEF RefusedFirst, Owned
  <2>2. Client(c, 2) \in Clients /\ Client(c, 2)[1] = c
    BY <2>1, ClientOf
  <2>. QED  BY <1>10, <2>1, <2>2 DEF RefusedFirst, Start, Owned, window
<1>11. ASSUME NEW c \in Calls, Refused(c) PROVE TypeInv'
  BY <1>11, EndsType DEF Refused, window, Messages, history
<1>12. ASSUME NEW c \in Calls, Discarded(c) PROVE TypeInv'
  BY <1>12, EndsType DEF Discarded, window, Messages, maps, history
<1>13. ASSUME NEW c \in Calls, Listed(c) \/ NotListed(c) PROVE TypeInv'
  BY <1>13, EndsType DEF Listed, NotListed, window, Messages, maps, history
<1>14. ASSUME NEW k \in Clients, ServerCloses(k) PROVE TypeInv'
  <2>1. Append(toWindow, "closed") \in Seq(Messages)
    BY AppendProperties DEF Messages
  <2>. QED  BY <1>14, <2>1 DEF ServerCloses, Owned, calls, window, history
<1>15. ASSUME Receive PROVE TypeInv'
  <2>1. Tail(toWindow) \in Seq(Messages) /\ Head(toWindow) \in Messages
    BY <1>15, HeadTailProperties DEF Receive
  <2>2. ShownAfter(Head(toWindow)) \in {"disconnected", "connecting", "connected"}
    BY <2>1 DEF ShownAfter, Messages
  <2>. QED  BY <1>15, <2>1, <2>2 DEF Receive, Owned, calls, maps
<1>16. ASSUME Leave \/ Return PROVE TypeInv'
  BY <1>16 DEF Leave, Return, Owned, calls, maps, history
<1>17. CASE UNCHANGED vars
  BY <1>17 DEF vars, history, maps, calls, window, Owned
<1>. QED
  BY <1>1, <1>2, <1>3, <1>4, <1>5, <1>6, <1>7, <1>8, <1>9, <1>10, <1>11, <1>12, <1>13, <1>14,
     <1>15, <1>16, <1>17 DEF Next

\* Every state is well typed, and a call that connects works with a client of its own.
THEOREM TypeCorrect == Spec => []TypeInv
<1>1. Init => TypeInv
  BY CallsAssumption, EmptySeq DEF Init, TypeInv, Types, Owned, Places
<1>. QED  BY <1>1, TypeStep, PTL DEF Spec

-----------------------------------------------------------------------------
\* What OneConnection rests on: while a client connects the request has no
\* connection, and only one call at a time takes the earlier ones away.
Single ==
  /\ connecting # None => connection = None
  /\ \A c \in Calls :
       /\ at[c] \in {"closing pending", "closing connection"} => connecting = None
       /\ at[c] = "closing connection" => connection = None
  /\ \A c, d \in Calls : at[c] \in Unsettled /\ at[d] \in Unsettled => c = d

\* What StopIsFinal rests on: a connect that was stopped has a client, which is
\* not the one that is connecting.
StoppedIsOut ==
  \A c \in stopped :
    /\ at[c] \in {"opening", "listing", "discarding", "done"}
    /\ connecting # None => connecting[1] # c

ConnInv == Single /\ StoppedIsOut /\ OneConnection

LEMMA FollowConn ==
  ASSUME TypeInv, ConnInv, ~Amid, NEW c \in Calls, NEW told \in Seq(Messages),
         at[c] \in {"closing pending", "closing connection"},
         NEW now \in [Clients -> {"none", "opening", "open", "closed"}],
         \/ now = clients /\ at[c] = "closing pending"
         \/ now = [clients EXCEPT ![using[c]] = "closed"] /\ using[c] \in Clients,
         Follow(c, told, now), connection = None, UNCHANGED <<connection, stopped>>
  PROVE  ConnInv'
<1>. USE DEF ConnInv
<1>t. /\ at \in [Calls -> Places] /\ using \in [Calls -> Clients \cup {None}]
      /\ clients \in [Clients -> {"none", "opening", "open", "closed"}] /\ stopped \subseteq Calls
  BY CallsOf DEF TypeInv, Types
<1>1. CASE c \in Connects
  <2>1. /\ at' = [at EXCEPT ![c] = "opening"]
        /\ using' = [using EXCEPT ![c] = Client(c, 1)]
        /\ connecting' = Client(c, 1)
        /\ clients' = [now EXCEPT ![Client(c, 1)] = "opening"]
    BY <1>1 DEF Follow, Start
  <2>2. Client(c, 1) \in Clients /\ Client(c, 1)[1] = c
    BY <1>1, ClientOf
  <2>3. Single'
    BY <1>t, <2>1, <2>2 DEF Single, Unsettled
  <2>4. StoppedIsOut'
    BY <1>t, <2>1, <2>2 DEF StoppedIsOut
  <2>5. ASSUME NEW k \in Clients, clients'[k] = "open"
        PROVE  clients[k] = "open" /\ (at[c] = "closing connection" => k # using[c])
    BY <1>t, <2>1, <2>2, <2>5
  <2>6. ASSUME NEW k \in Clients, clients'[k] = "open"
        PROVE  \/ connection' = k
               \/ \E d \in Calls : using'[d] = k /\ at'[d] \in {"discarding", "closing connection"}
    <3>1. CASE connection = k
      BY <2>1, <3>1
    <3>2. CASE connection # k
      <4>1. PICK d \in Calls : using[d] = k /\ at[d] \in {"discarding", "closing connection"}
        BY <2>6, <2>5, <3>2 DEF OneConnection
      <4>2. d # c
        BY <2>1, <2>6, <2>5, <4>1
      <4>. QED  BY <1>t, <2>1, <4>1, <4>2
    <3>. QED  BY <3>1, <3>2
  <2>7. OneConnection'
    BY <2>6 DEF OneConnection
  <2>. QED  BY <2>3, <2>4, <2>7
<1>2. CASE c \notin Connects
  <2>1. /\ at' = [at EXCEPT ![c] = "done"]
        /\ using' = [using EXCEPT ![c] = None]
        /\ clients' = now /\ UNCHANGED connecting
    BY <1>2 DEF Follow
  <2>2. Single'
    BY <1>t, <2>1 DEF Single, Unsettled
  <2>3. StoppedIsOut'
    BY <1>t, <2>1 DEF StoppedIsOut
  <2>4. ASSUME NEW k \in Clients, clients'[k] = "open"
        PROVE  clients[k] = "open" /\ (at[c] = "closing connection" => k # using[c])
    BY <1>t, <2>1, <2>4
  <2>5. ASSUME NEW k \in Clients, clients'[k] = "open"
        PROVE  \/ connection' = k
               \/ \E d \in Calls : using'[d] = k /\ at'[d] \in {"discarding", "closing connection"}
    <3>1. CASE connection = k
      BY <2>1, <3>1
    <3>2. CASE connection # k
      <4>1. PICK d \in Calls : using[d] = k /\ at[d] \in {"discarding", "closing connection"}
        BY <2>5, <2>4, <3>2 DEF OneConnection
      <4>2. d # c
        BY <2>1, <2>5, <2>4, <4>1
      <4>. QED  BY <1>t, <2>1, <4>1, <4>2
    <3>. QED  BY <3>1, <3>2
  <2>6. OneConnection'
    BY <2>5 DEF OneConnection
  <2>. QED  BY <2>2, <2>3, <2>6
<1>. QED  BY <1>1, <1>2

LEMMA ConnStep ==
  ASSUME TypeInv, ConnInv, ~Amid, [Next]_vars
  PROVE  ConnInv'
<1>. USE DEF ConnInv
<1>t. /\ at \in [Calls -> Places] /\ using \in [Calls -> Clients \cup {None}]
      /\ clients \in [Clients -> {"none", "opening", "open", "closed"}] /\ stopped \subseteq Calls
  BY CallsOf DEF TypeInv, Types
<1>o. ASSUME NEW c \in Calls, at[c] \in {"opening", "listing", "discarding"}
      PROVE  c \in Connects /\ using[c] \in Clients /\ using[c][1] = c /\ using[c] # None
  BY <1>o, NoneIsNoClient DEF TypeInv, Owned
<1>1. ASSUME NEW c \in Calls, Render(c) \/ NotRendered(c) \/ AskToConnect(c) \/ AskToDisconnect(c)
      PROVE ConnInv'
  <2>1. /\ UNCHANGED <<connecting, connection, clients, using, stopped>>
        /\ at' = [at EXCEPT ![c] = at'[c]]
        /\ at[c] \in {"idle", "rendering"} /\ at'[c] \in {"rendering", "asked", "done"}
    BY <1>t, <1>1 DEF Render, NotRendered, AskToConnect, AskToDisconnect, maps, history
  <2>2. Single'
    BY <1>t, <2>1 DEF Single, Unsettled
  <2>3. StoppedIsOut'
    BY <1>t, <2>1 DEF StoppedIsOut
  <2>4. OneConnection'
    BY <1>t, <2>1 DEF OneConnection
  <2>. QED  BY <2>2, <2>3, <2>4
<1>2. ASSUME NEW c \in Calls, Connect(c) PROVE ConnInv'
  <2>1. /\ UNCHANGED <<connecting, connection, clients, using, stopped>>
        /\ at' = [at EXCEPT ![c] = "loading"]
        /\ at[c] \in {"idle", "asked"} /\ \A d \in Calls : at[d] \notin Unsettled
    BY <1>2 DEF Connect, Takes, maps, history
  <2>2. Single'
    BY <1>t, <2>1 DEF Single, Unsettled
  <2>3. StoppedIsOut'
    BY <1>t, <2>1 DEF StoppedIsOut
  <2>4. OneConnection'
    BY <1>t, <2>1 DEF OneConnection
  <2>. QED  BY <2>2, <2>3, <2>4
<1>3. ASSUME NEW c \in Calls, SdkLoaded(c) PROVE ConnInv'
  <2>1. /\ connecting' = None /\ UNCHANGED <<connection, clients, stopped>>
        /\ at' = [at EXCEPT ![c] = "closing pending"]
        /\ using' = [using EXCEPT ![c] = connecting]
        /\ at[c] = "loading"
    BY <1>3 DEF SdkLoaded, ClosePending
  <2>2. Single'
    BY <1>t, <2>1 DEF Single, Unsettled
  <2>3. StoppedIsOut'
    BY <1>t, <2>1 DEF StoppedIsOut
  <2>4. OneConnection'
    BY <1>t, <2>1 DEF OneConnection
  <2>. QED  BY <2>2, <2>3, <2>4
<1>4. ASSUME NEW c \in Calls, Disconnect(c) PROVE ConnInv'
  <2>1. /\ connecting' = None /\ UNCHANGED <<connection, clients>>
        /\ at' = [at EXCEPT ![c] = "closing pending"]
        /\ using' = [using EXCEPT ![c] = connecting]
        /\ c \notin Connects /\ at[c] \in {"idle", "asked"}
        /\ \A d \in Calls : at[d] \notin Unsettled
        /\ stopped' = stopped \cup
             {d \in Connects : at[d] \notin {"idle", "rendering", "asked", "done"}}
    BY <1>4, CallsAssumption DEF Disconnect, ClosePending, Takes
  <2>2. Single'
    BY <1>t, <2>1 DEF Single, Unsettled
  <2>3. OneConnection'
    BY <1>t, <2>1 DEF OneConnection
  <2>4. ASSUME NEW d \in stopped'
        PROVE  at'[d] \in {"opening", "listing", "discarding", "done"}
    <3>0. d \in Calls /\ d \in Connects
      BY <1>t, <2>1, CallsOf DEF TypeInv, Types
    <3>1. d # c /\ at'[d] = at[d]
      BY <1>t, <2>1, <3>0
    <3>2. CASE d \in stopped
      BY <3>1, <3>2 DEF StoppedIsOut
    <3>3. CASE at[d] \notin {"idle", "rendering", "asked", "done"}
      <4>1. at[d] \in Places /\ at[d] \notin Unsettled
        BY <1>t, <2>1, <3>0
      <4>. QED  BY <3>1, <3>3, <4>1 DEF Unsettled, Places
    <3>. QED  BY <2>1, <3>2, <3>3
  <2>5. StoppedIsOut'
    BY <2>1, <2>4 DEF StoppedIsOut
  <2>. QED  BY <2>2, <2>3, <2>5
<1>5. ASSUME NEW c \in Calls, PendingClosed(c) PROVE ConnInv'
  <2>1. CASE connection = None
    BY <1>5, <1>t, <2>1, FollowConn, EmptySeq DEF PendingClosed
  <2>2. CASE connection # None
    <3>1. /\ connection' = None /\ UNCHANGED <<connecting, clients, stopped>>
          /\ at' = [at EXCEPT ![c] = "closing connection"]
          /\ using' = [using EXCEPT ![c] = connection]
          /\ at[c] = "closing pending"
      BY <1>5, <2>2 DEF PendingClosed
    <3>2. Single'
      BY <1>t, <3>1 DEF Single, Unsettled
    <3>3. StoppedIsOut'
      BY <1>t, <3>1 DEF StoppedIsOut
    <3>4. ASSUME NEW k \in Clients, clients'[k] = "open"
          PROVE  \E d \in Calls : using'[d] = k /\ at'[d] \in {"discarding", "closing connection"}
      <4>1. CASE connection = k
        BY <1>t, <3>1, <4>1
      <4>2. CASE connection # k
        BY <1>t, <3>1, <3>4, <4>2 DEF OneConnection
      <4>. QED  BY <4>1, <4>2
    <3>5. OneConnection'
      BY <3>4 DEF OneConnection
    <3>. QED  BY <3>2, <3>3, <3>5
  <2>. QED  BY <2>1, <2>2
<1>6. ASSUME NEW c \in Calls, ConnectionClosed(c) PROVE ConnInv'
  <2>1. <<"closed">> \in Seq(Messages)
    BY OneMessage DEF Messages
  <2>2. [clients EXCEPT ![using[c]] = "closed"]
          \in [Clients -> {"none", "opening", "open", "closed"}]
    BY <1>t
  <2>3. at[c] = "closing connection" /\ using[c] \in Clients /\ connection = None
    BY <1>6 DEF ConnectionClosed, Single, TypeInv, Owned
  <2>4. /\ Follow(c, <<"closed">>, [clients EXCEPT ![using[c]] = "closed"])
        /\ UNCHANGED <<connection, stopped>>
    BY <1>6 DEF ConnectionClosed
  <2>. QED  BY <2>1, <2>2, <2>3, <2>4, FollowConn
<1>7. ASSUME NEW c \in Calls, Opened(c) PROVE ConnInv'
  <2>1. /\ at[c] = "opening" /\ clients' = [clients EXCEPT ![using[c]] = "open"]
        /\ UNCHANGED <<using, stopped>>
        /\ \/ /\ connecting # using[c]
              /\ at' = [at EXCEPT ![c] = "discarding"] /\ UNCHANGED <<connecting, connection>>
           \/ /\ connecting = using[c]
              /\ at' = [at EXCEPT ![c] = "listing"]
              /\ connecting' = None /\ connection' = using[c]
    BY <1>7 DEF Opened, IsStopped, maps, history
  <2>a. connecting = using[c] => \A d \in Calls : at[d] # "closing connection"
    BY <1>o, <2>1 DEF Single
  <2>2. Single'
    <3>1. CASE connecting # using[c]
      BY <1>t, <2>1, <3>1 DEF Single, Unsettled
    <3>2. CASE connecting = using[c]
      BY <1>t, <2>1, <2>a, <3>2 DEF Single, Unsettled
    <3>. QED  BY <3>1, <3>2
  <2>3. StoppedIsOut'
    BY <1>t, <2>1 DEF StoppedIsOut
  <2>4. ASSUME NEW k \in Clients, clients'[k] = "open"
        PROVE  clients[k] = "open" \/ k = using[c]
    BY <1>t, <2>1, <2>4
  <2>5. connecting = using[c] => connection = None
    BY <1>o, <2>1 DEF Single
  <2>6. ASSUME NEW k \in Clients, clients'[k] = "open"
        PROVE  \/ connection' = k
               \/ \E d \in Calls : using'[d] = k /\ at'[d] \in {"discarding", "closing connection"}
    <3>1. CASE k = using[c]
      BY <1>t, <2>1, <3>1
    <3>2. CASE k # using[c] /\ connection = k
      BY <2>1, <2>5, <3>2, NoneIsNoClient
    <3>3. CASE k # using[c] /\ connection # k
      BY <1>t, <2>1, <2>4, <2>6, <3>3 DEF OneConnection
    <3>. QED  BY <3>1, <3>2, <3>3
  <2>7. OneConnection'
    BY <2>6 DEF OneConnection
  <2>. QED  BY <2>2, <2>3, <2>7
<1>8. ASSUME NEW c \in Calls, RefusedFirst(c) PROVE ConnInv'
  <2>1. at[c] = "opening" /\ connecting = using[c]
    BY <1>8 DEF RefusedFirst, Again, IsStopped
  <2>2. Client(c, 2) \in Clients /\ Client(c, 2)[1] = c
    BY <1>o, <2>1, ClientOf
  <2>3. /\ at' = [at EXCEPT ![c] = "opening"] /\ UNCHANGED <<connection, stopped>>
        /\ using' = [using EXCEPT ![c] = Client(c, 2)] /\ connecting' = Client(c, 2)
        /\ clients' = [clients EXCEPT ![using[c]] = "closed", ![Client(c, 2)] = "opening"]
    BY <1>8 DEF RefusedFirst, Start
  <2>a. /\ connection = None
        /\ \A d \in Calls : at[d] \notin {"closing pending", "closing connection"}
    BY <1>o, <2>1 DEF Single
  <2>4. Single'
    BY <1>t, <2>1, <2>a, <2>3 DEF Single, Unsettled
  <2>5. c \notin stopped
    BY <1>o, <2>1 DEF StoppedIsOut
  <2>6. StoppedIsOut'
    BY <1>t, <2>2, <2>3, <2>5 DEF StoppedIsOut
  <2>7. \A k \in Clients : clients'[k] = "open" => clients[k] = "open"
    BY <1>t, <2>2, <2>3
  <2>8. OneConnection'
    BY <1>t, <2>1, <2>3, <2>7 DEF OneConnection
  <2>. QED  BY <2>4, <2>6, <2>8
<1>9. ASSUME NEW c \in Calls, Refused(c) \/ Discarded(c) \/ Listed(c) \/ NotListed(c) PROVE ConnInv'
  <2>1. /\ at' = [at EXCEPT ![c] = "done"] /\ using' = [using EXCEPT ![c] = None]
        /\ at[c] \in {"opening", "listing", "discarding"}
        /\ UNCHANGED <<connection, stopped>> /\ connecting' \in {connecting, None}
        /\ \/ clients' = [clients EXCEPT ![using[c]] = "closed"]
           \/ clients' = clients /\ at[c] = "listing"
    BY <1>9 DEF Refused, Discarded, Listed, NotListed, Ends, maps, history
  <2>2. Single'
    BY <1>t, <2>1 DEF Single, Unsettled
  <2>3. StoppedIsOut'
    BY <1>t, <2>1 DEF StoppedIsOut
  <2>4. ASSUME NEW k \in Clients, clients'[k] = "open"
        PROVE  clients[k] = "open" /\ (at[c] = "discarding" => k # using[c])
    BY <1>t, <1>o, <2>1, <2>4
  <2>5. ASSUME NEW k \in Clients, clients'[k] = "open"
        PROVE  \/ connection' = k
               \/ \E d \in Calls : using'[d] = k /\ at'[d] \in {"discarding", "closing connection"}
    <3>1. CASE connection = k
      BY <2>1, <3>1
    <3>2. CASE connection # k
      <4>1. PICK d \in Calls : using[d] = k /\ at[d] \in {"discarding", "closing connection"}
        BY <2>5, <2>4, <3>2 DEF OneConnection
      <4>2. d # c
        BY <2>1, <2>5, <2>4, <4>1
      <4>. QED  BY <1>t, <2>1, <4>1, <4>2
    <3>. QED  BY <3>1, <3>2
  <2>6. OneConnection'
    BY <2>5 DEF OneConnection
  <2>. QED  BY <2>2, <2>3, <2>6
<1>10. ASSUME NEW k \in Clients, ServerCloses(k) PROVE ConnInv'
  <2>1. /\ clients' = [clients EXCEPT ![k] = "closed"]
        /\ UNCHANGED <<connecting, at, using, stopped>>
        /\ IF connection = k THEN connection' = None ELSE connection' = connection
    BY <1>10 DEF ServerCloses, calls, history
  <2>2. Single' /\ StoppedIsOut'
    BY <2>1 DEF Single, StoppedIsOut
  <2>3. \A j \in Clients : clients'[j] = "open" => clients[j] = "open" /\ j # k
    BY <1>t, <2>1
  <2>4. OneConnection'
    BY <2>1, <2>3 DEF OneConnection
  <2>. QED  BY <2>2, <2>4
<1>11. CASE Receive \/ Leave \/ Return \/ UNCHANGED vars
  <2>1. UNCHANGED <<connecting, connection, clients, at, using, stopped>>
    BY <1>11 DEF Receive, Leave, Return, vars, history, maps, calls
  <2>. QED  BY <2>1 DEF Single, StoppedIsOut, OneConnection
<1>. QED
  BY <1>1, <1>2, <1>3, <1>4, <1>5, <1>6, <1>7, <1>8, <1>9, <1>10, <1>11 DEF Next

LEMMA ConnInvariant ==
  ASSUME ~Amid
  PROVE  Spec => [](TypeInv /\ ConnInv)
<1>1. Init => ConnInv
  BY DEF Init, ConnInv, Single, StoppedIsOut, OneConnection, Unsettled
<1>2. TypeInv /\ ConnInv /\ [Next]_vars => ConnInv'
  BY ConnStep
<1>. QED  BY <1>1, <1>2, TypeCorrect, PTL DEF Spec

\* No server, and no command's process, is left connected that is not the
\* request's connection or about to be closed, whoever connects and disconnects.
THEOREM OneConnectionHolds ==
  ASSUME ~Amid
  PROVE  Spec => []OneConnection
BY ConnInvariant, PTL DEF ConnInv

\* What a connect opens that a disconnect came after never becomes the connection.
THEOREM StopIsFinalHolds ==
  ASSUME ~Amid
  PROVE  Spec => StopIsFinal
<1>1. ASSUME TypeInv, ConnInv, [Next]_vars
      PROVE  connection' \in {connection, None} \/ connection'[1] \notin stopped'
  <2>1. ASSUME NEW c \in Calls, Opened(c), ~IsStopped(c)
        PROVE  connection'[1] \notin stopped'
    <3>1. using[c] \in Clients /\ using[c][1] = c /\ using[c] # None
      BY <1>1, <2>1, NoneIsNoClient DEF Opened, Owned, TypeInv
    <3>. QED  BY <1>1, <2>1, <3>1 DEF Opened, IsStopped, ConnInv, StoppedIsOut, history
  <2>2. ASSUME ~\E c \in Calls : Opened(c) /\ ~IsStopped(c)
        PROVE  connection' \in {connection, None}
    BY <1>1, <2>2
    DEF Next, vars, history, maps, Render, AskToConnect, NotRendered, AskToDisconnect, Connect, SdkLoaded,
        Disconnect, ClosePending, PendingClosed, ConnectionClosed, Opened, RefusedFirst, Refused,
        Discarded, Listed, NotListed, ServerCloses, Receive, Leave, Return
  <2>. QED  BY <2>1, <2>2
<1>2. TypeInv /\ ConnInv /\ [Next]_vars =>
        [connection' \in {connection, None} \/ connection'[1] \notin stopped']_vars
  BY <1>1
<1>. QED  BY <1>2, ConnInvariant, PTL DEF Spec, StopIsFinal

-----------------------------------------------------------------------------
\* What the window will have been told: something that ends "Connecting"; nothing;
\* that it is connected, and nothing after that.
Ending == {"connected", "failed", "disconnected"}
Told(q) == \E i \in 1..Len(q) : q[i] \in Ending
Silent(q) == \A i \in 1..Len(q) : q[i] = "stopped"
EndsConnected(q) ==
  \E i \in 1..Len(q) : q[i] = "connected" /\ \A j \in i + 1..Len(q) : q[j] = "stopped"

LEMMA OneMore ==
  ASSUME NEW q \in Seq(Messages), NEW x \in Messages
  PROVE  /\ q \o <<x>> \in Seq(Messages)
         /\ Told(q \o <<x>>) <=> Told(q) \/ x \in Ending
         /\ Silent(q \o <<x>>) <=> Silent(q) /\ x = "stopped"
         /\ EndsConnected(q \o <<x>>) <=> x = "connected" \/ (x = "stopped" /\ EndsConnected(q))
<1>. DEFINE r == q \o <<x>>
<1>1. /\ r \in Seq(Messages) /\ Len(r) = Len(q) + 1 /\ Len(q) \in Nat
      /\ \A i \in 1..Len(q) : r[i] = q[i]
      /\ r[Len(q) + 1] = x
  OBVIOUS
<1>. HIDE DEF r
<1>2. Told(r) <=> Told(q) \/ x \in Ending
  BY <1>1 DEF Told
<1>3. Silent(r) <=> Silent(q) /\ x = "stopped"
  BY <1>1 DEF Silent
<1>4. ASSUME x = "connected" PROVE EndsConnected(r)
  BY <1>1, <1>4 DEF EndsConnected
<1>5. ASSUME x = "stopped", EndsConnected(q) PROVE EndsConnected(r)
  BY <1>1, <1>5 DEF EndsConnected
<1>6. ASSUME EndsConnected(r), x # "connected" PROVE x = "stopped" /\ EndsConnected(q)
  <2>1. PICK i \in 1..Len(r) : r[i] = "connected" /\ \A j \in i + 1..Len(r) : r[j] = "stopped"
    BY <1>6 DEF EndsConnected
  <2>2. i \in 1..Len(q)
    BY <1>1, <1>6, <2>1
  <2>. QED  BY <1>1, <2>1, <2>2 DEF EndsConnected
<1>7. r = q \o <<x>>
  BY DEF r
<1>. QED  BY <1>1, <1>2, <1>3, <1>4, <1>5, <1>6, <1>7

LEMMA OneLess ==
  ASSUME NEW q \in Seq(Messages), q # <<>>
  PROVE  /\ Told(q) => Head(q) \in Ending \/ Told(Tail(q))
         /\ Head(q) = "stopped" /\ Silent(Tail(q)) => Silent(q)
         /\ Head(q) = "connected" /\ Silent(Tail(q)) => EndsConnected(q)
         /\ EndsConnected(Tail(q)) => EndsConnected(q)
<1>. DEFINE r == Tail(q)
<1>1. /\ Len(q) \in Nat \ {0} /\ Len(r) = Len(q) - 1 /\ Head(q) = q[1]
      /\ \A i \in 1..Len(r) : r[i] = q[i + 1]
  BY HeadTailProperties, EmptySeq
<1>a. \A i \in 2..Len(q) : i - 1 \in 1..Len(r) /\ q[i] = r[i - 1]
  BY <1>1
<1>. HIDE DEF r
<1>2. Told(q) => Head(q) \in Ending \/ Told(r)
  BY <1>1, <1>a DEF Told
<1>3. Head(q) = "stopped" /\ Silent(r) => Silent(q)
  BY <1>1, <1>a DEF Silent
<1>4. Head(q) = "connected" /\ Silent(r) => EndsConnected(q)
  BY <1>1, <1>a DEF Silent, EndsConnected
<1>5. ASSUME EndsConnected(r) PROVE EndsConnected(q)
  <2>1. PICK i \in 1..Len(r) : r[i] = "connected" /\ \A j \in i + 1..Len(r) : r[j] = "stopped"
    BY <1>5 DEF EndsConnected
  <2>2. i + 1 \in 1..Len(q) /\ q[i + 1] = "connected"
    BY <1>1, <2>1
  <2>3. \A j \in (i + 1) + 1..Len(q) : q[j] = "stopped"
    BY <1>1, <1>a, <2>1
  <2>. QED  BY <2>2, <2>3 DEF EndsConnected
<1>. QED  BY <1>2, <1>3, <1>4, <1>5 DEF r

-----------------------------------------------------------------------------
\* A call whose answer to the window ends its "Connecting"
WillAnswer(c) ==
  \/ at[c] \in {"asked", "loading", "closing pending", "closing connection", "listing"}
  \/ at[c] = "opening" /\ ~IsStopped(c)

\* While the window shows "Connecting" (and no agent's call stopped its connect),
\* the answer that ends it is on its way, or the call that will give it is under way.
Awaited ==
  shown = "connecting" /\ ~cut => Told(toWindow) \/ \E c \in Calls \cap Window : WillAnswer(c)

LEMMA FollowAwaited ==
  ASSUME TypeInv, NEW c \in Calls, NEW told \in Seq(Messages), NEW now,
         Follow(c, told, now), c \in Window
  PROVE  Told(toWindow') \/ WillAnswer(c)'
<1>1. CASE c \in Connects
  <2>1. at'[c] = "opening" /\ connecting' = using'[c]
    BY <1>1 DEF Follow, Start, TypeInv, Types
  <2>. QED  BY <2>1 DEF WillAnswer, IsStopped
<1>2. CASE c \notin Connects
  <2>1. toWindow' = (toWindow \o told) \o <<"disconnected">>
    BY <1>2 DEF Follow, Answer
  <2>2. toWindow \o told \in Seq(Messages) /\ "disconnected" \in Messages \cap Ending
    BY ConcatProperties DEF TypeInv, Types, Messages, Ending
  <2>. QED  BY <2>1, <2>2, OneMore
<1>. QED  BY <1>1, <1>2

\* What a call says at its end: nothing if it is an agent's
LEMMA EndSays ==
  ASSUME TypeInv, NEW c \in Calls, NEW text \in Messages, Ends(c, text)
  PROVE  /\ c \in Window => toWindow' = toWindow \o <<text>>
         /\ c \notin Window => toWindow' = toWindow
<1>1. toWindow \in Seq(Messages)
  BY DEF TypeInv, Types
<1>. QED  BY <1>1, ConcatEmptySeq DEF Ends, Answer

\* An agent's call that takes `connecting` from no connect of the window's leaves
\* the answers of the window's calls to come.
LEMMA AgentStep ==
  ASSUME TypeInv, Awaited, NEW c \in Calls, c \notin Window, shown = "connecting", ~cut,
         \A d \in Calls : d # c => at'[d] = at[d] /\ using'[d] = using[d],
         Told(toWindow) => Told(toWindow'),
         \/ UNCHANGED connecting
         \/ ~Cuts(c)
         \/ at[c] = "opening" /\ connecting = using[c]
  PROVE  Told(toWindow') \/ \E d \in Calls \cap Window : WillAnswer(d)'
<1>1. Told(toWindow) \/ \E d \in Calls \cap Window : WillAnswer(d)
  BY DEF Awaited
<1>2. ASSUME NEW d \in Calls \cap Window, WillAnswer(d) PROVE WillAnswer(d)'
  <2>1. d # c /\ at'[d] = at[d] /\ using'[d] = using[d]
    OBVIOUS
  <2>2. CASE at[d] = "opening" /\ connecting = using[d]
    <3>1. d \in Connects /\ using[d] \in Clients /\ using[d][1] = d
      BY <2>2 DEF TypeInv, Owned
    <3>2. Cuts(c)
      BY <2>2, <3>1, NoneIsNoClient DEF Cuts
    <3>3. ~(at[c] = "opening" /\ connecting = using[c])
      <4>1. at[c] = "opening" => using[c][1] = c
        BY DEF TypeInv, Owned
      <4>. QED  BY <2>1, <2>2, <3>1, <4>1
    <3>. QED  BY <2>1, <2>2, <3>2, <3>3 DEF WillAnswer, IsStopped
  <2>3. CASE ~(at[d] = "opening" /\ connecting = using[d])
    BY <1>2, <2>1, <2>3 DEF WillAnswer, IsStopped
  <2>. QED  BY <2>2, <2>3
<1>. QED  BY <1>1, <1>2

\* What follows an agent's mcpDisconnect
LEMMA AgentFollow ==
  ASSUME TypeInv, NEW c \in Calls, NEW told \in Seq(Messages), NEW now,
         Follow(c, told, now), c \notin Window, ~cut',
         told = <<>> \/ told = <<"closed">>
  PROVE  /\ Told(toWindow) => Told(toWindow')
         /\ UNCHANGED connecting \/ ~Cuts(c)
         /\ ~cut
<1>1. toWindow' = toWindow \o told
  <2>1. toWindow \o told \in Seq(Messages)
    BY ConcatProperties DEF TypeInv, Types
  <2>. QED  BY <2>1, ConcatEmptySeq DEF Follow, Answer
<1>2. toWindow \in Seq(Messages) /\ "closed" \in Messages
  BY DEF TypeInv, Types, Messages
<1>3. Told(toWindow) => Told(toWindow')
  <2>1. CASE told = <<>>
    BY <1>1, <1>2, <2>1, ConcatEmptySeq
  <2>2. CASE told = <<"closed">>
    BY <1>1, <1>2, <2>2, OneMore
  <2>. QED  BY <2>1, <2>2
<1>4. (UNCHANGED connecting \/ ~Cuts(c)) /\ ~cut
  BY DEF Follow, Start
<1>. QED  BY <1>3, <1>4

LEMMA AgentAwaited ==
  ASSUME TypeInv, Awaited, shown' = "connecting", ~cut', NEW c \in Calls, c \notin Window,
         \/ Connect(c) \/ SdkLoaded(c) \/ Disconnect(c) \/ PendingClosed(c) \/ ConnectionClosed(c)
         \/ Opened(c) \/ RefusedFirst(c) \/ Refused(c) \/ Discarded(c) \/ Listed(c) \/ NotListed(c)
  PROVE  Told(toWindow') \/ \E d \in Calls \cap Window : WillAnswer(d)'
<1>t. at \in [Calls -> Places] /\ using \in [Calls -> Clients \cup {None}]
  BY DEF TypeInv, Types
<1>1. CASE SdkLoaded(c) \/ Disconnect(c)
  <2>1. /\ toWindow' = toWindow /\ shown' = shown /\ ~cut /\ ~Cuts(c)
        /\ \A d \in Calls : d # c => at'[d] = at[d] /\ using'[d] = using[d]
    BY <1>t, <1>1 DEF SdkLoaded, Disconnect, ClosePending, window
  <2>. QED  BY <2>1, AgentStep
<1>2. CASE PendingClosed(c) /\ connection # None
  <2>1. /\ toWindow' = toWindow /\ shown' = shown /\ ~cut /\ UNCHANGED connecting
        /\ \A d \in Calls : d # c => at'[d] = at[d] /\ using'[d] = using[d]
    BY <1>t, <1>2 DEF PendingClosed, window
  <2>. QED  BY <2>1, AgentStep
<1>3. CASE (PendingClosed(c) /\ connection = None) \/ ConnectionClosed(c)
  <2>0. PICK told \in {<<>>, <<"closed">>} : \E now : Follow(c, told, now) /\ shown' = shown
    BY <1>3 DEF PendingClosed, ConnectionClosed, window
  <2>1. PICK now : Follow(c, told, now) /\ shown' = shown
    BY <2>0
  <2>2. told \in Seq(Messages)
    BY OneMessage, EmptySeq DEF Messages
  <2>3. \A d \in Calls : d # c => at'[d] = at[d] /\ using'[d] = using[d]
    BY <1>t, <2>1 DEF Follow, Start
  <2>4. /\ Told(toWindow) => Told(toWindow')
        /\ UNCHANGED connecting \/ ~Cuts(c)
        /\ ~cut
    BY <2>1, <2>2, AgentFollow
  <2>. QED  BY <2>1, <2>3, <2>4, AgentStep
<1>4. CASE Connect(c) \/ Opened(c) \/ RefusedFirst(c)
  <2>1. /\ toWindow' = toWindow /\ shown' = shown
        /\ \A d \in Calls : d # c => at'[d] = at[d] /\ using'[d] = using[d]
    BY <1>t, <1>4 DEF Connect, Opened, RefusedFirst, Start, window
  <2>3. ~cut
    BY <1>4 DEF Connect, Opened, RefusedFirst, Start, history
  <2>2. UNCHANGED connecting \/ (at[c] = "opening" /\ connecting = using[c])
    BY <1>4 DEF Connect, Opened, RefusedFirst, Again, IsStopped, maps
  <2>. QED  BY <2>1, <2>2, <2>3, AgentStep
<1>5. CASE Refused(c) \/ Discarded(c) \/ Listed(c) \/ NotListed(c)
  <2>1. PICK text \in Messages : Ends(c, text)
    BY <1>5 DEF Refused, Discarded, Listed, NotListed, Messages
  <2>2. toWindow' = toWindow
    BY <2>1, EndSays
  <2>3. /\ shown' = shown /\ ~cut
        /\ \A d \in Calls : d # c => at'[d] = at[d] /\ using'[d] = using[d]
    BY <1>t, <1>5, <2>1 DEF Refused, Discarded, Listed, NotListed, Ends, window, history
  <2>4. UNCHANGED connecting \/ (at[c] = "opening" /\ connecting = using[c])
    BY <1>5 DEF Refused, Discarded, Listed, NotListed, IsStopped, maps
  <2>. QED  BY <2>2, <2>3, <2>4, AgentStep
<1>. QED  BY <1>1, <1>2, <1>3, <1>4, <1>5

LEMMA AwaitedStep ==
  ASSUME TypeInv, Awaited, [Next]_vars
  PROVE  Awaited'
<1>. SUFFICES ASSUME shown' = "connecting", ~cut'
              PROVE  Told(toWindow') \/ \E c \in Calls \cap Window : WillAnswer(c)'
  BY DEF Awaited
<1>t. at \in [Calls -> Places] /\ using \in [Calls -> Clients \cup {None}]
      /\ toWindow \in Seq(Messages)
  BY DEF TypeInv, Types
\* A call that goes on without having had an answer to give leaves the others' as they were.
<1>w. ASSUME NEW c \in Calls, NEW place \in Places, at' = [at EXCEPT ![c] = place],
             \A d \in Calls : d # c => using'[d] = using[d],
             UNCHANGED connecting, ~WillAnswer(c), shown = "connecting", ~cut
      PROVE  Told(toWindow) \/ \E d \in Calls \cap Window : WillAnswer(d)'
  <2>1. ASSUME NEW d \in Calls, WillAnswer(d) PROVE WillAnswer(d)'
    BY <1>t, <1>w, <2>1 DEF WillAnswer, IsStopped
  <2>. QED  BY <1>w, <2>1 DEF Awaited
<1>1. ASSUME NEW c \in Calls, Render(c) \/ NotRendered(c) \/ AskToDisconnect(c)
      PROVE  Told(toWindow') \/ \E d \in Calls \cap Window : WillAnswer(d)'
  <2>1. PICK place \in {"rendering", "done", "asked"} : at' = [at EXCEPT ![c] = place]
    BY <1>1 DEF Render, NotRendered, AskToDisconnect
  <2>2. ~WillAnswer(c) /\ UNCHANGED <<connecting, using, toWindow, shown, cut>>
    BY <1>1 DEF Render, NotRendered, AskToDisconnect, maps, window, history, WillAnswer
  <2>3. place \in Places
    BY DEF Places
  <2>. QED  BY <1>w, <2>1, <2>2, <2>3
<1>2. ASSUME NEW c \in Calls \cap Window,
             Connect(c) \/ SdkLoaded(c) \/ Disconnect(c) \/ RefusedFirst(c)
      PROVE  WillAnswer(c)'
  BY <1>t, <1>2
  DEF Connect, SdkLoaded, Disconnect, ClosePending, RefusedFirst, Start, WillAnswer, IsStopped
<1>b. ASSUME NEW c \in Calls, AskToConnect(c) PROVE c \in Window /\ WillAnswer(c)'
  <2>1. c \in Window
    BY <1>b DEF AskToConnect, TypeInv, Owned
  <2>. QED  BY <1>t, <1>b, <2>1 DEF AskToConnect, WillAnswer
<1>3. ASSUME NEW c \in Calls \cap Window, PendingClosed(c)
      PROVE  Told(toWindow') \/ WillAnswer(c)'
  <2>1. CASE connection = None
    <3>1. Follow(c, <<>>, clients)
      BY <1>3, <2>1 DEF PendingClosed
    <3>. QED  BY <3>1, FollowAwaited, EmptySeq
  <2>2. CASE connection # None
    BY <1>t, <1>3, <2>2 DEF PendingClosed, WillAnswer
  <2>. QED  BY <2>1, <2>2
<1>4. ASSUME NEW c \in Calls \cap Window, ConnectionClosed(c)
      PROVE  Told(toWindow') \/ WillAnswer(c)'
  <2>1. Follow(c, <<"closed">>, [clients EXCEPT ![using[c]] = "closed"])
    BY <1>4 DEF ConnectionClosed
  <2>2. <<"closed">> \in Seq(Messages)
    BY OneMessage DEF Messages
  <2>. QED  BY <2>1, <2>2, FollowAwaited
<1>5. ASSUME NEW c \in Calls \cap Window, Opened(c)
      PROVE  Told(toWindow') \/ \E d \in Calls \cap Window : WillAnswer(d)'
  <2>1. CASE IsStopped(c)
    <3>1. /\ at' = [at EXCEPT ![c] = "discarding"] /\ ~WillAnswer(c)
          /\ UNCHANGED <<connecting, using, toWindow, shown, cut>>
      BY <1>5, <2>1 DEF Opened, maps, window, history, WillAnswer
    <3>. QED  BY <1>w, <3>1 DEF Places
  <2>2. CASE ~IsStopped(c)
    BY <1>t, <1>5, <2>2 DEF Opened, WillAnswer
  <2>. QED  BY <2>1, <2>2
<1>7. ASSUME NEW c \in Calls \cap Window, (Refused(c) /\ IsStopped(c)) \/ Discarded(c)
      PROVE  Told(toWindow') \/ \E d \in Calls \cap Window : WillAnswer(d)'
  <2>1. /\ Ends(c, "stopped") /\ ~WillAnswer(c) /\ UNCHANGED <<connecting, shown, cut>>
        /\ "stopped" \in Messages
    BY <1>7 DEF Refused, Discarded, maps, window, history, WillAnswer, Messages
  <2>2. toWindow' = toWindow \o <<"stopped">>
    BY <2>1, EndSays
  <2>3. /\ at' = [at EXCEPT ![c] = "done"] /\ "done" \in Places
        /\ \A d \in Calls : d # c => using'[d] = using[d]
    BY <1>t, <2>1 DEF Ends, Places
  <2>. QED  BY <1>t, <1>w, <2>1, <2>2, <2>3, OneMore
<1>8. ASSUME NEW c \in Calls \cap Window, (Refused(c) /\ ~IsStopped(c)) \/ Listed(c) \/ NotListed(c)
      PROVE  Told(toWindow')
  <2>1. PICK text \in {"failed", "connected"} : Ends(c, text)
    BY <1>8 DEF Refused, Listed, NotListed
  <2>2. text \in Messages \cap Ending
    BY DEF Messages, Ending
  <2>3. toWindow' = toWindow \o <<text>>
    BY <2>1, <2>2, EndSays
  <2>4. Told(toWindow \o <<text>>)
    BY <1>t, <2>2, OneMore
  <2>. QED  BY <2>3, <2>4
<1>9. ASSUME NEW k \in Clients, ServerCloses(k)
      PROVE  Told(toWindow') \/ \E d \in Calls \cap Window : WillAnswer(d)'
  <2>1. /\ UNCHANGED <<connecting, at, using, shown, cut>>
        /\ toWindow' = toWindow \/ toWindow' = Append(toWindow, "closed")
    BY <1>9 DEF ServerCloses, calls, window, history
  <2>2. Told(toWindow) => Told(toWindow')
    <3>1. "closed" \in Messages
      BY DEF Messages
    <3>2. Told(toWindow) => Told(toWindow \o <<"closed">>)
      BY <1>t, <3>1, OneMore
    <3>. QED  BY <1>t, <2>1, <3>1, <3>2, AppendIsConcat
  <2>. QED  BY <2>1, <2>2 DEF Awaited, WillAnswer, IsStopped
<1>10. ASSUME Receive
       PROVE  Told(toWindow') \/ \E d \in Calls \cap Window : WillAnswer(d)'
  <2>1. /\ UNCHANGED <<connecting, at, using>> /\ toWindow' = Tail(toWindow) /\ toWindow # <<>>
        /\ shown' = ShownAfter(Head(toWindow)) /\ Head(toWindow) \in Messages
        /\ cut' = (cut /\ Head(toWindow) \in {"closed", "stopped"})
    BY <1>t, <1>10, HeadTailProperties DEF Receive, maps, calls
  <2>2. Head(toWindow) \notin Ending /\ shown = "connecting" /\ Head(toWindow) \in {"closed", "stopped"}
    BY <2>1 DEF ShownAfter, Ending, Messages
  <2>3. ~cut
    BY <2>1, <2>2
  <2>. QED  BY <1>t, <2>1, <2>2, <2>3, OneLess DEF Awaited, WillAnswer, IsStopped
<1>11. CASE Leave \/ Return \/ UNCHANGED vars
  <2>1. UNCHANGED <<connecting, at, using, toWindow, shown, cut>>
    BY <1>11 DEF Leave, Return, vars, history, maps, calls, window
  <2>. QED  BY <2>1 DEF Awaited, WillAnswer, IsStopped
<1>12. ASSUME NEW c \in Calls, c \in Window,
              \/ Connect(c) \/ SdkLoaded(c) \/ Disconnect(c) \/ PendingClosed(c) \/ ConnectionClosed(c)
              \/ Opened(c) \/ RefusedFirst(c) \/ Refused(c) \/ Discarded(c) \/ Listed(c) \/ NotListed(c)
       PROVE  Told(toWindow') \/ \E d \in Calls \cap Window : WillAnswer(d)'
  BY <1>2, <1>3, <1>4, <1>5, <1>7, <1>8, <1>12
<1>. QED
  BY <1>1, <1>b, <1>9, <1>10, <1>11, <1>12, AgentAwaited DEF Next

\* The window never keeps showing "Connecting", in whatever order its calls, an
\* agent's and the server's answers come, but for a connect of the window's that an
\* agent's call stopped.
THEOREM ConnectingEndsHolds == Spec => []ConnectingEnds
<1>1. Init => Awaited
  BY DEF Init, Awaited
<1>2. Awaited => ConnectingEnds
  <2>. SUFFICES ASSUME Awaited, Settled, ~cut, shown = "connecting"
                PROVE  FALSE
    BY DEF ConnectingEnds
  <2>1. ~Told(toWindow)
    BY EmptySeq DEF Told, Settled
  <2>. QED  BY <2>1 DEF Awaited, Settled, WillAnswer
<1>. QED  BY <1>1, <1>2, AwaitedStep, TypeCorrect, PTL DEF Spec

-----------------------------------------------------------------------------
\* The request has a connection, or one whose closing the window will be told of
Held == connection # None \/ \E c \in Calls : at[c] = "closing connection"

\* A window that shows "Connected", or will with all it is told, is not wrong.
ShownInv ==
  /\ shown = "connected" /\ ~unheard /\ Silent(toWindow) => Held
  /\ EndsConnected(toWindow) => Held

LEMMA ShownStep ==
  ASSUME TypeInv, ConnInv, ShownInv, [Next]_vars
  PROVE  ShownInv'
<1>t. at \in [Calls -> Places] /\ using \in [Calls -> Clients \cup {None}]
      /\ toWindow \in Seq(Messages)
  BY DEF TypeInv, Types
\* Nothing is said, or that a connect was stopped
<1>u. ASSUME UNCHANGED <<shown, unheard, toWindow>>, Held => Held' PROVE ShownInv'
  BY <1>u DEF ShownInv
<1>v. ASSUME UNCHANGED <<shown, unheard>>, toWindow' = toWindow \o <<"stopped">>, Held => Held'
      PROVE  ShownInv'
  <2>1. "stopped" \in Messages
    BY DEF Messages
  <2>. QED  BY <1>t, <1>v, <2>1, OneMore DEF ShownInv
\* Something is said that ends a "Connected"
<1>w. ASSUME NEW q \in Seq(Messages), NEW x \in Messages \ {"stopped", "connected"},
             toWindow' = q \o <<x>>
      PROVE  ShownInv'
  BY <1>w, OneMore DEF ShownInv
<1>h. ASSUME NEW c \in Calls, NEW place, at' = [at EXCEPT ![c] = place],
             at[c] # "closing connection", UNCHANGED connection
      PROVE  Held => Held'
  BY <1>t, <1>h DEF Held
<1>1. ASSUME NEW c \in Calls,
             Render(c) \/ NotRendered(c) \/ AskToDisconnect(c) \/ Connect(c) \/ SdkLoaded(c)
               \/ Disconnect(c) \/ RefusedFirst(c)
      PROVE  ShownInv'
  <2>1. /\ \E place \in Places : at' = [at EXCEPT ![c] = place]
        /\ UNCHANGED <<connection, shown, unheard, toWindow>>
    BY <1>1
    DEF Render, NotRendered, AskToDisconnect, Connect, SdkLoaded, Disconnect, ClosePending,
        RefusedFirst, Start, maps, window, Places
  <2>2. at[c] # "closing connection"
    BY <1>1
    DEF Render, NotRendered, AskToDisconnect, Connect, Takes, SdkLoaded, Disconnect, RefusedFirst
  <2>. QED  BY <1>h, <1>u, <2>1, <2>2
<1>2. ASSUME NEW c \in Calls, AskToConnect(c) PROVE ShownInv'
  <2>1. /\ shown' = "connecting" /\ UNCHANGED <<connection, toWindow>>
        /\ at' = [at EXCEPT ![c] = "asked"] /\ at[c] = "rendering"
    BY <1>2 DEF AskToConnect, maps
  <2>2. Held => Held'
    BY <1>h, <2>1
  <2>. QED  BY <2>1, <2>2 DEF ShownInv
<1>3. ASSUME NEW c \in Calls, NEW told \in Seq(Messages), NEW now, Follow(c, told, now)
      PROVE  /\ c \in Connects => toWindow' = toWindow \o told
             /\ c \notin Connects /\ c \in Window =>
                  toWindow' = (toWindow \o told) \o <<"disconnected">>
             /\ c \notin Connects /\ c \notin Window => toWindow' = toWindow \o told
             /\ \E place \in Places : at' = [at EXCEPT ![c] = place]
  <2>1. toWindow \o told \in Seq(Messages)
    BY <1>t, ConcatProperties
  <2>. QED  BY <1>3, <2>1, ConcatEmptySeq DEF Follow, Start, Answer, Places
<1>4. ASSUME NEW c \in Calls, PendingClosed(c) PROVE ShownInv'
  <2>0. UNCHANGED <<shown, unheard>> /\ at[c] = "closing pending" /\ connection' = None
    BY <1>4 DEF PendingClosed, window
  <2>1. CASE connection = None
    <3>1. Follow(c, <<>>, clients)
      BY <1>4, <2>1 DEF PendingClosed
    <3>2. toWindow \o <<>> = toWindow /\ <<>> \in Seq(Messages)
      BY <1>t, ConcatEmptySeq, EmptySeq
    <3>3. toWindow' = toWindow \/ toWindow' = toWindow \o <<"disconnected">>
      BY <1>3, <3>1, <3>2
    <3>4. Held => Held'
      BY <1>3, <1>h, <2>0, <2>1, <3>1, <3>2
    <3>5. "disconnected" \in Messages \ {"stopped", "connected"}
      BY DEF Messages
    <3>. QED  BY <1>t, <1>u, <1>w, <2>0, <3>3, <3>4, <3>5
  <2>2. CASE connection # None
    <3>1. at'[c] = "closing connection" /\ UNCHANGED toWindow
      BY <1>t, <1>4, <2>2 DEF PendingClosed
    <3>. QED  BY <1>u, <2>0, <3>1 DEF Held
  <2>. QED  BY <2>1, <2>2
<1>5. ASSUME NEW c \in Calls, ConnectionClosed(c) PROVE ShownInv'
  <2>1. "disconnected" \in Messages \ {"stopped", "connected"}
        /\ "closed" \in Messages \ {"stopped", "connected"}
    BY DEF Messages
  <2>2. <<"closed">> \in Seq(Messages) /\ toWindow \o <<"closed">> \in Seq(Messages)
    BY <1>t, <2>1, OneMessage, OneMore
  <2>3. \/ toWindow' = toWindow \o <<"closed">>
        \/ toWindow' = (toWindow \o <<"closed">>) \o <<"disconnected">>
    BY <1>3, <1>5, <2>2 DEF ConnectionClosed
  <2>. QED  BY <1>t, <1>w, <2>1, <2>2, <2>3
<1>6. ASSUME NEW c \in Calls, Opened(c) PROVE ShownInv'
  <2>1. UNCHANGED <<shown, unheard, toWindow>> /\ at[c] = "opening"
    BY <1>6 DEF Opened, window
  <2>2. CASE IsStopped(c)
    BY <1>6, <1>h, <1>u, <2>1, <2>2 DEF Opened, maps
  <2>3. CASE ~IsStopped(c)
    <3>1. connection' # None
      BY <1>6, <2>3, NoneIsNoClient DEF Opened, TypeInv, Owned
    <3>. QED  BY <1>u, <2>1, <3>1 DEF Held
  <2>. QED  BY <2>2, <2>3
<1>7. ASSUME NEW c \in Calls, NEW text \in Messages, Ends(c, text), UNCHANGED <<shown, unheard>>,
             UNCHANGED connection, at[c] # "closing connection", text = "connected" => Held
      PROVE  ShownInv'
  <2>1. Held => Held'
    BY <1>7, <1>h DEF Ends
  <2>2. CASE c \notin Window
    BY <1>7, <1>u, <2>1, <2>2, EndSays
  <2>3. CASE c \in Window
    <3>1. toWindow' = toWindow \o <<text>>
      BY <1>7, <2>3, EndSays
    <3>2. CASE text = "connected"
      BY <1>7, <1>t, <2>1, <3>1, <3>2, OneMore DEF ShownInv
    <3>3. CASE text # "connected"
      BY <1>7, <1>t, <1>v, <1>w, <2>1, <3>1, <3>3
    <3>. QED  BY <3>2, <3>3
  <2>. QED  BY <2>2, <2>3
<1>8. ASSUME NEW c \in Calls, Refused(c) \/ Discarded(c) \/ NotListed(c) PROVE ShownInv'
  <2>1. PICK text \in {"stopped", "failed"} : Ends(c, text)
    BY <1>8 DEF Refused, Discarded, NotListed
  <2>2. UNCHANGED <<shown, unheard, connection>> /\ at[c] # "closing connection"
    BY <1>8 DEF Refused, Discarded, NotListed, window, maps
  <2>3. text \in Messages /\ text # "connected"
    BY DEF Messages
  <2>. QED  BY <1>7, <2>1, <2>2, <2>3
\* A listing answered by an open client: the request's, or one being closed.
<1>9. ASSUME NEW c \in Calls, Listed(c) PROVE ShownInv'
  <2>1. /\ Ends(c, "connected") /\ UNCHANGED <<shown, unheard, connection>>
        /\ at[c] = "listing" /\ clients[using[c]] = "open"
    BY <1>9 DEF Listed, window, maps
  <2>2. using[c] \in Clients /\ using[c][1] = c /\ using[c] # None
    BY <2>1, NoneIsNoClient DEF TypeInv, Owned
  <2>3. ASSUME NEW d \in Calls, using[d] = using[c], at[d] = "discarding" PROVE FALSE
    <3>1. using[d][1] = d
      BY <2>3 DEF TypeInv, Owned
    <3>. QED  BY <2>1, <2>2, <2>3, <3>1
  <2>4. Held
    BY <2>1, <2>2, <2>3 DEF ConnInv, OneConnection, Held
  <2>5. "connected" \in Messages /\ at[c] # "closing connection"
    BY <2>1 DEF Messages
  <2>. QED  BY <1>7, <2>1, <2>4, <2>5
<1>10. ASSUME NEW k \in Clients, ServerCloses(k) PROVE ShownInv'
  <2>1. CASE connection = k
    <3>1. "closed" \in Messages \ {"stopped", "connected"}
      BY DEF Messages
    <3>2. toWindow' = toWindow \o <<"closed">>
      BY <1>t, <1>10, <2>1, <3>1, AppendIsConcat DEF ServerCloses
    <3>. QED  BY <1>t, <1>w, <3>1, <3>2
  <2>2. CASE connection # k
    <3>1. UNCHANGED <<connection, at, shown, unheard, toWindow>>
      BY <1>10, <2>2 DEF ServerCloses, calls, window
    <3>. QED  BY <1>u, <3>1 DEF Held
  <2>. QED  BY <2>1, <2>2
<1>11. ASSUME Receive PROVE ShownInv'
  <2>1. /\ UNCHANGED <<connection, at>> /\ toWindow' = Tail(toWindow) /\ toWindow # <<>>
        /\ shown' = ShownAfter(Head(toWindow)) /\ Head(toWindow) \in Messages
        /\ unheard' = IF Head(toWindow) = "closed" THEN unheard \/ ~viewed
                      ELSE unheard /\ Head(toWindow) = "stopped"
    BY <1>t, <1>11, HeadTailProperties DEF Receive, maps, calls
  <2>2. Held' = Held
    BY <2>1 DEF Held
  <2>3. EndsConnected(toWindow') => Held'
    BY <1>t, <2>1, <2>2, OneLess DEF ShownInv
  <2>4. ASSUME shown' = "connected", ~unheard', Silent(toWindow') PROVE Held'
    <3>1. Head(toWindow) \in {"connected", "stopped"}
      BY <2>1, <2>4 DEF ShownAfter, Messages
    <3>2. CASE Head(toWindow) = "connected"
      BY <1>t, <2>1, <2>2, <2>4, <3>2, OneLess DEF ShownInv
    <3>3. CASE Head(toWindow) = "stopped"
      <4>1. shown = "connected" /\ ~unheard
        BY <2>1, <2>4, <3>3 DEF ShownAfter
      <4>. QED  BY <1>t, <2>1, <2>2, <2>4, <3>3, <4>1, OneLess DEF ShownInv
    <3>. QED  BY <3>1, <3>2, <3>3
  <2>. QED  BY <2>3, <2>4 DEF ShownInv
<1>12. CASE Leave \/ Return \/ UNCHANGED vars
  <2>1. UNCHANGED <<connection, at, toWindow, shown>> /\ UNCHANGED unheard
    BY <1>12 DEF Leave, Return, vars, history, maps, calls, window
  <2>. QED  BY <1>u, <2>1 DEF Held
<1>. QED
  BY <1>1, <1>2, <1>4, <1>5, <1>6, <1>8, <1>9, <1>10, <1>11, <1>12 DEF Next

\* At rest, what the window shows as connected is there: it was told last of
\* whoever ended the connection, unless its pane was off screen then.
THEOREM ShownIsThereHolds ==
  ASSUME ~Amid
  PROVE  Spec => []ShownIsThere
<1>1. Init => ShownInv
  BY EmptySeq DEF Init, ShownInv, EndsConnected
<1>2. ShownInv => ShownIsThere
  <2>. SUFFICES ASSUME ShownInv, Settled, ~unheard, shown = "connected" PROVE connection # None
    BY DEF ShownIsThere
  <2>1. Silent(toWindow)
    BY EmptySeq DEF Silent, Settled
  <2>. QED  BY <2>1 DEF ShownInv, Held, Settled
<1>. QED  BY <1>1, <1>2, ShownStep, ConnInvariant, PTL DEF Spec
=============================================================================
