----------------------------- MODULE McpClient -----------------------------
(***************************************************************************)
(* One MCP request's connection (main/network/mcp-client.ts): connected    *)
(* from the window (ui/components/mcp) or by an agent of the automation    *)
(* server (main/mcp/tools/mcp-requests.ts), and disconnected by either.    *)
(*                                                                         *)
(* The main process is one thread: an action is what runs between two      *)
(* awaits.  What it tells the window arrives in the order it was sent.     *)
(* The SDK's client and the server are external, modelled from how the     *)
(* code uses them: a connect is accepted or refused, also one whose client *)
(* was closed meanwhile (its server may have answered already); a listing  *)
(* that a close cuts short fails.                                          *)
(***************************************************************************)
EXTENDS Integers, Sequences, FiniteSets

CONSTANTS
  Connects,     \* bound: the calls of connect, each made at most once
  Disconnects,  \* bound: the calls of disconnect
  Window,       \* those of them that the window makes; an agent makes the others
  Amid,         \* whether a call may come while another loads the SDK or waits
                \* for an earlier connection to close
  MaxLeaves     \* bound: times the user turns to another request

ASSUME CallsAssumption ==
  Connects \cap Disconnects = {} /\ Window \subseteq Connects \cup Disconnects
ASSUME AmidAssumption == Amid \in BOOLEAN
ASSUME LeavesAssumption == MaxLeaves \in Nat

VARIABLES
  connecting,  \* the client that is connecting
  connection,  \* the client that is connected
  clients,     \* each client's state, outside the app's maps
  at,          \* where each call is
  using,       \* the client each call works with
  shown,       \* what the window shows of the connection
  toWindow,    \* messages to the window, oldest first
  viewed,      \* whether the request's pane is on screen
  left,
  stopped,     \* history: the connects a disconnect came after
  cut,         \* history: an agent's call stopped a connect of the window's, which
               \* has heard no answer since
  unheard      \* history: a closing was told with the pane off screen

maps == <<connecting, connection>>
calls == <<at, using>>
window == <<shown, viewed, left, unheard>>
history == <<stopped, cut>>
vars == <<maps, clients, calls, toWindow, window, history>>

Calls == Connects \cup Disconnects
None == <<>>
Client(c, n) == <<c, n>>             \* the nth client of the connect c
Clients == Connects \X {1, 2}

\* The places between whose awaits another call finds neither the earlier
\* connection nor the new client in the maps
Unsettled == {"loading", "closing pending", "closing connection"}

Init ==
  /\ connecting = None /\ connection = None
  /\ clients = [k \in Clients |-> "none"]
  /\ at = [c \in Calls |-> "idle"]
  /\ using = [c \in Calls |-> None]
  /\ shown = "disconnected" /\ toWindow = <<>>
  /\ viewed = TRUE /\ left = 0
  /\ stopped = {} /\ cut = FALSE /\ unheard = FALSE

\* A call's answer: an agent's goes to the agent
Answer(c, text) == IF c \in Window THEN <<text>> ELSE <<>>

(***************************************************************************)
(* The window                                                              *)
(***************************************************************************)

\* Connect: renders the request first (and asks about a command)
Render(c) ==
  /\ c \in Connects \cap Window /\ at[c] = "idle"
  /\ viewed /\ shown = "disconnected"
  /\ at' = [at EXCEPT ![c] = "rendering"]
  /\ UNCHANGED <<maps, clients, using, toWindow, window, history>>

AskToConnect(c) ==
  /\ at[c] = "rendering"
  /\ at' = [at EXCEPT ![c] = "asked"]
  /\ shown' = "connecting"
  /\ UNCHANGED <<maps, clients, using, toWindow, viewed, left, unheard, history>>

NotRendered(c) ==
  /\ at[c] = "rendering"
  /\ at' = [at EXCEPT ![c] = "done"]
  /\ UNCHANGED <<maps, clients, using, toWindow, window, history>>

AskToDisconnect(d) ==
  /\ d \in Disconnects \cap Window /\ at[d] = "idle"
  /\ viewed /\ shown # "disconnected"
  /\ at' = [at EXCEPT ![d] = "asked"]
  /\ UNCHANGED <<maps, clients, using, toWindow, window, history>>

\* What the window shows after a message; only a pane on screen listens for "closed"
ShownAfter(message) ==
  CASE message = "connected" -> "connected"
    [] message = "failed" -> "disconnected"
    [] message = "disconnected" -> "disconnected"
    [] message = "closed" -> IF viewed /\ shown = "connected" THEN "disconnected" ELSE shown
    [] message = "stopped" -> shown   \* whoever stopped it says what is shown

Receive ==
  /\ toWindow # <<>>
  /\ toWindow' = Tail(toWindow)
  /\ shown' = ShownAfter(Head(toWindow))
  /\ unheard' = IF Head(toWindow) = "closed" THEN unheard \/ ~viewed
                ELSE unheard /\ Head(toWindow) = "stopped"
  /\ cut' = (cut /\ Head(toWindow) \in {"closed", "stopped"})
  /\ UNCHANGED <<maps, clients, calls, viewed, left, stopped>>

\* The user turns to another request, and back
Leave ==
  /\ viewed /\ left < MaxLeaves
  /\ viewed' = FALSE /\ left' = left + 1
  /\ UNCHANGED <<maps, clients, calls, toWindow, shown, unheard, history>>

Return ==
  /\ ~viewed /\ viewed' = TRUE
  /\ UNCHANGED <<maps, clients, calls, toWindow, shown, left, unheard, history>>

(***************************************************************************)
(* The main process: connect begins with a disconnect                      *)
(***************************************************************************)

\* A call arrives: the window's as it was asked for, an agent's (in the main
\* process itself) without a look at what the window shows
Takes(c) ==
  /\ at[c] = IF c \in Window THEN "asked" ELSE "idle"
  /\ Amid \/ \A other \in Calls : at[other] \notin Unsettled

\* mcpConnect, up to loadSdk
Connect(c) ==
  /\ c \in Connects /\ Takes(c)
  /\ at' = [at EXCEPT ![c] = "loading"]
  /\ UNCHANGED <<maps, clients, using, toWindow, window, history>>

\* Whether a call that takes `connecting` from a connect of the window's is an agent's
Cuts(c) == c \notin Window /\ connecting # None /\ connecting[1] \in Window

\* mcpDisconnect, up to the close of a client still connecting, which cuts its
\* connect short or comes too late for that
ClosePending(c) ==
  /\ connecting' = None /\ cut' = (cut \/ Cuts(c))
  /\ using' = [using EXCEPT ![c] = connecting]
  /\ at' = [at EXCEPT ![c] = "closing pending"]
  /\ UNCHANGED <<connection, clients, toWindow, window>>

SdkLoaded(c) ==
  /\ at[c] = "loading"
  /\ ClosePending(c)
  /\ UNCHANGED stopped

Disconnect(d) ==
  /\ d \in Disconnects /\ Takes(d)
  /\ ClosePending(d)
  /\ stopped' = stopped \cup {c \in Connects : at[c] \notin {"idle", "rendering", "asked", "done"}}

Start(c, n) ==
  /\ connecting' = Client(c, n) /\ cut' = (cut \/ Cuts(c))
  /\ using' = [using EXCEPT ![c] = Client(c, n)]
  /\ at' = [at EXCEPT ![c] = "opening"]

\* Mutant: a connect that closes the earlier connection does not tell the window
FollowUntold(c, told, now) ==
  IF c \in Connects
  THEN /\ Start(c, 1)
       /\ clients' = [now EXCEPT ![Client(c, 1)] = "opening"]
       /\ UNCHANGED toWindow
  ELSE /\ at' = [at EXCEPT ![c] = "done"]
       /\ using' = [using EXCEPT ![c] = None]
       /\ clients' = now
       /\ toWindow' = toWindow \o Answer(c, "disconnected")
       /\ UNCHANGED <<connecting, cut>>

\* What follows mcpDisconnect, with the clients as they are `now`: connect's new
\* client, or the answer of disconnect
Follow(c, told, now) ==
  IF c \in Connects
  THEN /\ Start(c, 1)
       /\ clients' = [now EXCEPT ![Client(c, 1)] = "opening"]
       /\ toWindow' = toWindow \o told
  ELSE /\ at' = [at EXCEPT ![c] = "done"]
       /\ using' = [using EXCEPT ![c] = None]
       /\ clients' = now
       /\ toWindow' = toWindow \o told \o Answer(c, "disconnected")
       /\ UNCHANGED <<connecting, cut>>

\* The rest of mcpDisconnect: the connected client is forgotten, and closed
PendingClosed(c) ==
  /\ at[c] = "closing pending"
  /\ connection' = None
  /\ IF connection = None
     THEN Follow(c, <<>>, clients)
     ELSE /\ using' = [using EXCEPT ![c] = connection]
          /\ at' = [at EXCEPT ![c] = "closing connection"]
          /\ UNCHANGED <<connecting, clients, toWindow, cut>>
  /\ UNCHANGED <<window, stopped>>

\* (the client's own onclose finds it forgotten)
ConnectionClosed(c) ==
  /\ at[c] = "closing connection"
  /\ Follow(c, <<"closed">>, [clients EXCEPT ![using[c]] = "closed"])
  /\ UNCHANGED <<connection, window, stopped>>

(***************************************************************************)
(* The main process: the client connects                                   *)
(***************************************************************************)
IsStopped(c) == connecting # using[c]

Ends(c, text) ==
  /\ at' = [at EXCEPT ![c] = "done"]
  /\ using' = [using EXCEPT ![c] = None]
  /\ toWindow' = toWindow \o Answer(c, text)

\* Mutant: the connected client is registered without a look at `stopped`
OpenedAnyhow(c) ==
  /\ at[c] = "opening"
  /\ clients' = [clients EXCEPT ![using[c]] = "open"]
  /\ at' = [at EXCEPT ![c] = "listing"]
  /\ connecting' = None
  /\ connection' = using[c]
  /\ UNCHANGED <<using, toWindow, window, history>>

\* The server accepts: the client is the request's connection, if not stopped meanwhile
Opened(c) ==
  /\ at[c] = "opening"
  /\ clients' = [clients EXCEPT ![using[c]] = "open"]
  /\ IF IsStopped(c)
     THEN at' = [at EXCEPT ![c] = "discarding"] /\ UNCHANGED maps
     ELSE /\ at' = [at EXCEPT ![c] = "listing"]
          /\ connecting' = None
          /\ connection' = using[c]
  /\ UNCHANGED <<using, toWindow, window, history>>

\* Mutant: the older transport is tried also by a connect that was stopped
AgainAnyhow(c) == using[c] = Client(c, 1)

\* again: over HTTP, a new client tries the older transport, unless stopped
Again(c) == using[c] = Client(c, 1) /\ ~IsStopped(c)

RefusedFirst(c) ==
  /\ at[c] = "opening" /\ Again(c)
  /\ Start(c, 2)
  /\ clients' = [clients EXCEPT ![using[c]] = "closed", ![Client(c, 2)] = "opening"]
  /\ UNCHANGED <<connection, toWindow, window, stopped>>

\* Mutant: connecting.delete comes before the check of `stopped`
RefusedLikeStopped(c) ==
  /\ at[c] = "opening"
  /\ clients' = [clients EXCEPT ![using[c]] = "closed"]
  /\ Ends(c, "stopped")
  /\ connecting' = None
  /\ UNCHANGED <<connection, window, history>>

\* A command, a second refusal, or a connect that was stopped
Refused(c) ==
  /\ at[c] = "opening"
  /\ clients' = [clients EXCEPT ![using[c]] = "closed"]
  /\ IF IsStopped(c)
     THEN Ends(c, "stopped") /\ UNCHANGED connecting
     ELSE Ends(c, "failed") /\ connecting' = None
  /\ UNCHANGED <<connection, window, history>>

Discarded(c) ==
  /\ at[c] = "discarding"
  /\ clients' = [clients EXCEPT ![using[c]] = "closed"]
  /\ Ends(c, "stopped")
  /\ UNCHANGED <<maps, window, history>>

\* summarize: the server lists what it offers, or the connect fails and
\* leaves the connection as it is
Listed(c) ==
  /\ at[c] = "listing" /\ clients[using[c]] = "open"
  /\ Ends(c, "connected")
  /\ UNCHANGED <<maps, clients, window, history>>

NotListed(c) ==
  /\ at[c] = "listing"
  /\ Ends(c, "failed")
  /\ UNCHANGED <<maps, clients, window, history>>

\* The server closes the connection (onclose): forgotten, if it is the request's
ServerCloses(k) ==
  /\ clients[k] = "open"
  /\ clients' = [clients EXCEPT ![k] = "closed"]
  /\ IF connection = k
     THEN connection' = None /\ toWindow' = Append(toWindow, "closed")
     ELSE UNCHANGED <<connection, toWindow>>
  /\ UNCHANGED <<connecting, calls, window, history>>

Next ==
  \/ \E c \in Calls :
       \/ Render(c) \/ AskToConnect(c) \/ NotRendered(c) \/ AskToDisconnect(c)
       \/ Connect(c) \/ SdkLoaded(c) \/ Disconnect(c) \/ PendingClosed(c) \/ ConnectionClosed(c)
       \/ Opened(c) \/ RefusedFirst(c) \/ Refused(c) \/ Discarded(c) \/ Listed(c) \/ NotListed(c)
  \/ \E k \in Clients : ServerCloses(k)
  \/ Receive \/ Leave \/ Return

Spec == Init /\ [][Next]_vars

(***************************************************************************)
(* Properties                                                              *)
(***************************************************************************)

\* A request has one connection (mcp-client.ts:1-3): a client whose server has
\* accepted it is the request's, or a call under way is about to close it.  No
\* server, and no command's process, is left connected that nobody can disconnect.
OneConnection ==
  \A k \in Clients : clients[k] = "open" =>
    \/ connection = k
    \/ \E c \in Calls : using[c] = k /\ at[c] \in {"discarding", "closing connection"}

\* A disconnect stops the connect it comes after, also between its two transports:
\* what that connect opens never becomes the request's connection (STOPPED).
StopIsFinal ==
  [][connection' \in {connection, None} \/ connection'[1] \notin stopped']_vars

\* Nothing is on its way: no call under way, no message to the window
Settled ==
  /\ toWindow = <<>>
  /\ \A c \in Calls : at[c] \in {"idle", "rendering", "done"}

\* What the window shows as connected can be called: whoever ended the
\* connection (the user, an agent, the server), the window was told of it last.
\* (Not so for a connection that ended with its pane off screen.)
ShownIsThere == Settled /\ ~unheard /\ shown = "connected" => connection # None

\* Connects and disconnects of the window's own do not leave it showing
\* "Connecting", whatever an agent does meanwhile: the answer that is not shown
\* ("Stopped connecting") is of a connect whose disconnect, or whose successor,
\* answers too.  (Not so for a connect that an agent's call stopped: that call's
\* answer goes to the agent, and the window keeps showing "Connecting".)
ConnectingEnds == Settled /\ ~cut => shown # "connecting"

\* docs/mcp-requests.md:35: "An agent connected to the automation server can open
\* the same connection and call the same tools; the app's window shows it."
AgentsConnectionIsShown ==
  Settled /\ viewed /\ connection # None /\ connection[1] \notin Window => shown = "connected"

=============================================================================
