------------------------ MODULE WebSocketConnection ------------------------
(***************************************************************************)
(* One WebSocket request's connection in the main process                  *)
(* (main/network/websocket.ts).  Every map of that file is keyed by the    *)
(* request's id, so one request is modelled, and each map is one variable: *)
(* WebSocketConnections is conn, the two log files' streams are stream,    *)
(* Reconnects is reconnect, ClosingOnPurpose is closingOnPurpose.          *)
(*                                                                         *)
(* A call of openWebSocketConnection awaits the database several times     *)
(* before it makes a socket; the user's and the app's calls, the sockets'  *)
(* events and the reconnect timer run in between.  Calls are numbered, and *)
(* a call's socket and streams have the call's number; 0 is none.          *)
(***************************************************************************)
EXTENDS Integers, FiniteSets

CONSTANTS
  MaxAttempts,  \* the reconnect setting's maxAttempts
  MaxOpens,     \* bound: calls of openWebSocketConnection
  MaxOverlapped \* bound: the same, when they overlap

ASSUME AttemptsAssumption == MaxAttempts \in Nat \ {0}
ASSUME OpensAssumption == MaxOpens \in Nat /\ MaxOverlapped \in 0..MaxOpens

VARIABLES
  requestExists,     \* the request's doc
  opens,             \* how many calls of openWebSocketConnection began
  pc,                \* where each call is
  response,          \* the response each call writes: the call that made it
  ws,                \* each call's socket: its readyState
  streams,           \* each call's streams: "none", "open" or "ended"
  conn, stream, reconnect, closingOnPurpose,
  decisions,         \* the afterDrop calls reading the request: their entries
  shown,             \* the readyState last broadcast to the windows
  overlapped,        \* history: a call began with an earlier one unfinished
  closed,            \* history: since opened by hand, was it closed by hand, and when
  tries              \* history: reconnects since then, or since it was last stable

maps == <<conn, stream, reconnect, closingOnPurpose>>
vars == <<requestExists, opens, pc, response, ws, streams, maps, decisions, shown, overlapped,
          closed, tries>>

Calls == 1..MaxOpens

\* A Reconnects entry is made by a socket's open event, and is that event's:
\* the code compares entries by identity.
None == [of |-> 0, attempt |-> 0, timer |-> FALSE, deciding |-> FALSE, opened |-> FALSE,
         response |-> 0]
Entry == [of : Calls, attempt : 0..MaxAttempts, timer : BOOLEAN, deciding : BOOLEAN,
          opened : BOOLEAN, response : Calls]

TypeOK ==
  /\ requestExists \in BOOLEAN
  /\ opens \in 0..MaxOpens
  /\ pc \in [Calls -> {"none", "request", "environment", "prepare", "socket", "answering", "done"}]
  /\ response \in [Calls -> 0..MaxOpens]
  /\ ws \in [Calls -> {"none", "connecting", "aborting", "answered", "open", "closing", "erring",
                       "closed"}]
  /\ streams \in [Calls -> {"none", "open", "ended"}]
  /\ conn \in 0..MaxOpens /\ stream \in 0..MaxOpens
  /\ reconnect \in Entry \cup {None}
  /\ decisions \subseteq Calls
  /\ {closingOnPurpose, shown, overlapped} \subseteq BOOLEAN
  /\ closed \in {"no", "idle", "opening"}
  /\ tries \in Nat

Init ==
  /\ requestExists = TRUE
  /\ opens = 0
  /\ pc = [c \in Calls |-> "none"]
  /\ response = [c \in Calls |-> 0]
  /\ ws = [c \in Calls |-> "none"]
  /\ streams = [c \in Calls |-> "none"]
  /\ conn = 0 /\ stream = 0 /\ reconnect = None /\ closingOnPurpose = FALSE
  /\ decisions = {} /\ shown = FALSE /\ overlapped = FALSE /\ closed = "no" /\ tries = 0

-----------------------------------------------------------------------------
Opening(c) == pc[c] \in {"request", "environment", "prepare"}
Alive(c) == ws[c] \in {"connecting", "aborting", "open", "closing", "erring"}
Unfinished(c) == Opening(c) \/ Alive(c) \/ pc[c] = "answering"

\* isConnected, over the maps' values after a step.
IsConnected(c, w, r) == (c # 0 /\ w[c] = "open") \/ r.timer

\* broadcastReadyState
Broadcast == shown' = IsConnected(conn', ws', reconnect')

\* deleteRequestMaps: whatever connection the maps hold by now.
DeleteRequestMaps ==
  /\ conn' = 0 /\ stream' = 0
  /\ streams' = [c \in Calls |-> IF c = stream THEN "ended" ELSE streams[c]]

\* afterDrop, up to its first await.
AfterDrop(onPurpose) ==
  /\ closingOnPurpose' = FALSE
  /\ IF reconnect.timer \/ reconnect.deciding
       THEN UNCHANGED <<reconnect, decisions, shown>>
       ELSE IF reconnect = None \/ onPurpose
         THEN reconnect' = None /\ UNCHANGED decisions /\ Broadcast
         ELSE /\ reconnect' = [reconnect EXCEPT !.deciding = TRUE]
              /\ decisions' = decisions \cup {reconnect.of}
              /\ UNCHANGED shown

\* A call of openWebSocketConnection up to its first await, past the check for
\* an existing connection; `writes` is the response it carries on, 0 a new one.
BeginOpen(writes) ==
  /\ opens < MaxOpens
  /\ (overlapped \/ \E c \in Calls : Unfinished(c)) => opens < MaxOverlapped
  /\ opens' = opens + 1
  /\ pc' = [pc EXCEPT ![opens'] = "request"]
  /\ response' = [response EXCEPT ![opens'] = IF writes = 0 THEN opens' ELSE writes]
  /\ closingOnPurpose' = FALSE
  /\ overlapped' = (overlapped \/ \E c \in Calls : Unfinished(c))
  /\ UNCHANGED <<requestExists, ws, streams, conn, stream, decisions>>

Resumes(c) == response[c] # c

-----------------------------------------------------------------------------
\* Connect, in a window or over MCP.  With a connection in the map it returns.
Open ==
  /\ conn = 0
  /\ BeginOpen(0)
  /\ reconnect' = None
  /\ closed' = "no" /\ tries' = 0
  /\ UNCHANGED shown

\* The reconnect's timer: it opens the connection again, into its response.
TimerFires ==
  /\ reconnect.timer
  /\ reconnect' = [reconnect EXCEPT !.timer = FALSE]
  /\ IF conn = 0
       THEN BeginOpen(reconnect.response) /\ tries' = tries + 1
       ELSE UNCHANGED <<tries, requestExists, opens, pc, response, ws, streams, conn, stream, decisions,
                        closingOnPurpose, overlapped>>
  /\ UNCHANGED <<shown, closed>>

\* The request is read: gone, the call returns; else its streams are made, and
\* replace in the map (without ending them) any that are there.
GotRequest(c) ==
  /\ pc[c] = "request"
  /\ IF requestExists
       THEN /\ pc' = [pc EXCEPT ![c] = "environment"]
            /\ stream' = c
            /\ streams' = [streams EXCEPT ![c] = "open"]
       ELSE /\ pc' = [pc EXCEPT ![c] = "done"]
            /\ UNCHANGED <<stream, streams>>
  /\ UNCHANGED <<requestExists, opens, response, ws, conn, reconnect, closingOnPurpose, decisions,
                 shown, overlapped, closed, tries>>

\* The environment is read, and the try block begins.
GotEnvironment(c) ==
  /\ pc[c] = "environment"
  /\ pc' = [pc EXCEPT ![c] = "prepare"]
  /\ UNCHANGED <<requestExists, opens, response, ws, streams, maps, decisions, shown, overlapped,
                 closed, tries>>

\* Mutant: the socket is not in the map while it connects.
ConnectUnregistered(c) ==
  /\ pc[c] = "prepare"
  /\ pc' = [pc EXCEPT ![c] = "socket"]
  /\ ws' = [ws EXCEPT ![c] = "connecting"]
  /\ UNCHANGED <<requestExists, opens, response, streams, maps, decisions, shown, overlapped, closed,
                 tries>>

\* Certificates, settings and proxy are read, and the socket is made.
Connect(c) ==
  /\ pc[c] = "prepare"
  /\ pc' = [pc EXCEPT ![c] = "socket"]
  /\ ws' = [ws EXCEPT ![c] = "connecting"]
  /\ conn' = c
  /\ UNCHANGED <<requestExists, opens, response, streams, stream, reconnect, closingOnPurpose,
                 decisions, shown, overlapped, closed, tries>>

\* Mutant: a reconnect that fails to prepare is not taken for a drop.
PrepareFailsQuietly(c) ==
  /\ pc[c] = "prepare"
  /\ pc' = [pc EXCEPT ![c] = "done"]
  /\ DeleteRequestMaps
  /\ UNCHANGED <<ws, reconnect, closingOnPurpose, decisions, shown, requestExists, opens, response,
                 overlapped, closed, tries>>

\* Something in there throws (no URL, a certificate's file, the proxy).
PrepareFails(c) ==
  /\ pc[c] = "prepare"
  /\ pc' = [pc EXCEPT ![c] = "done"]
  /\ DeleteRequestMaps
  /\ UNCHANGED ws
  /\ IF Resumes(c)
       THEN AfterDrop(closingOnPurpose)
       ELSE UNCHANGED <<reconnect, closingOnPurpose, decisions, shown>>
  /\ UNCHANGED <<requestExists, opens, response, overlapped, closed, tries>>

-----------------------------------------------------------------------------
SocketOnly == UNCHANGED <<requestExists, opens, response, overlapped, closed, tries>>

\* Mutants of the open event: the count of attempts starts again at once; the
\* windows are not told.
SocketOpensAfresh(c) ==
  /\ ws[c] = "connecting"
  /\ ws' = [ws EXCEPT ![c] = "open"]
  /\ reconnect' = [of |-> c, attempt |-> 0, timer |-> FALSE, deciding |-> FALSE, opened |-> TRUE,
                   response |-> response[c]]
  /\ UNCHANGED <<pc, streams, conn, stream, closingOnPurpose, decisions>>
  /\ Broadcast
  /\ SocketOnly

SocketOpensUntold(c) ==
  /\ ws[c] = "connecting"
  /\ ws' = [ws EXCEPT ![c] = "open"]
  /\ reconnect' = [of |-> c, attempt |-> IF Resumes(c) THEN reconnect.attempt ELSE 0,
                   timer |-> FALSE, deciding |-> FALSE, opened |-> TRUE,
                   response |-> response[c]]
  /\ UNCHANGED <<pc, streams, conn, stream, closingOnPurpose, decisions, shown>>
  /\ SocketOnly

\* 'open': from here a drop reconnects.  The attempts made so far still count.
SocketOpens(c) ==
  /\ ws[c] = "connecting"
  /\ ws' = [ws EXCEPT ![c] = "open"]
  /\ reconnect' = [of |-> c, attempt |-> IF Resumes(c) THEN reconnect.attempt ELSE 0,
                   timer |-> FALSE, deciding |-> FALSE, opened |-> TRUE,
                   response |-> response[c]]
  /\ UNCHANGED <<pc, streams, conn, stream, closingOnPurpose, decisions>>
  /\ Broadcast
  /\ SocketOnly

\* A failed connection reports an error and then its close, one right after
\* the other; the second afterDrop finds nothing left to do.
SocketFails(c) ==
  /\ ws[c] \in {"connecting", "aborting"}
  /\ ws' = [ws EXCEPT ![c] = "closed"]
  /\ UNCHANGED pc
  /\ DeleteRequestMaps
  /\ AfterDrop(closingOnPurpose)
  /\ SocketOnly

\* An error on an open connection (a frame that breaks the protocol): the
\* socket begins to close, and its close event comes later.
SocketErrs(c) ==
  /\ ws[c] \in {"open", "closing"}
  /\ ws' = [ws EXCEPT ![c] = "erring"]
  /\ UNCHANGED pc
  /\ DeleteRequestMaps
  /\ AfterDrop(closingOnPurpose)
  /\ SocketOnly

\* 'close': dropped, or closed by either end.
SocketCloses(c) ==
  /\ ws[c] \in {"open", "closing", "erring"}
  /\ ws' = [ws EXCEPT ![c] = "closed"]
  /\ UNCHANGED pc
  /\ DeleteRequestMaps
  /\ AfterDrop(closingOnPurpose)
  /\ SocketOnly

\* 'unexpected-response': the server answered with HTTP.  A new response is
\* saved first; a resumed one goes on to the maps at once.
HttpAnswer(c) ==
  /\ ws[c] = "connecting"
  /\ ws' = [ws EXCEPT ![c] = "answered"]
  /\ IF Resumes(c)
       THEN UNCHANGED pc /\ DeleteRequestMaps /\ AfterDrop(TRUE)
       ELSE /\ pc' = [pc EXCEPT ![c] = "answering"]
            /\ closingOnPurpose' = TRUE
            /\ UNCHANGED <<streams, conn, stream, reconnect, decisions, shown>>
  /\ SocketOnly

AnswerSaved(c) ==
  /\ pc[c] = "answering"
  /\ pc' = [pc EXCEPT ![c] = "done"]
  /\ UNCHANGED ws
  /\ DeleteRequestMaps
  /\ AfterDrop(closingOnPurpose)
  /\ SocketOnly

\* A message ends the conversation (a GraphQL subscription completes, an MQTT
\* broker refuses): the app closes the socket on purpose.
MessageEnds(c) ==
  /\ ws[c] = "open"
  /\ ws' = [ws EXCEPT ![c] = "closing"]
  /\ closingOnPurpose' = TRUE
  /\ UNCHANGED <<pc, streams, conn, stream, reconnect, decisions, shown>>
  /\ SocketOnly

-----------------------------------------------------------------------------
\* Mutant of the decision: giving up forgets to cancel.
DecideWithoutCancel(e, enabled, stable) ==
  /\ e \in decisions
  /\ decisions' = decisions \ {e}
  /\ reconnect' = IF reconnect.of # e THEN reconnect
                  ELSE [reconnect EXCEPT !.deciding = FALSE, !.timer = enabled /\ conn = 0,
                                         !.attempt = MaxAttempts]
  /\ UNCHANGED <<requestExists, opens, pc, response, ws, streams, conn, stream, closingOnPurpose,
                 overlapped, closed, tries, shown>>

\* afterDrop goes on with the request read: it gives up, or arms the timer.
\* `stable`: the connection had stayed open STABLE_MS.
Decide(e, enabled, stable) ==
  /\ e \in decisions
  /\ UNCHANGED <<requestExists, opens, pc, response, ws, streams, conn, stream, closingOnPurpose,
                 overlapped, closed>>
  /\ decisions' = decisions \ {e}
  /\ LET attempt == IF stable THEN 0 ELSE reconnect.attempt
         retries == requestExists /\ enabled /\ attempt < MaxAttempts
     IN
     IF reconnect.of # e THEN UNCHANGED <<reconnect, shown, tries>>
     ELSE IF conn # 0
       THEN reconnect' = [reconnect EXCEPT !.deciding = FALSE] /\ UNCHANGED <<shown, tries>>
     ELSE /\ stable => reconnect.opened
          /\ tries' = IF stable THEN 0 ELSE tries
          /\ reconnect' = IF retries
               THEN [reconnect EXCEPT !.deciding = FALSE, !.opened = FALSE, !.timer = TRUE,
                                      !.attempt = attempt + 1]
               ELSE None
          /\ Broadcast

\* Mutant: a reconnect that waits is left to its timer.
CloseSocketOnly ==
  /\ closed' = IF \E c \in Calls : Opening(c) THEN "opening" ELSE "idle"
  /\ tries' = 0
  /\ IF conn = 0
       THEN UNCHANGED <<ws, closingOnPurpose>>
       ELSE /\ closingOnPurpose' = TRUE
            /\ ws' = [ws EXCEPT ![conn] =
                 IF @ \in {"connecting", "answered"} THEN "aborting"
                 ELSE IF @ = "open" THEN "closing" ELSE @]
  /\ UNCHANGED <<requestExists, opens, pc, response, streams, conn, stream, reconnect, decisions,
                 shown, overlapped>>

\* Disconnect (closeWebSocketConnection): a connection in the map is closed on
\* purpose; one still being opened has no socket to close.
Close ==
  /\ reconnect' = None
  /\ closed' = IF \E c \in Calls : Opening(c) THEN "opening" ELSE "idle"
  /\ tries' = 0
  /\ IF conn = 0
       THEN UNCHANGED <<ws, closingOnPurpose>>
       ELSE /\ closingOnPurpose' = TRUE
            /\ ws' = [ws EXCEPT ![conn] =
                 IF @ \in {"connecting", "answered"} THEN "aborting"
                 ELSE IF @ = "open" THEN "closing" ELSE @]
  /\ UNCHANGED <<requestExists, opens, pc, response, streams, conn, stream, decisions, overlapped>>
  /\ IF conn = 0 THEN Broadcast ELSE UNCHANGED shown

RemoveRequest ==
  /\ requestExists
  /\ requestExists' = FALSE
  /\ UNCHANGED <<opens, pc, response, ws, streams, maps, decisions, shown, overlapped, closed, tries>>

Next ==
  \/ Open \/ TimerFires \/ Close \/ RemoveRequest
  \/ \E c \in Calls :
       \/ GotRequest(c) \/ GotEnvironment(c) \/ Connect(c) \/ PrepareFails(c)
       \/ SocketOpens(c) \/ SocketFails(c) \/ SocketErrs(c) \/ SocketCloses(c)
       \/ HttpAnswer(c) \/ AnswerSaved(c) \/ MessageEnds(c)
  \/ \E e \in decisions, enabled, stable \in BOOLEAN : Decide(e, enabled, stable)

Spec == Init /\ [][Next]_vars

\* The database answers, timers fire, and a socket that connects or closes
\* gets there or fails.
Fairness ==
  /\ WF_vars(TimerFires)
  /\ \A c \in Calls :
       /\ WF_vars(GotRequest(c)) /\ WF_vars(GotEnvironment(c))
       /\ WF_vars(Connect(c) \/ PrepareFails(c))
       /\ WF_vars(SocketOpens(c) \/ SocketFails(c) \/ HttpAnswer(c))
       /\ WF_vars(ws[c] \in {"closing", "erring"} /\ SocketCloses(c))
       /\ WF_vars(AnswerSaved(c))
       /\ WF_vars(\E enabled, stable \in BOOLEAN : Decide(c, enabled, stable))

FairSpec == Spec /\ Fairness

-----------------------------------------------------------------------------
\* The connection in use is the one in the map, so it can be sent on, shown and
\* closed, and so is its log file: as long as calls did not overlap, no live
\* socket is out of the map, and no file stays open once its connection is gone.
Tracked ==
  /\ TypeOK
  /\ ~overlapped => \A c \in Calls :
       /\ ws[c] \in {"connecting", "open"} => conn = c
       /\ streams[c] = "open" => stream = c

\* A connection that opened is, until closed or given up, open, being decided
\* about, waiting for its timer, or being opened: never forgotten halfway.
NotForgotten ==
  reconnect # None /\ requestExists /\ ~overlapped =>
    \/ conn # 0 \/ reconnect.timer \/ reconnect.deciding
    \/ \E c \in Calls : Opening(c)

\* "until it opens or the attempts run out": a connection that keeps dropping
\* without staying open is not reopened more than maxAttempts times.
AttemptsRunOut == ~overlapped => tries <= MaxAttempts

\* Disconnect, with no call in its awaits, is final: nothing of the request
\* opens or waits until it is connected by hand again.
CloseIsFinal ==
  closed = "idle" /\ ~overlapped =>
    /\ reconnect = None
    /\ \A c \in Calls : ~Opening(c) /\ ws[c] # "open"

\* What a window can act on, it is shown: a connection in the map that is open,
\* or a reconnect that waits.
ConnectedIsShown == IsConnected(conn, ws, reconnect) => shown

\* Once nothing is going on, a window is not left showing Disconnect.  (It is
\* after a Connect that took the place of a reconnect and then found no request
\* or failed to prepare, which broadcasts nothing.)
DisconnectedIsShown ==
  /\ \A c \in Calls : ~Unfinished(c) /\ (pc[c] = "done" => Resumes(c) \/ ws[c] # "none")
  /\ decisions = {} /\ ~reconnect.timer /\ requestExists
  => ~shown

\* The window's Connect or Disconnect button is the connection's, throughout.
StatusIsShown == ConnectedIsShown /\ DisconnectedIsShown

\* A drop is settled: the connection opens again, or is given up.
DropSettled ==
  (reconnect # None /\ conn = 0) ~>
    \/ \E c \in Calls : ws[c] = "open"
    \/ reconnect = None \/ ~requestExists
    \/ reconnect.timer /\ opens >= IF overlapped THEN MaxOverlapped ELSE MaxOpens

\* "open, or waiting to reconnect: either way the request shows Disconnect"
\* Here once whatever was connecting or closing has done so.
OpenIsShown ==
  /\ \E c \in Calls : ws[c] = "open"
  /\ \A c \in Calls : ~Opening(c) /\ ws[c] \in {"none", "open", "closed"}
  /\ decisions = {}
  => shown

\* "Closes the user ... asked for don't reconnect."
UserCloseIsFinal ==
  closed # "no" /\ ~overlapped => ~\E c \in Calls : Resumes(c) /\ ws[c] = "open"
============================================================================
