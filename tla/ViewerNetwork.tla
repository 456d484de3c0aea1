--------------------------- MODULE ViewerNetwork ---------------------------
(***************************************************************************)
(* A viewer's end of a shared session: viewer/network.rs (joining,         *)
(* reconnecting, the end of the session) and viewer/event_loop.rs (the     *)
(* ordered terminal events), under app/src/terminal/shared_session.        *)
(*                                                                         *)
(* As in SharerNetwork a main-thread callback is one action, "running" and *)
(* "resolved" hold the background futures, and a conduit is a proxy        *)
(* channel with its websocket.  Conduit 1 is the first connection's, the   *)
(* others belong to reconnections, in order.  down[c] is what the server   *)
(* sent on conduit c and the main thread has not read: unlike the sharer,  *)
(* the viewer reads whatever socket it comes from.                         *)
(***************************************************************************)
EXTENDS Integers, Sequences

CONSTANTS
    MaxRetries,     \* retry count of RECONNECT_RETRY_STRATEGY (18)
    Faults,         \* what may happen around the component
    MaxEvents,      \* bound: ordered events of the session
    MaxReconnects   \* bound: sockets opened by reconnections

ViewerFaults == {"refuse", "reject", "close", "drop", "idle", "end", "leave", "reauth"}

ASSUME ViewerRetriesAssumption == MaxRetries \in Nat
ASSUME ViewerFaultsAssumption == Faults \subseteq ViewerFaults
ASSUME ViewerBoundsAssumption == MaxEvents \in Nat /\ MaxReconnects \in Nat

VARIABLES
    stage,        \* Stage
    id,           \* the participant id is Some
    running,      \* spawned futures that have not resolved
    resolved,     \* results waiting for the main thread
    tx,           \* the conduit that ws_proxy_tx feeds
    chan,         \* proxy channel of each conduit
    open,         \* its sender is neither closed nor dropped
    sock,         \* its websocket, as this process sees it
    srvOpen,      \* external: the server still uses the conduit's socket
    down,         \* external: sent by the server, not read yet
    fed,          \* external: next event the server sends there, -1 before the
                  \* viewer joined, -2 once it is not served any more
    srvLog,       \* external: number of events of the session
    srvEnded,     \* external: the session is over for this viewer
    nextEvent,    \* next_event_no of the event loop, -1 when there is none
    buffer,       \* keys of the event loop's buffer
    catchingUp,   \* catching_up_to_event_no, -1 for None
    active,       \* set_shared_session_status(ActiveViewer) was called
    idleArmed,    \* the heartbeat's idle timer is running
    idleElapsed,  \* it has elapsed and its callback is pending
    reconnects,   \* conduits used by reconnections
    notices       \* FailedToJoin, FailedToReconnect, SessionEnded emitted

taskVars  == <<running, resolved>>
stageVars == <<stage, id>>
chanVars  == <<tx, chan, open, sock>>
srvVars   == <<srvOpen, down, fed, srvLog, srvEnded>>
loopVars  == <<nextEvent, buffer, catchingUp, active>>
idleVars  == <<idleArmed, idleElapsed>>
uiVars    == <<reconnects, notices>>
vars == <<taskVars, stageVars, chanVars, srvVars, loopVars, idleVars, uiVars>>

Conduits == 1..(1 + MaxReconnects)
Stages == {"BeforeJoined", "JoinedSuccessfully", "Reconnecting", "Finished"}
Notices == {"FailedToJoin", "FailedToReconnect", "SessionEnded"}

(* InitPayload: whether viewer_id is Some, and last_received_event_no, -1  *)
(* for None.  The other upstream messages carry no state modelled here.    *)
Initialize(known, last) == [type |-> "Initialize", known |-> known, last |-> last]
Plain(type) == [type |-> type, known |-> FALSE, last |-> -1]
Upstream == [type : {"Initialize", "Reauthenticated", "State"}, known : BOOLEAN,
             last : Int]

Msg(type, no) == [type |-> type, no |-> no]
Event(n) == Msg("OrderedTerminalEvent", n)
Downstream == [type : {"JoinedSuccessfully", "RejoinedSuccessfully", "OrderedTerminalEvent",
                       "SessionEnded", "FailedToJoin"}, no : Int]

Future(kind, n) == [kind |-> kind, n |-> n]
Connect    == Future("connect", 0)
Retry(r)   == Future("retry", r)
Backoff(r) == Future("backoff", r)
Reauth     == Future("reauth", 0)
Futures == [kind : {"connect", "retry", "backoff", "reauth"}, n : Nat]
Result(f, ok) == [future |-> f, ok |-> ok]

TypeOK ==
    /\ stage \in Stages /\ id \in BOOLEAN
    /\ running \subseteq Futures
    /\ resolved \subseteq [future : Futures, ok : BOOLEAN]
    /\ tx \in Conduits
    /\ chan \in [Conduits -> Seq(Upstream)]
    /\ open \in [Conduits -> BOOLEAN]
    /\ sock \in [Conduits -> {"none", "open", "closing", "ended"}]
    /\ srvOpen \in [Conduits -> BOOLEAN]
    /\ down \in [Conduits -> Seq(Downstream)]
    /\ fed \in [Conduits -> -2..MaxEvents]
    /\ srvLog \in 0..MaxEvents /\ srvEnded \in BOOLEAN
    /\ nextEvent \in -1..MaxEvents
    /\ buffer \subseteq 0..(MaxEvents - 1)
    /\ catchingUp \in -1..(MaxEvents - 1)
    /\ active \in BOOLEAN
    /\ idleArmed \in BOOLEAN /\ idleElapsed \in BOOLEAN
    /\ reconnects \in 0..MaxReconnects
    /\ notices \subseteq Notices

(* Network::new: start_websocket connects. *)
Init ==
    /\ stage = "BeforeJoined" /\ id = FALSE
    /\ running = {Connect} /\ resolved = {}
    /\ tx = 1
    /\ chan = [c \in Conduits |-> <<>>]
    /\ open = [c \in Conduits |-> c = 1]
    /\ sock = [c \in Conduits |-> "none"]
    /\ srvOpen = [c \in Conduits |-> FALSE]
    /\ down = [c \in Conduits |-> <<>>]
    /\ fed = [c \in Conduits |-> -1]
    /\ srvLog = 0 /\ srvEnded = FALSE
    /\ nextEvent = -1 /\ buffer = {} /\ catchingUp = -1 /\ active = FALSE
    /\ idleArmed = FALSE /\ idleElapsed = FALSE
    /\ reconnects = 0 /\ notices = {}

-----------------------------------------------------------------------------
(* Helpers of several handlers.                                            *)

(* try_send on the channel of conduit c; what is put there after the send  *)
(* task stopped is never sent.                                             *)
Queued(c, m) ==
    IF open[c] /\ sock[c] \in {"none", "open"} THEN [chan EXCEPT ![c] = Append(@, m)]
    ELSE chan

(* close(): the handle kept by Stage::Reconnecting is that of the chain's  *)
(* first attempt.                                                          *)
Close ==
    /\ running' = IF stage = "Reconnecting" THEN running \ {Retry(MaxRetries)} ELSE running
    /\ open' = [open EXCEPT ![tx] = FALSE]

CloseWithoutReconnection == Close /\ stage' = "Finished"

(* reconnect_websocket, which runs after close() or on its own. *)
ReconnectWebsocket ==
    IF stage \notin {"Finished", "Reconnecting"} /\ nextEvent # -1
    THEN stage' = "Reconnecting" /\ running' = running \cup {Retry(MaxRetries)}
    ELSE UNCHANGED <<stage, running>>

(* EventLoop::last_received_event_no, -1 for None *)
LastReceived == nextEvent - 1

(* A socket is up: on_websocket_connected starts the heartbeat, the stream *)
(* and the send task.                                                      *)
OnWebsocketConnected(c) ==
    /\ sock' = [sock EXCEPT ![c] = "open"]
    /\ srvOpen' = [srvOpen EXCEPT ![c] = TRUE]
    /\ idleArmed' = TRUE

-----------------------------------------------------------------------------
(* Connecting.                                                             *)

Resolve(f, ok) ==
    /\ f \in running
    /\ \/ ok /\ (f.kind = "retry" => reconnects < MaxReconnects)
       \/ ~ok /\ f.kind \in {"connect", "retry"}
              /\ ("refuse" \in Faults \/ reconnects = MaxReconnects)
    /\ running' = running \ {f}
    /\ resolved' = resolved \cup {Result(f, ok)}
    /\ UNCHANGED <<stageVars, chanVars, srvVars, loopVars, idleVars, uiVars>>

(* start_websocket's callback; nothing happens when the channel was closed *)
(* in the meantime.                                                        *)
ConnectSucceeded ==
    /\ Result(Connect, TRUE) \in resolved
    /\ resolved' = resolved \ {Result(Connect, TRUE)}
    /\ IF open[tx]
       THEN /\ chan' = Queued(tx, Initialize(id, -1))
            /\ OnWebsocketConnected(1)
       ELSE UNCHANGED <<chan, sock, srvOpen, idleArmed>>
    /\ UNCHANGED <<stageVars, loopVars, uiVars, running, tx, open, down, fed, srvLog,
                   srvEnded, idleElapsed>>

ConnectFailed ==
    /\ Result(Connect, FALSE) \in resolved
    /\ resolved' = resolved \ {Result(Connect, FALSE)}
    /\ notices' = notices \cup {"FailedToJoin"}
    /\ UNCHANGED <<running, stageVars, chanVars, srvVars, loopVars, idleVars, reconnects>>

(* Mutant: what was received is taken for what is expected next. *)
InitializeAfterNext == Initialize(id, nextEvent)

(* What reconnect_websocket sends once connected. *)
InitializeAgain == Initialize(id, LastReceived)

(* RequestSucceeded in reconnect_websocket; the stage is not looked at. *)
RetrySucceeded(r) ==
    LET c == 2 + reconnects IN
    /\ Result(Retry(r), TRUE) \in resolved
    /\ reconnects < MaxReconnects
    /\ resolved' = resolved \ {Result(Retry(r), TRUE)}
    /\ reconnects' = reconnects + 1
    /\ tx' = c
    /\ open' = [open EXCEPT ![tx] = FALSE, ![c] = TRUE]
    /\ chan' = [chan EXCEPT ![c] = <<InitializeAgain>>]
    /\ OnWebsocketConnected(c)
    /\ UNCHANGED <<stageVars, loopVars, running, down, fed, srvLog, srvEnded,
                   idleElapsed, notices>>

RetryFailed(r) ==
    /\ r > 0
    /\ Result(Retry(r), FALSE) \in resolved
    /\ resolved' = resolved \ {Result(Retry(r), FALSE)}
    /\ running' = running \cup {Backoff(r)}
    /\ UNCHANGED <<stageVars, chanVars, srvVars, loopVars, idleVars, uiVars>>

BackoffElapsed(r) ==
    /\ Result(Backoff(r), TRUE) \in resolved
    /\ resolved' = resolved \ {Result(Backoff(r), TRUE)}
    /\ running' = running \cup {Retry(r - 1)}
    /\ UNCHANGED <<stageVars, chanVars, srvVars, loopVars, idleVars, uiVars>>

(* Mutant: the viewer is told, the session is not closed. *)
RetriesExhaustedStaysOpen ==
    /\ Result(Retry(0), FALSE) \in resolved
    /\ resolved' = resolved \ {Result(Retry(0), FALSE)}
    /\ notices' = notices \cup {"FailedToReconnect"}
    /\ UNCHANGED <<running, stageVars, chanVars, srvVars, loopVars, idleVars, reconnects>>

(* RequestFailed: the retries are exhausted. *)
RetriesExhausted ==
    /\ Result(Retry(0), FALSE) \in resolved
    /\ resolved' = resolved \ {Result(Retry(0), FALSE)}
    /\ CloseWithoutReconnection
    /\ notices' = notices \cup {"FailedToReconnect"}
    /\ UNCHANGED <<id, tx, chan, sock, srvVars, loopVars, idleVars, reconnects>>

(* RejoinCurrentSession: reauthenticate_viewer fetches the user id, then   *)
(* reconnects although the socket may be fine.  One request at a time.     *)
ReauthenticateViewer ==
    /\ "reauth" \in Faults
    /\ Reauth \notin running /\ Result(Reauth, TRUE) \notin resolved
    /\ reconnects < MaxReconnects
    /\ running' = running \cup {Reauth}
    /\ UNCHANGED <<resolved, stageVars, chanVars, srvVars, loopVars, idleVars, uiVars>>

Reauthenticated ==
    /\ Result(Reauth, TRUE) \in resolved
    /\ resolved' = resolved \ {Result(Reauth, TRUE)}
    /\ chan' = IF stage = "JoinedSuccessfully" THEN Queued(tx, Plain("Reauthenticated"))
               ELSE chan
    /\ ReconnectWebsocket
    /\ UNCHANGED <<id, tx, open, sock, srvVars, loopVars, idleVars, uiVars>>

-----------------------------------------------------------------------------
(* The send task and the session-sharing server (external).                *)

(* The server gives a viewer it knows the events after the last one it     *)
(* received, and a new one all of them; it may or may not keep using the   *)
(* viewer's older sockets.                                                 *)
ServerJoins(c, m) ==
    \/ /\ ~srvEnded
       /\ down' = [down EXCEPT ![c] = Append(@,
                        IF m.known THEN Msg("RejoinedSuccessfully", -1)
                        ELSE Msg("JoinedSuccessfully", srvLog - 1))]
       /\ fed' \in {[fed EXCEPT ![c] = m.last + 1],
                    [d \in Conduits |-> IF d = c THEN m.last + 1
                                        ELSE IF fed[d] >= 0 THEN -2 ELSE fed[d]]}
    \/ /\ "reject" \in Faults \/ srvEnded
       /\ down' = [down EXCEPT ![c] = Append(@, Msg("FailedToJoin", -1))]
       /\ fed' = [fed EXCEPT ![c] = -2]

(* The send task takes a message and the server handles it. *)
Deliver(c) ==
    /\ sock[c] = "open" /\ srvOpen[c] /\ chan[c] # <<>>
    /\ chan' = [chan EXCEPT ![c] = Tail(@)]
    /\ IF Head(chan[c]).type = "Initialize" THEN ServerJoins(c, Head(chan[c]))
       ELSE UNCHANGED <<down, fed>>
    /\ UNCHANGED <<taskVars, stageVars, tx, open, sock, srvOpen, srvLog, srvEnded,
                   loopVars, idleVars, uiVars>>

SendTaskEnds(c) ==
    /\ sock[c] = "open" /\ ~open[c] /\ chan[c] = <<>>
    /\ sock' = [sock EXCEPT ![c] = "closing"]
    /\ UNCHANGED <<taskVars, stageVars, tx, chan, open, srvVars, loopVars, idleVars, uiVars>>

(* External: the sharer's next event reaches the server. *)
SessionGrows ==
    /\ ~srvEnded /\ srvLog < MaxEvents
    /\ srvLog' = srvLog + 1
    /\ UNCHANGED <<taskVars, stageVars, chanVars, srvOpen, down, fed, srvEnded, loopVars,
                   idleVars, uiVars>>

(* External: the server sends the next event it owes on conduit c. *)
ServerSends(c) ==
    /\ srvOpen[c] /\ ~srvEnded /\ fed[c] >= 0 /\ fed[c] < srvLog
    /\ down' = [down EXCEPT ![c] = Append(@, Event(fed[c]))]
    /\ fed' = [fed EXCEPT ![c] = @ + 1]
    /\ UNCHANGED <<taskVars, stageVars, chanVars, srvOpen, srvLog, srvEnded, loopVars,
                   idleVars, uiVars>>

(* External: the session ends, or the viewer is removed from it; the       *)
(* server says so on the sockets it still serves.                          *)
ServerEnds ==
    /\ "end" \in Faults
    /\ ~srvEnded
    /\ srvEnded' = TRUE
    /\ down' = [c \in Conduits |->
                    IF srvOpen[c] /\ fed[c] >= 0 THEN Append(down[c], Msg("SessionEnded", -1))
                    ELSE down[c]]
    /\ UNCHANGED <<taskVars, stageVars, chanVars, srvOpen, fed, srvLog, loopVars, idleVars,
                   uiVars>>

(* External: the connection goes away on the server's side.  A server that *)
(* ended the session closes the sockets that it has answered.              *)
ServerCloses(c) ==
    /\ srvOpen[c]
    /\ \/ sock[c] = "closing"
       \/ "drop" \in Faults
       \/ ("close" \in Faults \/ srvEnded) /\ fed[c] # -1
    /\ srvOpen' = [srvOpen EXCEPT ![c] = FALSE]
    /\ UNCHANGED <<taskVars, stageVars, chanVars, down, fed, srvLog, srvEnded, loopVars,
                   idleVars, uiVars>>

-----------------------------------------------------------------------------
(* What arrives on a socket.                                               *)

Readable(c) == sock[c] \in {"open", "closing"}

(* on_done: the stream of conduit c ended.  Whichever conduit that is, the *)
(* current channel is closed and a joined viewer reconnects.               *)
StreamEnds(c) ==
    /\ Readable(c) /\ ~srvOpen[c]
    /\ down[c] = <<>> \/ "drop" \in Faults
    /\ sock' = [sock EXCEPT ![c] = "ended"]
    /\ chan' = [chan EXCEPT ![c] = <<>>]
    /\ down' = [down EXCEPT ![c] = <<>>]
    /\ IF stage = "JoinedSuccessfully"
       THEN open' = [open EXCEPT ![tx] = FALSE] /\ ReconnectWebsocket
       ELSE Close /\ UNCHANGED stage
    /\ UNCHANGED <<resolved, id, tx, srvOpen, fed, srvLog, srvEnded, loopVars, idleVars,
                   uiVars>>

(* The stream's Ok item: the idle timer is reset, then the message is      *)
(* processed.                                                              *)
Receives(c, type) ==
    /\ Readable(c) /\ down[c] # <<>> /\ Head(down[c]).type = type
    /\ down' = [down EXCEPT ![c] = Tail(@)]
    /\ idleArmed' = TRUE

JoinedSuccessfully(c) ==
    /\ Receives(c, "JoinedSuccessfully")
    /\ IF stage = "JoinedSuccessfully" THEN UNCHANGED <<stage, id, loopVars>>
       ELSE /\ stage' = "JoinedSuccessfully"
            /\ id' = TRUE
            /\ nextEvent' = 0
            /\ buffer' = {}
            /\ catchingUp' = Head(down[c]).no
            /\ active' = (active \/ Head(down[c]).no = -1)
    /\ UNCHANGED <<taskVars, chanVars, srvOpen, fed, srvLog, srvEnded, idleElapsed, uiVars>>

(* Mutant: a viewer that rejoins starts over. *)
RejoinedStartsOver(c) ==
    /\ Receives(c, "RejoinedSuccessfully")
    /\ IF stage = "JoinedSuccessfully" THEN UNCHANGED <<stage, chan, nextEvent>>
       ELSE /\ stage' = "JoinedSuccessfully"
            /\ chan' = Queued(tx, Plain("State"))
            /\ nextEvent' = 0
    /\ UNCHANGED <<taskVars, id, tx, open, sock, srvOpen, fed, srvLog, srvEnded, buffer,
                   catchingUp, active, idleElapsed, uiVars>>

(* RejoinedSuccessfully; send_latest_state_to_server. *)
RejoinedSuccessfully(c) ==
    /\ Receives(c, "RejoinedSuccessfully")
    /\ IF stage = "JoinedSuccessfully" THEN UNCHANGED <<stage, chan>>
       ELSE /\ stage' = "JoinedSuccessfully"
            /\ chan' = Queued(tx, Plain("State"))
    /\ UNCHANGED <<taskVars, id, tx, open, sock, srvOpen, fed, srvLog, srvEnded, loopVars,
                   idleElapsed, uiVars>>

(* The while loop of process_ordered_terminal_event: from n on, everything *)
(* contiguous in b is applied; the result is the next number needed.       *)
FlushedTo(b, n) ==
    CHOOSE k \in n..MaxEvents : k \notin b /\ \A m \in n..(k - 1) : m \in b

(* Mutant: the number is compared after it was advanced. *)
ProcessOrderedTerminalEventLate(n) ==
    LET b == buffer \cup {n}
        k == FlushedTo(b, nextEvent)
    IN /\ nextEvent' = k
       /\ buffer' = b \ (nextEvent..(k - 1))
       /\ active' = (active \/ catchingUp \in (nextEvent + 1)..k)
       /\ UNCHANGED catchingUp

(* EventLoop::process_ordered_terminal_event.  The status becomes active   *)
(* only if the terminal view is alive and its presence manager has a role: *)
(* taken for granted here, as both are made when the session is joined and *)
(* live as long as the pane that the event loop belongs to.                *)
ProcessOrderedTerminalEvent(n) ==
    LET b == buffer \cup {n}
        k == FlushedTo(b, nextEvent)
    IN /\ nextEvent' = k
       /\ buffer' = b \ (nextEvent..(k - 1))
       /\ active' = (active \/ catchingUp \in nextEvent..(k - 1))
       /\ UNCHANGED catchingUp

OrderedTerminalEvent(c) ==
    /\ Receives(c, "OrderedTerminalEvent")
    /\ IF nextEvent = -1 THEN UNCHANGED loopVars
       ELSE ProcessOrderedTerminalEvent(Head(down[c]).no)
    /\ UNCHANGED <<taskVars, stageVars, chanVars, srvOpen, fed, srvLog, srvEnded,
                   idleElapsed, uiVars>>

(* SessionEnded, and ViewerRemoved, which is handled in the same way. *)
SessionEnded(c) ==
    /\ Receives(c, "SessionEnded")
    /\ CloseWithoutReconnection
    /\ notices' = notices \cup {"SessionEnded"}
    /\ UNCHANGED <<resolved, id, tx, chan, sock, srvOpen, fed, srvLog, srvEnded, loopVars,
                   idleElapsed, reconnects>>

FailedToJoin(c) ==
    /\ Receives(c, "FailedToJoin")
    /\ IF stage = "Reconnecting"
       THEN /\ CloseWithoutReconnection
            /\ notices' = notices \cup {"FailedToReconnect"}
       ELSE /\ notices' = notices \cup {"FailedToJoin"}
            /\ UNCHANGED <<stage, running, open>>
    /\ UNCHANGED <<resolved, id, tx, chan, sock, srvOpen, fed, srvLog, srvEnded, loopVars,
                   idleElapsed, reconnects>>

(* The heartbeat's idle timer. *)
IdleTimerElapses ==
    /\ "idle" \in Faults
    /\ idleArmed /\ ~idleElapsed
    /\ idleArmed' = FALSE /\ idleElapsed' = TRUE
    /\ UNCHANGED <<taskVars, stageVars, chanVars, srvVars, loopVars, uiVars>>

HeartbeatIdle ==
    /\ idleElapsed
    /\ idleElapsed' = FALSE
    /\ ReconnectWebsocket
    /\ UNCHANGED <<resolved, id, chanVars, srvVars, loopVars, idleArmed, uiVars>>

(* The terminal manager closes the session: the pane is closed. *)
Leave ==
    /\ "leave" \in Faults
    /\ stage # "Finished"
    /\ CloseWithoutReconnection
    /\ UNCHANGED <<resolved, id, tx, chan, sock, srvVars, loopVars, idleVars, uiVars>>

-----------------------------------------------------------------------------
Callback ==
    \/ ConnectSucceeded \/ ConnectFailed
    \/ \E r \in 0..MaxRetries : RetrySucceeded(r) \/ RetryFailed(r) \/ BackoffElapsed(r)
    \/ RetriesExhausted
    \/ Reauthenticated
    \/ HeartbeatIdle
    \/ \E c \in Conduits : StreamEnds(c)

Receive ==
    \E c \in Conduits :
        \/ JoinedSuccessfully(c) \/ RejoinedSuccessfully(c) \/ OrderedTerminalEvent(c)
        \/ SessionEnded(c) \/ FailedToJoin(c)

Server ==
    \/ SessionGrows \/ ServerEnds
    \/ \E c \in Conduits : ServerSends(c) \/ ServerCloses(c)

Next ==
    \/ \E f \in running, ok \in BOOLEAN : Resolve(f, ok)
    \/ Callback
    \/ Receive
    \/ \E c \in Conduits : Deliver(c) \/ SendTaskEnds(c)
    \/ Server
    \/ ReauthenticateViewer \/ Leave \/ IdleTimerElapses

Spec == Init /\ [][Next]_vars

-----------------------------------------------------------------------------
(* Safety.                                                                 *)

(* Nothing the server sent is missed: on every socket that can still bring *)
(* messages, what was sent and is not applied is buffered or on its way    *)
(* there, wherever the server was told to resume and whatever older        *)
(* sockets brought in the meantime.                                        *)
NoEventSkipped ==
    \A c \in Conduits : Readable(c) /\ nextEvent # -1 =>
        \A n \in nextEvent..(fed[c] - 1) :
            n \in buffer \/ \E i \in DOMAIN down[c] : down[c][i] = Event(n)

(* The viewer becomes an active one with the event that it was to catch up *)
(* to, neither before it nor after.                                        *)
ActiveWhenCaughtUp ==
    active <=> nextEvent # -1 /\ nextEvent > catchingUp

(* What the viewer applied implements the log of SessionLog: each event    *)
(* once, in order, whichever socket brought it.                            *)
Applied == IF nextEvent = -1 THEN {} ELSE 0..(nextEvent - 1)
Log == INSTANCE SessionLog WITH produced <- [i \in 1..srvLog |-> i], delivered <- Applied
RefinesSessionLog == Log!Spec

-----------------------------------------------------------------------------
(* Fairness: of the executor and the main thread, and of a server that     *)
(* answers, keeps sending and closes what this side closed.                *)
OwnFutures == {Connect} \cup {Retry(r) : r \in 0..MaxRetries}
                \cup {Backoff(r) : r \in 1..MaxRetries}

OwnFairness ==
    /\ \A f \in OwnFutures : WF_vars(\E ok \in BOOLEAN : Resolve(f, ok))
    /\ WF_vars(ConnectSucceeded \/ ConnectFailed)
    /\ \A r \in 0..MaxRetries :
        WF_vars(RetrySucceeded(r) \/ RetryFailed(r)) /\ WF_vars(BackoffElapsed(r))
    /\ WF_vars(RetriesExhausted)
    /\ \A c \in Conduits : WF_vars(SendTaskEnds(c)) /\ WF_vars(StreamEnds(c))

ServerFairness ==
    \A c \in Conduits :
        /\ WF_vars(Deliver(c))
        /\ WF_vars(ServerSends(c))
        /\ WF_vars(JoinedSuccessfully(c) \/ RejoinedSuccessfully(c) \/ OrderedTerminalEvent(c)
                    \/ SessionEnded(c) \/ FailedToJoin(c))
        /\ WF_vars(sock[c] = "closing" /\ ServerCloses(c))

LiveSpec == Spec /\ OwnFairness /\ ServerFairness

(* A viewer that joined sees every event of the session, or is told that   *)
(* the session is over for it.                                             *)
EventuallyApplied ==
    \A n \in 0..(MaxEvents - 1) :
        (nextEvent # -1 /\ n < srvLog) ~> (n < nextEvent \/ notices # {})

(* Reconnecting is left: rejoined, or given up.                            *)
ReconnectSettles == (stage = "Reconnecting") ~> (stage # "Reconnecting")
=============================================================================
