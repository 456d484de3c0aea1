--------------------------- MODULE SharerNetwork ---------------------------
(***************************************************************************)
(* The sharer's end of a shared session, app/src/terminal/shared_session/  *)
(* sharer/network.rs: the stage machine, the create-session attempts and   *)
(* their timeouts, the reconnection retry chain, the sockets with their    *)
(* proxy channels, the numbering, storing, flushing and acknowledgement of *)
(* ordered terminal events, and the batching of PTY reads.                 *)
(*                                                                         *)
(* Everything on the main thread runs one callback at a time, so a         *)
(* callback is one action.  Background futures are in "running" until they *)
(* resolve; aborting one acts only there.  A resolved future sits in       *)
(* "resolved" until the main thread runs its callback.                     *)
(*                                                                         *)
(* A conduit is a proxy channel together with the websocket that drains    *)
(* it.  Conduit a (a \in Attempts) belongs to startup attempt a; conduits  *)
(* above MaxAttempts belong to reconnections, in order.  The               *)
(* session-sharing server is not part of the repository: the actions       *)
(* marked external are what sharer/network.rs expects of it.               *)
(***************************************************************************)
EXTENDS Integers, Sequences

CONSTANTS
    MaxAttempts,    \* startup_max_attempts: 3 for ambient agents, else 1
    MaxRetries,     \* retry count of RECONNECT_RETRY_STRATEGY (18)
    MaxBytes,       \* max_session_size, one unit per ordered event
    Faults,         \* what may go wrong around the component
    Kinds,          \* the kinds of terminal events produced
    MaxInputs,      \* bound: terminal events produced
    MaxReconnects   \* bound: sockets opened by reconnections

FaultKinds == {"refuse", "reject", "error", "sendfail", "close", "drop",
               "idle", "terminate", "end"}

ASSUME AttemptsAssumption == MaxAttempts \in Nat \ {0}
ASSUME RetriesAssumption == MaxRetries \in Nat
ASSUME BytesAssumption == MaxBytes \in Nat
ASSUME FaultsAssumption == Faults \subseteq FaultKinds
ASSUME KindsAssumption == Kinds \subseteq {"pty", "other"}
ASSUME BoundsAssumption == MaxInputs \in Nat /\ MaxReconnects \in Nat

VARIABLES
    stage,        \* Stage
    attempt,      \* StartupRetryState.current_attempt
    winner,       \* startup_attempt of StartedSuccessfully, 0 for None
    hasToken,     \* session_id and reconnect_token are Some
    running,      \* spawned futures that have not resolved
    resolved,     \* results waiting for the main thread
    tx,           \* the conduit that ws_proxy_tx feeds
    chan,         \* proxy channel of each conduit: messages not yet sent
    open,         \* its sender is neither closed nor dropped
    sock,         \* its websocket, as this process sees it
    srvOpen,      \* external: the server still reads the conduit's socket
    reply,        \* external: the server's answer to Initialize / Reconnect
    resume,       \* external: last_received_event_no + 1 in that answer
    srvEvents,    \* external: numbers of the events the server has
    srvEnded,     \* external: the server was told that the session ended
    events,       \* every event numbered so far; event_no is its length
    unacked,      \* keys of unacked_terminal_events
    batch,        \* PtyBytesBatchStatus: bytes accumulated, <<>> if NotBatching
    numBytes,     \* num_bytes_shared
    inputs,       \* terminal events read from ordered_events_rx
    idleArmed,    \* the heartbeat's idle timer is running
    idleElapsed,  \* it has elapsed and its callback is pending
    reconnects,   \* conduits used by reconnections
    outcomes,     \* SharedSessionCreatedSuccessfully / FailedToCreateSharedSession
    endAsked      \* end_session was called

taskVars   == <<running, resolved>>
stageVars  == <<stage, attempt, winner, hasToken>>
chanVars   == <<tx, chan, open, sock>>
srvVars    == <<srvOpen, reply, resume, srvEvents, srvEnded>>
eventVars  == <<events, unacked, batch, numBytes, inputs>>
idleVars   == <<idleArmed, idleElapsed>>
uiVars     == <<reconnects, outcomes, endAsked>>
vars == <<taskVars, stageVars, chanVars, srvVars, eventVars, idleVars, uiVars>>

Attempts == 1..MaxAttempts
Conduits == 1..(MaxAttempts + MaxReconnects)

Stages  == {"BeforeStarted", "StartedSuccessfully", "Reconnecting", "Finished"}
Socks   == {"none", "open", "closing", "ended"}
Replies == {"none", "initialized", "busy", "rejected", "reconnected",
            "failedToReconnect", "answered", "refused"}

Msg(type, no) == [type |-> type, no |-> no]
Event(n) == Msg("OrderedTerminalEvent", n)
Msgs == [type : {"Initialize", "Reconnect", "OrderedTerminalEvent", "EndSession"},
         no : Nat]

(* Spawned futures.  Retry(r) is the connection attempt of the chain with  *)
(* r retries remaining, Backoff(r) the timer that follows its failure.     *)
Future(kind, n) == [kind |-> kind, n |-> n]
Connect(a) == Future("connect", a)
Timeout(a) == Future("timeout", a)
Retry(r)   == Future("retry", r)
Backoff(r) == Future("backoff", r)
SendTask(c) == Future("sendtask", c)
Futures == [kind : {"connect", "timeout", "retry", "backoff", "sendtask"}, n : Nat]
Result(f, ok) == [future |-> f, ok |-> ok]

EventNo == Len(events)
Timers(a) == IF MaxAttempts > 1 THEN {Timeout(a)} ELSE {}

StageTypes ==
    /\ stage \in Stages
    /\ attempt \in Attempts
    /\ winner \in 0..MaxAttempts
    /\ hasToken \in BOOLEAN
TaskTypes ==
    /\ running \subseteq Futures
    /\ resolved \subseteq [future : Futures, ok : BOOLEAN]
ChanTypes ==
    /\ tx \in Conduits
    /\ chan \in [Conduits -> Seq(Msgs)]
    /\ open \in [Conduits -> BOOLEAN]
    /\ sock \in [Conduits -> Socks]
SrvTypes ==
    /\ srvOpen \in [Conduits -> BOOLEAN]
    /\ reply \in [Conduits -> Replies]
    /\ resume \in [Conduits -> Nat]
    /\ srvEvents \subseteq Nat
    /\ srvEnded \in BOOLEAN
EventTypes ==
    /\ events \in Seq(Seq(Nat))
    /\ unacked \subseteq Nat
    /\ batch \in Seq(Nat)
    /\ numBytes \in Nat
    /\ inputs \in 0..MaxInputs
IdleTypes == idleArmed \in BOOLEAN /\ idleElapsed \in BOOLEAN
UiTypes ==
    /\ reconnects \in 0..MaxReconnects
    /\ outcomes \in Seq({"created", "failed"})
    /\ endAsked \in BOOLEAN

TypeOK ==
    /\ StageTypes /\ TaskTypes /\ ChanTypes /\ SrvTypes
    /\ EventTypes /\ IdleTypes /\ UiTypes

(* Network::new with scrollback within the limit: the first attempt runs.  *)
Init ==
    /\ stage = "BeforeStarted"
    /\ attempt = 1
    /\ winner = 0
    /\ hasToken = FALSE
    /\ running = {Connect(1)} \cup Timers(1)
    /\ resolved = {}
    /\ tx = 1
    /\ chan = [c \in Conduits |-> <<>>]
    /\ open = [c \in Conduits |-> c = 1]
    /\ sock = [c \in Conduits |-> "none"]
    /\ srvOpen = [c \in Conduits |-> FALSE]
    /\ reply = [c \in Conduits |-> "none"]
    /\ resume = [c \in Conduits |-> 0]
    /\ srvEvents = {}
    /\ srvEnded = FALSE
    /\ events = <<>>
    /\ unacked = {}
    /\ batch = <<>>
    /\ numBytes = 0
    /\ inputs = 0
    /\ idleArmed = FALSE
    /\ idleElapsed = FALSE
    /\ reconnects = 0
    /\ outcomes = <<>>
    /\ endAsked = FALSE

-----------------------------------------------------------------------------
(* Helpers of several handlers.  Operators named after a method constrain  *)
(* the primed variables that the method writes.                            *)

(* Mutant: the callback is compared with the attempt but not the stage. *)
IsActiveAnyStage(a) == attempt = a

(* is_active_startup_attempt_callback *)
IsActive(a) == stage = "BeforeStarted" /\ attempt = a

(* should_ignore_startup_attempt_websocket_callback, for startup sockets;  *)
(* callbacks of a reconnection's socket are never ignored.                 *)
Ignored(c) ==
    /\ c \in Attempts
    /\ \/ stage = "BeforeStarted" /\ attempt # c
       \/ stage = "StartedSuccessfully" /\ winner \notin {0, c}

StartupHandles(a) == {Connect(a), Timeout(a)}

(* try_send of several messages on the channel of conduit c.  What is put  *)
(* there after the send task stopped is never sent.                        *)
Queued(c, msgs) ==
    IF open[c] /\ sock[c] \in {"none", "open"}
    THEN [chan EXCEPT ![c] = @ \o msgs] ELSE chan

Closed(c) == [open EXCEPT ![c] = FALSE]

(* The futures left by close(): in Reconnecting it aborts the handle that  *)
(* spawn_with_retry_on_error returned, which is the chain's first attempt. *)
RunningAfterClose ==
    IF stage = "Reconnecting" THEN running \ {Retry(MaxRetries)} ELSE running

CloseWithoutReconnection ==
    /\ running' = RunningAfterClose
    /\ open' = Closed(tx)
    /\ stage' = "Finished"

(* The numbers flush_terminal_events_to_server(start) sends: it stops at   *)
(* the first one that is not stored.                                       *)
FlushEnd(start) ==
    CHOOSE e \in start..(start + EventNo) :
        /\ e \notin unacked
        /\ \A n \in start..(e - 1) : n \in unacked

(* Mutant: the flush starts one event late. *)
FlushLate(start) ==
    [i \in 1..(FlushEnd(start) - start - 1) |-> Event(start + i)]

Flush(start) ==
    [i \in 1..(FlushEnd(start) - start) |-> Event(start + i - 1)]

(* Mutants: only the named event is removed; one event too many is. *)
AckedByAlone(n) == {n}
AckedByOneMore(n) == {m \in unacked : m <= n + 1}

(* EventsProcessedAck(n): remove n, n - 1, ... while they are stored. *)
AckedBy(n) == {m \in unacked : m <= n /\ \A k \in m..n : k \in unacked}

(* Mutant: the transport of the failed attempt is left open. *)
StartupRetriesOpen ==
    /\ attempt' = attempt + 1
    /\ tx' = attempt + 1
    /\ open' = [open EXCEPT ![attempt + 1] = TRUE]
    /\ running' = (running \ StartupHandles(attempt))
                    \cup {Connect(attempt + 1)} \cup Timers(attempt + 1)
    /\ idleArmed' = FALSE
    /\ UNCHANGED <<stage, outcomes>>

(* Mutant: the new attempt is not given a timeout. *)
StartupRetriesNoTimeout ==
    /\ attempt' = attempt + 1
    /\ tx' = attempt + 1
    /\ open' = [Closed(tx) EXCEPT ![attempt + 1] = TRUE]
    /\ running' = (running \ StartupHandles(attempt)) \cup {Connect(attempt + 1)}
    /\ idleArmed' = FALSE
    /\ UNCHANGED <<stage, outcomes>>

(* handle_startup_failure when another attempt remains: close the          *)
(* transport, then start_create_session_attempt.                           *)
StartupRetries ==
    /\ attempt' = attempt + 1
    /\ tx' = attempt + 1
    /\ open' = [Closed(tx) EXCEPT ![attempt + 1] = TRUE]
    /\ running' = (running \ StartupHandles(attempt))
                    \cup {Connect(attempt + 1)} \cup Timers(attempt + 1)
    /\ idleArmed' = FALSE
    /\ UNCHANGED <<stage, outcomes>>

(* handle_startup_failure when the failure is final. *)
StartupGivesUp ==
    /\ stage' = "Finished"
    /\ open' = Closed(tx)
    /\ running' = running \ StartupHandles(attempt)
    /\ idleArmed' = FALSE
    /\ outcomes' = Append(outcomes, "failed")
    /\ UNCHANGED <<attempt, tx>>

(* Mutant: one attempt too many. *)
StartupFailureOneMore(retryable) ==
    IF retryable /\ attempt <= MaxAttempts THEN StartupRetries ELSE StartupGivesUp

StartupFailure(retryable) ==
    IF retryable /\ attempt < MaxAttempts THEN StartupRetries ELSE StartupGivesUp

startupVars == <<stage, attempt, tx, open, running, idleArmed, outcomes>>

(* reconnect_websocket: only from a stage in which nothing is being done   *)
(* about it, and only with credentials.                                    *)
ReconnectWebsocket ==
    IF stage \notin {"Finished", "Reconnecting"} /\ hasToken
    THEN /\ stage' = "Reconnecting"
         /\ running' = running \cup {Retry(MaxRetries)}
    ELSE UNCHANGED <<stage, running>>

-----------------------------------------------------------------------------
(* Background futures.                                                     *)

(* A future resolves off the main thread.  Timers do not fail; connecting  *)
(* may, when the environment refuses connections.  A reconnection needs a  *)
(* conduit, of which MaxReconnects exist.                                  *)
Resolve(f, ok) ==
    /\ f \in running
    /\ \/ ok /\ (f.kind = "retry" => reconnects < MaxReconnects)
       \/ ~ok /\ f.kind \in {"connect", "retry"}
              /\ ("refuse" \in Faults \/ reconnects = MaxReconnects)
    /\ running' = running \ {f}
    /\ resolved' = resolved \cup {Result(f, ok)}
    /\ UNCHANGED <<stageVars, chanVars, srvVars, eventVars, idleVars, uiVars>>

(* The connect callback of startup attempt a, socket established: a stale  *)
(* attempt drops it; the active one sends Initialize and listens.  Its     *)
(* try_send cannot fail: the channel is open (OneStartupTransport).        *)
ConnectSucceeded(a) ==
    /\ Result(Connect(a), TRUE) \in resolved
    /\ resolved' = resolved \ {Result(Connect(a), TRUE)}
    /\ IF IsActive(a)
       THEN /\ chan' = Queued(tx, <<Msg("Initialize", 0)>>)
            /\ sock' = [sock EXCEPT ![a] = "open"]
            /\ srvOpen' = [srvOpen EXCEPT ![a] = TRUE]
            /\ idleArmed' = TRUE
       ELSE UNCHANGED <<chan, sock, srvOpen, idleArmed>>
    /\ UNCHANGED <<stageVars, eventVars, uiVars, running, tx, open, reply,
                   resume, srvEvents, srvEnded, idleElapsed>>

ConnectFailed(a) ==
    /\ Result(Connect(a), FALSE) \in resolved
    /\ resolved' = resolved \ {Result(Connect(a), FALSE)}
    /\ IF IsActive(a) THEN StartupFailure(TRUE) ELSE UNCHANGED startupVars
    /\ UNCHANGED <<srvVars, eventVars, winner, hasToken, chan, sock,
                   idleElapsed, reconnects, endAsked>>

(* handle_startup_attempt_timeout *)
AttemptTimedOut(a) ==
    /\ Result(Timeout(a), TRUE) \in resolved
    /\ resolved' = resolved \ {Result(Timeout(a), TRUE)}
    /\ IF IsActive(a) THEN StartupFailure(TRUE) ELSE UNCHANGED startupVars
    /\ UNCHANGED <<srvVars, eventVars, winner, hasToken, chan, sock,
                   idleElapsed, reconnects, endAsked>>

(* The reconnection chain connected: a new channel replaces ws_proxy_tx,   *)
(* which drops the old sender; Reconnect is sent and the heartbeat started.*)
(* There is no check of the stage here.                                    *)
RetrySucceeded(r) ==
    LET c == MaxAttempts + reconnects + 1 IN
    /\ Result(Retry(r), TRUE) \in resolved
    /\ resolved' = resolved \ {Result(Retry(r), TRUE)}
    /\ reconnects < MaxReconnects
    /\ reconnects' = reconnects + 1
    /\ tx' = c
    /\ open' = [Closed(tx) EXCEPT ![c] = TRUE]
    /\ chan' = [chan EXCEPT ![c] = <<Msg("Reconnect", 0)>>]
    /\ sock' = [sock EXCEPT ![c] = "open"]
    /\ srvOpen' = [srvOpen EXCEPT ![c] = TRUE]
    /\ idleArmed' = TRUE
    /\ UNCHANGED <<stageVars, eventVars, running, reply, resume, srvEvents,
                   srvEnded, idleElapsed, outcomes, endAsked>>

(* Mutant: a failure is taken for the last one. *)
RetryFailedSilently(r) ==
    /\ r > 0
    /\ Result(Retry(r), FALSE) \in resolved
    /\ resolved' = resolved \ {Result(Retry(r), FALSE)}
    /\ UNCHANGED <<stageVars, chanVars, srvVars, eventVars, idleVars, uiVars, running>>

(* RequestFailedRetryPending: the backoff timer and what follows it are    *)
(* spawned without anybody keeping their handles.                          *)
RetryFailed(r) ==
    /\ r > 0
    /\ Result(Retry(r), FALSE) \in resolved
    /\ resolved' = resolved \ {Result(Retry(r), FALSE)}
    /\ running' = running \cup {Backoff(r)}
    /\ UNCHANGED <<stageVars, chanVars, srvVars, eventVars, idleVars, uiVars>>

BackoffElapsed(r) ==
    /\ r > 0
    /\ Result(Backoff(r), TRUE) \in resolved
    /\ resolved' = resolved \ {Result(Backoff(r), TRUE)}
    /\ running' = running \cup {Retry(r - 1)}
    /\ UNCHANGED <<stageVars, chanVars, srvVars, eventVars, idleVars, uiVars>>

(* RequestFailed: the retries are exhausted. *)
RetriesExhausted ==
    /\ Result(Retry(0), FALSE) \in resolved
    /\ resolved' = resolved \ {Result(Retry(0), FALSE)}
    /\ CloseWithoutReconnection
    /\ UNCHANGED <<srvVars, eventVars, idleVars, uiVars, attempt, winner,
                   hasToken, tx, chan, sock>>

-----------------------------------------------------------------------------
(* The send task of a socket, and the server at its other end.             *)

(* The send task takes the next message and the server handles it.  The    *)
(* server stores events by number.  It answers Initialize and Reconnect,   *)
(* and a Reconnect makes it drop the sharer's older sockets (external).    *)
Deliver(c) ==
    /\ sock[c] = "open"
    /\ srvOpen[c]
    /\ chan[c] # <<>>
    /\ chan' = [chan EXCEPT ![c] = Tail(@)]
    /\ LET m == Head(chan[c]) IN
       \/ /\ m.type = "Initialize"
          /\ \E a \in {"initialized"}
                        \cup (IF "reject" \in Faults THEN {"busy", "rejected"} ELSE {}) :
                reply' = [reply EXCEPT ![c] = a]
          /\ UNCHANGED <<srvOpen, resume, srvEvents, srvEnded>>
       \/ /\ m.type = "Reconnect"
          /\ \E a \in {"reconnected"}
                        \cup (IF "reject" \in Faults \/ srvEnded
                              THEN {"failedToReconnect"} ELSE {}) :
                reply' = [reply EXCEPT ![c] = a]
          /\ resume' = [resume EXCEPT ![c] =
                            CHOOSE k \in 0..EventNo :
                                /\ k \notin srvEvents
                                /\ \A n \in 0..(k - 1) : n \in srvEvents]
          /\ srvOpen' = [d \in Conduits |-> d = c]
          /\ UNCHANGED <<srvEvents, srvEnded>>
       \/ /\ m.type = "OrderedTerminalEvent"
          /\ srvEvents' = srvEvents \cup {m.no}
          /\ UNCHANGED <<srvOpen, reply, resume, srvEnded>>
       \/ /\ m.type = "EndSession"
          /\ srvEnded' = TRUE
          /\ UNCHANGED <<srvOpen, reply, resume, srvEvents>>
    /\ UNCHANGED <<taskVars, stageVars, eventVars, idleVars, uiVars, tx, open, sock>>

(* The channel is closed and drained: the send task closes the socket. *)
SendTaskEnds(c) ==
    /\ sock[c] = "open"
    /\ ~open[c]
    /\ chan[c] = <<>>
    /\ sock' = [sock EXCEPT ![c] = "closing"]
    /\ UNCHANGED <<taskVars, stageVars, srvVars, eventVars, idleVars, uiVars,
                   tx, chan, open>>

(* sink.send fails: the task stops, and its callback will report it when   *)
(* the message was Initialize (startup_send_failed).                       *)
SendTaskFails(c) ==
    /\ "sendfail" \in Faults
    /\ sock[c] = "open"
    /\ chan[c] # <<>>
    /\ chan' = [chan EXCEPT ![c] = <<>>]
    /\ sock' = [sock EXCEPT ![c] = "closing"]
    /\ resolved' = IF Head(chan[c]).type = "Initialize"
                   THEN resolved \cup {Result(SendTask(c), FALSE)} ELSE resolved
    /\ UNCHANGED <<stageVars, srvVars, eventVars, idleVars, uiVars, running,
                   tx, open>>

SendTaskFailureReported(c) ==
    /\ Result(SendTask(c), FALSE) \in resolved
    /\ resolved' = resolved \ {Result(SendTask(c), FALSE)}
    /\ IF ~Ignored(c) /\ c \in Attempts /\ stage = "BeforeStarted"
       THEN StartupFailure(TRUE) ELSE UNCHANGED startupVars
    /\ UNCHANGED <<srvVars, eventVars, winner, hasToken, chan, sock,
                   idleElapsed, reconnects, endAsked>>

(* External: the connection goes away on the server's side, because this   *)
(* side closed it, because the server or the network failed, or because    *)
(* the session is over.  "drop" allows it before the answer was read.      *)
ServerCloses(c) ==
    /\ srvOpen[c]
    /\ \/ sock[c] = "closing"
       \/ "drop" \in Faults
       \/ "close" \in Faults /\ reply[c] \in {"answered", "refused"}
    /\ srvOpen' = [srvOpen EXCEPT ![c] = FALSE]
    /\ UNCHANGED <<taskVars, stageVars, chanVars, eventVars, idleVars, uiVars,
                   reply, resume, srvEvents, srvEnded>>

-----------------------------------------------------------------------------
(* What arrives on a socket (on_websocket_connected's stream callbacks and *)
(* process_websocket_message).                                             *)

Readable(c) == sock[c] \in {"open", "closing"}

(* on_done: the stream of conduit c ended.  It closes the CURRENT channel, *)
(* whichever conduit that is, and what follows depends on the stage.       *)
StreamEnds(c) ==
    /\ Readable(c)
    /\ ~srvOpen[c]
    /\ "drop" \in Faults \/ reply[c] \in {"none", "answered", "refused"}
    /\ sock' = [sock EXCEPT ![c] = "ended"]
    /\ chan' = [chan EXCEPT ![c] = <<>>]
    /\ IF Ignored(c) THEN UNCHANGED startupVars
       ELSE CASE stage = "StartedSuccessfully" ->
                    /\ open' = Closed(tx)
                    /\ ReconnectWebsocket
                    /\ UNCHANGED <<attempt, tx, idleArmed, outcomes>>
              [] stage = "BeforeStarted" -> StartupFailure(TRUE)
              [] OTHER ->
                    /\ open' = Closed(tx)
                    /\ running' = RunningAfterClose
                    /\ UNCHANGED <<stage, attempt, tx, idleArmed, outcomes>>
    /\ UNCHANGED <<srvVars, eventVars, winner, hasToken, resolved,
                   idleElapsed, reconnects, endAsked>>

(* An error item of the stream. *)
StreamError(c) ==
    /\ "error" \in Faults
    /\ Readable(c)
    /\ ~Ignored(c) /\ c \in Attempts /\ stage = "BeforeStarted"
    /\ StartupFailure(TRUE)
    /\ UNCHANGED <<srvVars, eventVars, winner, hasToken, resolved, chan, sock,
                   idleElapsed, reconnects, endAsked>>

(* reset_idle_timeout, before a message of conduit c is processed. *)
MessageArrives(c) ==
    /\ Readable(c)
    /\ idleArmed' = (idleArmed \/ ~Ignored(c))

Consume(c, as) == reply' = [reply EXCEPT ![c] = as]

(* SessionInitialized: credentials, the winning attempt, then everything   *)
(* buffered so far, from event 0.                                          *)
SessionInitialized(c) ==
    /\ reply[c] = "initialized"
    /\ MessageArrives(c)
    /\ Consume(c, "answered")
    /\ IF ~Ignored(c) /\ stage = "BeforeStarted"
       THEN /\ stage' = "StartedSuccessfully"
            /\ winner' = attempt
            /\ hasToken' = TRUE
            /\ running' = running \ StartupHandles(attempt)
            /\ chan' = Queued(tx, Flush(0))
            /\ outcomes' = Append(outcomes, "created")
       ELSE UNCHANGED <<stage, winner, hasToken, running, chan, outcomes>>
    /\ UNCHANGED <<eventVars, attempt, resolved, tx, open, sock, srvOpen, resume,
                   srvEvents, srvEnded, idleElapsed, reconnects, endAsked>>

(* FailedToInitializeSession; only an internal server error is retryable. *)
FailedToInitialize(c) ==
    /\ reply[c] \in {"busy", "rejected"}
    /\ Readable(c)
    /\ Consume(c, "refused")
    /\ IF ~Ignored(c) /\ stage = "BeforeStarted"
       THEN StartupFailure(reply[c] = "busy")
       ELSE /\ MessageArrives(c)
            /\ UNCHANGED <<stage, attempt, tx, open, running, outcomes>>
    /\ UNCHANGED <<eventVars, winner, hasToken, resolved, chan, sock, srvOpen,
                   resume, srvEvents, srvEnded, idleElapsed, reconnects, endAsked>>

(* Mutant: the message is believed in every stage. *)
SessionReconnectedAnyStage(c) ==
    /\ reply[c] = "reconnected"
    /\ MessageArrives(c)
    /\ Consume(c, "answered")
    /\ stage' = "StartedSuccessfully"
    /\ winner' = 0
    /\ chan' = Queued(tx, Flush(resume[c]))
    /\ UNCHANGED <<taskVars, eventVars, attempt, hasToken, tx, open, sock, srvOpen,
                   resume, srvEvents, srvEnded, idleElapsed, uiVars>>

(* Mutant: what was stored while offline is not sent. *)
SessionReconnectedNoFlush(c) ==
    /\ reply[c] = "reconnected"
    /\ MessageArrives(c)
    /\ Consume(c, "answered")
    /\ IF stage = "Reconnecting"
       THEN stage' = "StartedSuccessfully" /\ winner' = 0
       ELSE UNCHANGED <<stage, winner>>
    /\ UNCHANGED <<taskVars, eventVars, attempt, hasToken, chanVars, srvOpen,
                   resume, srvEvents, srvEnded, idleElapsed, uiVars>>

(* SessionReconnected: only while reconnecting; flush what the server      *)
(* has not received.                                                       *)
SessionReconnected(c) ==
    /\ reply[c] = "reconnected"
    /\ MessageArrives(c)
    /\ Consume(c, "answered")
    /\ IF stage = "Reconnecting"
       THEN /\ stage' = "StartedSuccessfully"
            /\ winner' = 0
            /\ chan' = Queued(tx, Flush(resume[c]))
       ELSE UNCHANGED <<stage, winner, chan>>
    /\ UNCHANGED <<taskVars, eventVars, attempt, hasToken, tx, open, sock, srvOpen,
                   resume, srvEvents, srvEnded, idleElapsed, uiVars>>

(* FailedToReconnect *)
FailedToReconnect(c) ==
    /\ reply[c] = "failedToReconnect"
    /\ MessageArrives(c)
    /\ Consume(c, "refused")
    /\ CloseWithoutReconnection
    /\ UNCHANGED <<eventVars, resolved, attempt, winner, hasToken, tx, chan, sock,
                   srvOpen, resume, srvEvents, srvEnded, idleElapsed, uiVars>>

(* SessionTerminated, sent by a server that ends the session. *)
SessionTerminated(c) ==
    /\ "terminate" \in Faults
    /\ reply[c] = "answered"
    /\ MessageArrives(c)
    /\ IF Ignored(c) THEN UNCHANGED <<stage, open, running>>
       ELSE CloseWithoutReconnection
    /\ UNCHANGED <<eventVars, resolved, attempt, winner, hasToken, tx, chan, sock,
                   srvVars, idleElapsed, uiVars>>

(* EventsProcessedAck of an event the server has. *)
EventsProcessedAck(c, n) ==
    /\ reply[c] = "answered"
    /\ n \in srvEvents
    /\ MessageArrives(c)
    /\ unacked' = IF Ignored(c) THEN unacked ELSE unacked \ AckedBy(n)
    /\ UNCHANGED <<taskVars, stageVars, chanVars, srvVars, events, batch, numBytes,
                   inputs, idleElapsed, uiVars>>

(* Any other message only restarts the idle timer here. *)
OtherMessage(c) ==
    /\ "idle" \in Faults
    /\ reply[c] = "answered"
    /\ MessageArrives(c)
    /\ UNCHANGED <<taskVars, stageVars, chanVars, srvVars, eventVars, idleElapsed, uiVars>>

-----------------------------------------------------------------------------
(* The heartbeat's idle timer (heartbeat.rs), which makes the sharer       *)
(* reconnect when nothing was heard from the server.                       *)

IdleTimerElapses ==
    /\ "idle" \in Faults
    /\ idleArmed /\ ~idleElapsed
    /\ idleArmed' = FALSE
    /\ idleElapsed' = TRUE
    /\ UNCHANGED <<taskVars, stageVars, chanVars, srvVars, eventVars, uiVars>>

HeartbeatIdle ==
    /\ idleElapsed
    /\ idleElapsed' = FALSE
    /\ ReconnectWebsocket
    /\ UNCHANGED <<srvVars, eventVars, chanVars, uiVars, attempt, winner, hasToken,
                   resolved, idleArmed>>

-----------------------------------------------------------------------------
(* Ordered terminal events.                                                *)

(* send_ordered_terminal_event_message for each of the payloads in turn.   *)
(* An event that exceeds the limit is not numbered: the session ends.      *)
SendOrdered(payloads) ==
    LET room == IF numBytes < MaxBytes THEN MaxBytes - numBytes ELSE 0
        fit  == SubSeq(payloads, 1, IF room < Len(payloads) THEN room ELSE Len(payloads))
        sent == [i \in 1..Len(fit) |-> Event(EventNo + i - 1)]
        over == Len(fit) < Len(payloads)
    IN
    /\ numBytes' = numBytes + Len(payloads)
    /\ events' = events \o fit
    /\ unacked' = unacked \cup {EventNo + i - 1 : i \in 1..Len(fit)}
    /\ chan' = IF stage # "StartedSuccessfully" THEN chan
               ELSE Queued(tx, IF over THEN Append(sent, Msg("EndSession", 0)) ELSE sent)
    /\ endAsked' = (endAsked \/ over)
    /\ IF over THEN CloseWithoutReconnection ELSE UNCHANGED <<running, open, stage>>

(* A PTY read arrives on ordered_events_rx: it starts or joins a batch.    *)
(* Events that come during in-band output or before bootstrap are dropped  *)
(* by the listener and leave no trace here.                                *)
PtyBytesRead ==
    /\ "pty" \in Kinds
    /\ inputs < MaxInputs
    /\ inputs' = inputs + 1
    /\ batch' = Append(batch, inputs + 1)
    /\ UNCHANGED <<taskVars, stageVars, chanVars, srvVars, events, unacked,
                   numBytes, idleVars, uiVars>>

(* Mutant: the event overtakes the batch. *)
OtherTerminalEventFirst ==
    /\ "other" \in Kinds
    /\ inputs < MaxInputs
    /\ inputs' = inputs + 1
    /\ SendOrdered(<<<<inputs + 1>>>>)
    /\ UNCHANGED <<srvVars, idleVars, batch, resolved, attempt, winner, hasToken, tx, sock,
                   reconnects, outcomes>>

(* Another terminal event arrives: the batch goes first, then the event. *)
OtherTerminalEvent ==
    /\ "other" \in Kinds
    /\ inputs < MaxInputs
    /\ inputs' = inputs + 1
    /\ batch' = <<>>
    /\ SendOrdered(IF batch = <<>> THEN <<<<inputs + 1>>>>
                   ELSE <<batch, <<inputs + 1>>>>)
    /\ UNCHANGED <<srvVars, idleVars, resolved, attempt, winner, hasToken, tx, sock,
                   reconnects, outcomes>>

(* The batch timer fires: send_pty_bytes_read_message. *)
BatchTimerFires ==
    /\ batch # <<>>
    /\ batch' = <<>>
    /\ SendOrdered(<<batch>>)
    /\ UNCHANGED <<srvVars, idleVars, inputs, resolved, attempt, winner, hasToken, tx,
                   sock, reconnects, outcomes>>

(* end_session, called when the user stops sharing. *)
EndSession ==
    /\ "end" \in Faults
    /\ ~endAsked
    /\ endAsked' = TRUE
    /\ chan' = IF stage = "StartedSuccessfully"
               THEN Queued(tx, <<Msg("EndSession", 0)>>) ELSE chan
    /\ CloseWithoutReconnection
    /\ UNCHANGED <<srvVars, eventVars, idleVars, resolved, attempt, winner, hasToken,
                   tx, sock, reconnects, outcomes>>

-----------------------------------------------------------------------------
Background == \E f \in running, ok \in BOOLEAN : Resolve(f, ok)

Callback ==
    \/ \E a \in Attempts : ConnectSucceeded(a) \/ ConnectFailed(a) \/ AttemptTimedOut(a)
    \/ \E r \in 0..MaxRetries : RetrySucceeded(r) \/ RetryFailed(r) \/ BackoffElapsed(r)
    \/ RetriesExhausted
    \/ \E c \in Conduits : SendTaskFailureReported(c) \/ StreamEnds(c)
    \/ HeartbeatIdle

SendTasks == \E c \in Conduits : Deliver(c) \/ SendTaskEnds(c) \/ SendTaskFails(c)

Receive ==
    \E c \in Conduits :
        \/ SessionInitialized(c) \/ FailedToInitialize(c)
        \/ SessionReconnected(c) \/ FailedToReconnect(c)
        \/ SessionTerminated(c) \/ StreamError(c) \/ OtherMessage(c)
        \/ \E n \in srvEvents : EventsProcessedAck(c, n)

Next ==
    \/ Background
    \/ Callback
    \/ SendTasks
    \/ Receive
    \/ \E c \in Conduits : ServerCloses(c)
    \/ IdleTimerElapses
    \/ PtyBytesRead \/ OtherTerminalEvent \/ BatchTimerFires
    \/ EndSession

Spec == Init /\ [][Next]_vars

-----------------------------------------------------------------------------
(* Safety.                                                                 *)

(* What is kept in memory is a suffix of what was numbered: an             *)
(* acknowledgement, however late or out of order, never makes a hole that  *)
(* the flush loop would stop at.                                           *)
UnackedIsSuffix ==
    \A n \in unacked : \A m \in n..(EventNo - 1) : m \in unacked

(* No event is forgotten while the server does not have it.                *)
NothingLost ==
    \A n \in 0..(EventNo - 1) : n \in unacked \/ n \in srvEvents

(* The server's copy of the session never has a hole, across every         *)
(* interleaving of live sends, flushes, closed channels and new sockets.   *)
NoGapAtServer ==
    \A n \in srvEvents : n < EventNo /\ \A m \in 0..n : m \in srvEvents

(* Events carry the terminal's output in the order the terminal produced   *)
(* it: each event is a run of consecutive inputs that starts where the     *)
(* previous event ended, and the batch is what follows the last event.     *)
Runs == Append(events, batch)
InOrder ==
    numBytes <= MaxBytes =>
        /\ \A k \in DOMAIN Runs : \A i \in 2..Len(Runs[k]) : Runs[k][i] = Runs[k][i - 1] + 1
        /\ \A k \in 2..Len(Runs) : Runs[k] # <<>> => Runs[k][1] = Runs[k - 1][Len(Runs[k - 1])] + 1
        /\ Runs # <<<<>>>> => Runs[1][1] = 1

(* The creation of the session is decided at most once.                    *)
StartupOutcomeOnce == Len(outcomes) <= 1

(* A session is only ever created on the socket of the current attempt:    *)
(* until it is, the channel of that attempt is open and no other one is.   *)
OneStartupTransport ==
    stage = "BeforeStarted" =>
        /\ tx = attempt
        /\ \A c \in Conduits : open[c] <=> c = attempt

(* A finished session stays finished.                                      *)
FinishedIsFinal == [][stage = "Finished" => stage' = "Finished"]_vars

(* The server's copy of the session implements the log of SessionLog.      *)
Log == INSTANCE SessionLog WITH produced <- events, delivered <- srvEvents
RefinesSessionLog == Log!Spec

-----------------------------------------------------------------------------
(* Fairness.  The main thread runs every pending callback and the executor *)
(* polls every future and send task to completion.                         *)
OwnFutures == {Connect(a) : a \in Attempts} \cup {Timeout(a) : a \in Attempts}
                \cup {Retry(r) : r \in 0..MaxRetries} \cup {Backoff(r) : r \in 1..MaxRetries}

OwnFairness ==
    /\ \A f \in OwnFutures : WF_vars(\E ok \in BOOLEAN : Resolve(f, ok))
    /\ \A a \in Attempts : WF_vars(ConnectSucceeded(a) \/ ConnectFailed(a))
    /\ \A a \in Attempts : WF_vars(AttemptTimedOut(a))
    /\ \A r \in 0..MaxRetries :
        WF_vars(RetrySucceeded(r) \/ RetryFailed(r)) /\ WF_vars(BackoffElapsed(r))
    /\ WF_vars(RetriesExhausted)
    /\ WF_vars(BatchTimerFires)
    /\ \A c \in Conduits :
        /\ WF_vars(SendTaskFailureReported(c))
        /\ WF_vars(SendTaskEnds(c))
        /\ WF_vars(StreamEnds(c))

(* External: the server reads what is sent, its answers arrive, and a      *)
(* socket that this side closed is closed by the server too.               *)
ServerFairness ==
    \A c \in Conduits :
        /\ WF_vars(Deliver(c))
        /\ WF_vars(SessionInitialized(c) \/ FailedToInitialize(c))
        /\ WF_vars(SessionReconnected(c) \/ FailedToReconnect(c))
        /\ WF_vars(sock[c] = "closing" /\ ServerCloses(c))

StartupSpec == Spec /\ OwnFairness
LiveSpec == Spec /\ OwnFairness /\ ServerFairness

(* With timeouts the creation of a session is decided (or the session was  *)
(* ended) even if the server never answers: no callback that a retry made  *)
(* stale leaves the startup hanging.                                       *)
StartupSettles == <>(outcomes # <<>> \/ stage = "Finished")

(* Reconnecting is left: reconnected, or given up.                         *)
ReconnectSettles == (stage = "Reconnecting") ~> (stage # "Reconnecting")

(* Every numbered event reaches the server unless the session finishes.    *)
EventuallyDelivered ==
    \A n \in 0..(MaxInputs - 1) :
        (n < EventNo) ~> (n \in srvEvents \/ stage = "Finished")

-----------------------------------------------------------------------------
(* What comments in the source say and the code does not do.               *)

(* Stage::Reconnecting: "... and we are trying to reconnect."  Some        *)
(* attempt is under way or a socket may still bring an answer.             *)
ReconnectingIsTrying ==
    stage = "Reconnecting" =>
        \/ \E f \in running \cup {r.future : r \in resolved} : f.kind \in {"retry", "backoff"}
        \/ sock[tx] \in {"open", "closing"} /\ reply[tx] # "answered"
=============================================================================
