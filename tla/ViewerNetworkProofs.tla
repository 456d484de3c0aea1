------------------------ MODULE ViewerNetworkProofs ------------------------
(***************************************************************************)
(* Proofs about ViewerNetwork, for every number of retries, events and     *)
(* reconnections, and every set of faults: the types, that no event is     *)
(* skipped, that the viewer becomes active when it has caught up, and that *)
(* what it applies implements SessionLog.                                  *)
(*                                                                         *)
(* The invariant has two halves: Control says what is pending and when a   *)
(* reconnection can be, Data what the channels, the sockets and the event  *)
(* loop hold.  Most callbacks change only the first.                       *)
(***************************************************************************)
EXTENDS ViewerNetwork, SequenceTheorems, WellFoundedInduction, TLAPS

Joined == nextEvent # -1

(* A reconnection is under way only if there is a session to return to. *)
Chain(f) ==
    /\ f.kind \in {"retry", "backoff"} => Joined
    /\ f.kind = "backoff" => f.n > 0

Tasks ==
    /\ running \subseteq Futures
    /\ resolved \subseteq [future : Futures, ok : BOOLEAN]
    /\ \A f \in running : Chain(f)
    /\ \A x \in resolved : Chain(x.future)

(* The first connection has one outcome, and has it before anything else.  *)
Connecting ==
    Connect \in running \/ Result(Connect, TRUE) \in resolved \/ Result(Connect, FALSE) \in resolved
FirstConnect ==
    /\ Connecting => ~Joined /\ sock[1] = "none"
    /\ Connect \in running => Result(Connect, TRUE) \notin resolved /\ Result(Connect, FALSE) \notin resolved
    /\ ~(Result(Connect, TRUE) \in resolved /\ Result(Connect, FALSE) \in resolved)

ControlTypes ==
    /\ stage \in Stages /\ id \in BOOLEAN
    /\ open \in [Conduits -> BOOLEAN]
    /\ idleArmed \in BOOLEAN /\ idleElapsed \in BOOLEAN
    /\ notices \subseteq Notices

Stays ==
    /\ Joined <=> id
    /\ ~Joined => stage \in {"BeforeJoined", "Finished"}

Control == ControlTypes /\ Tasks /\ FirstConnect /\ Stays

-----------------------------------------------------------------------------
DataTypes ==
    /\ chan \in [Conduits -> Seq(Upstream)]
    /\ sock \in [Conduits -> {"none", "open", "closing", "ended"}]
    /\ srvOpen \in [Conduits -> BOOLEAN]
    /\ down \in [Conduits -> Seq(Downstream)]
    /\ fed \in [Conduits -> Int]
    /\ srvLog \in 0..MaxEvents /\ srvEnded \in BOOLEAN
    /\ reconnects \in 0..MaxReconnects
    /\ tx \in 1..(1 + reconnects)
    /\ active \in BOOLEAN

(* A conduit that was not used yet is empty.                               *)
Fresh ==
    /\ \A c \in Conduits : sock[c] = "none" =>
        chan[c] = <<>> /\ down[c] = <<>> /\ fed[c] = -1 /\ srvOpen[c] = FALSE
    /\ \A c \in Conduits \ {1} : sock[c] = "none" <=> c > 1 + reconnects
    /\ sock[1] = "none" => ~Joined

(* What the channels ask for: to join, or to go on after what was applied. *)
AsksFor(m) ==
    m.type = "Initialize" =>
        IF m.known THEN Joined /\ m.last \in -1..(nextEvent - 1) ELSE ~Joined /\ m.last = -1
Asked == \A c \in Conduits : \A i \in 1..Len(chan[c]) : AsksFor(chan[c][i])

(* What the sockets bring is of the session.                               *)
Brings(c, i, m) ==
    /\ m.type = "OrderedTerminalEvent" => m.no \in 0..(srvLog - 1)
    /\ m.type = "RejoinedSuccessfully" => Joined
    /\ m.type = "JoinedSuccessfully" => m.no \in -1..(srvLog - 1) /\ ~Joined /\ c = 1 /\ i = 1
Brought == \A c \in Conduits : \A i \in 1..Len(down[c]) : Brings(c, i, down[c][i])

Bounds ==
    /\ \A c \in Conduits : fed[c] \in -2..srvLog
    /\ nextEvent \in -1..srvLog
    /\ buffer \subseteq 0..(srvLog - 1)
    /\ catchingUp \in -1..(srvLog - 1)

(* Until the viewer has joined, the first conduit holds the question, then *)
(* the answer and what follows it.                                         *)
Waiting ==
    ~Joined =>
        /\ reconnects = 0 /\ buffer = {} /\ active = FALSE
        /\ chan[1] # <<>> => Len(chan[1]) = 1 /\ down[1] = <<>> /\ fed[1] = -1
        /\ down[1] # <<>> => fed[1] # -1
        /\ fed[1] = -2 => \A i \in 1..Len(down[1]) : down[1][i].type = "FailedToJoin" /\ i = 1
        /\ fed[1] >= 0 /\ down[1] # <<>> => down[1][1].type = "JoinedSuccessfully"
        /\ fed[1] >= 0 /\ srvOpen[1] => down[1] # <<>>

Underway(c, n) == \E i \in 1..Len(down[c]) : down[c][i] = Event(n)
(* As NoEventSkipped, and for a viewer that is joining as well. *)
NothingSkipped ==
    \A c \in Conduits : Readable(c) =>
        \A n \in 0..(fed[c] - 1) : n < nextEvent \/ n \in buffer \/ Underway(c, n)

Data ==
    /\ DataTypes /\ Fresh /\ Asked /\ Brought /\ Bounds /\ Waiting
    /\ NothingSkipped /\ ActiveWhenCaughtUp

IInv == Control /\ Data

dataVars == <<tx, chan, sock, srvVars, loopVars, reconnects>>

-----------------------------------------------------------------------------
(* Types of what the constructors make.                                    *)
LEMMA FutureTypes ==
    /\ Connect \in Futures /\ Reauth \in Futures
    /\ \A r \in Nat : Retry(r) \in Futures /\ Backoff(r) \in Futures
BY DEF Connect, Reauth, Retry, Backoff, Future, Futures

LEMMA MessageTypes ==
    /\ \A known \in BOOLEAN, last \in Int : Initialize(known, last) \in Upstream
    /\ Plain("State") \in Upstream /\ Plain("Reauthenticated") \in Upstream
    /\ \A n \in Int : Event(n) \in Downstream
    /\ \A n \in Int, t \in {"JoinedSuccessfully", "RejoinedSuccessfully", "SessionEnded",
                            "FailedToJoin"} : Msg(t, n) \in Downstream
BY DEF Initialize, Plain, Event, Msg, Upstream, Downstream

LEMMA ConduitFacts == 1 \in Conduits /\ Conduits \subseteq Nat
BY ViewerBoundsAssumption DEF Conduits

LEMMA InitHolds == Init => IInv
<1> SUFFICES ASSUME Init PROVE IInv  OBVIOUS
<1> USE DEF Init, Joined
<1>1. ControlTypes
  BY DEF ControlTypes, Stages
<1>2. Tasks
  BY FutureTypes DEF Tasks, Chain, Connect, Future
<1>3. FirstConnect /\ Stays
  BY ConduitFacts DEF FirstConnect, Connecting, Stays, Result, Connect, Future
<1>4. DataTypes
  <2>1. chan \in [Conduits -> Seq(Upstream)] /\ down \in [Conduits -> Seq(Downstream)]
    OBVIOUS
  <2>2. sock \in [Conduits -> {"none", "open", "closing", "ended"}] /\ fed \in [Conduits -> Int]
    OBVIOUS
  <2>3. srvOpen \in [Conduits -> BOOLEAN] /\ srvEnded \in BOOLEAN /\ active \in BOOLEAN
    OBVIOUS
  <2>4. srvLog \in 0..MaxEvents /\ reconnects \in 0..MaxReconnects /\ tx \in 1..(1 + reconnects)
    BY ViewerBoundsAssumption
  <2> QED  BY <2>1, <2>2, <2>3, <2>4 DEF DataTypes
<1>5. Fresh
  BY ConduitFacts, ViewerBoundsAssumption DEF Fresh, Conduits
<1>6. Asked /\ Brought
  BY DEF Asked, Brought
<1>7. Bounds
  BY DEF Bounds
<1>8. Waiting
  BY ConduitFacts DEF Waiting
<1>9. NothingSkipped
  BY DEF NothingSkipped, Readable
<1>10. ActiveWhenCaughtUp
  BY DEF ActiveWhenCaughtUp
<1> QED  BY <1>1, <1>2, <1>3, <1>4, <1>5, <1>6, <1>7, <1>8, <1>9, <1>10 DEF IInv, Control, Data

-----------------------------------------------------------------------------
(* Control: what is pending, the stage, the flags.                         *)

(* At most f, which is not the first connection, is new. *)
LEMMA TasksKeep ==
    ASSUME Control, Joined => Joined', NEW f \in Futures, f # Connect, Chain(f)',
           running' \subseteq running \cup {f}, resolved' \subseteq resolved,
           Connecting' => ~Joined' /\ sock'[1] = "none"
    PROVE  Tasks' /\ FirstConnect'
<1> USE DEF Control
<1>1. Tasks'
  BY DEF Tasks, Chain
<1>2. FirstConnect'
  BY DEF FirstConnect, Connecting
<1> QED  BY <1>1, <1>2

(* Nothing is new, and the first connection is where it was. *)
LEMMA NothingNew ==
    ASSUME Control, Joined' <=> Joined, sock[1] = "none" => sock'[1] = "none",
           running' \subseteq running \cup {Reauth}, resolved' \subseteq resolved
    PROVE  Tasks' /\ FirstConnect'
<1>1. Reauth \in Futures /\ Reauth # Connect /\ Chain(Reauth)'
  BY FutureTypes DEF Reauth, Connect, Future, Chain
<1>2. Connecting' => Connecting
  BY <1>1 DEF Connecting
<1>3. Connecting' => ~Joined' /\ sock'[1] = "none"
  BY <1>2 DEF Control, FirstConnect
<1> QED  BY <1>1, <1>3, TasksKeep

LEMMA ResolveControl ==
    ASSUME IInv, NEW f \in running, NEW ok \in BOOLEAN, Resolve(f, ok)
    PROVE  Control'
<1> USE DEF IInv, Control
<1>1. running' = running \ {f} /\ resolved' = resolved \cup {Result(f, ok)}
      /\ UNCHANGED <<stageVars, chanVars, srvVars, loopVars, idleVars, uiVars>>
  BY DEF Resolve
<1>2. ControlTypes' /\ Stays'
  BY <1>1 DEF ControlTypes, Stays, Joined, stageVars, chanVars, idleVars, uiVars, loopVars
<1>3. f \in Futures /\ Result(f, ok) \in [future : Futures, ok : BOOLEAN]
      /\ Result(f, ok).future = f
  BY DEF Tasks, Result
<1>4. Tasks'
  BY <1>1, <1>3 DEF Tasks, Chain, Joined, loopVars
<1>5. FirstConnect'
  BY <1>1, <1>3 DEF FirstConnect, Connecting, Joined, loopVars, chanVars, Result
<1> QED  BY <1>2, <1>4, <1>5

(* reconnect_websocket *)
LEMMA ReconnectFacts ==
    ASSUME Control, ReconnectWebsocket
    PROVE  /\ stage' \in Stages
           /\ running' \subseteq running \cup {Retry(MaxRetries)}
           /\ ~Joined => running' = running /\ stage' = stage
BY DEF ReconnectWebsocket, Control, ControlTypes, Stages, Joined

LEMMA ReconnectControl ==
    ASSUME Control, ReconnectWebsocket, resolved' \subseteq resolved,
           UNCHANGED <<loopVars, id>>, sock[1] = "none" => sock'[1] = "none", ControlTypes'
    PROVE  Control'
<1> USE DEF Control
<1>1. Joined' <=> Joined
  BY DEF Joined, loopVars
<1>2. Stays'
  BY <1>1, ReconnectFacts DEF Stays
<1>3. Tasks' /\ FirstConnect'
  <2>1. CASE Joined
    <3>1. Retry(MaxRetries) \in Futures /\ Retry(MaxRetries) # Connect
      BY FutureTypes, ViewerRetriesAssumption DEF Retry, Connect, Future
    <3>2. Chain(Retry(MaxRetries))'
      BY <1>1, <2>1 DEF Chain, Retry, Future
    <3>3. ~Connecting'
      BY <2>1, <3>1, ReconnectFacts DEF FirstConnect, Connecting
    <3> QED  BY <1>1, <3>1, <3>2, <3>3, ReconnectFacts, TasksKeep
  <2>2. CASE ~Joined
    BY <1>1, <2>2, ReconnectFacts, NothingNew
  <2> QED  BY <2>1, <2>2
<1> QED  BY <1>2, <1>3

(* The steps after which the session may be over. *)
LEMMA EndControl ==
    ASSUME Control, running' \subseteq running, resolved' \subseteq resolved,
           stage' \in {stage, "Finished"}, Joined' <=> Joined, UNCHANGED id,
           sock[1] = "none" => sock'[1] = "none", ControlTypes'
    PROVE  Control'
<1> USE DEF Control
<1>2. Stays'
  BY DEF Stays
<1>3. Tasks' /\ FirstConnect'
  BY NothingNew
<1> QED  BY <1>2, <1>3

LEMMA ConnectSucceededControl == IInv /\ ConnectSucceeded => Control'
<1> SUFFICES ASSUME IInv, ConnectSucceeded PROVE Control'  OBVIOUS
<1> USE DEF IInv, Control, ConnectSucceeded
<1>1. ControlTypes' /\ Stays'
  BY DEF ControlTypes, Stays, Joined, stageVars, uiVars, loopVars, OnWebsocketConnected
<1>2. ~Connecting' /\ (Joined' <=> Joined)
  BY DEF FirstConnect, Connecting, Result, Joined, loopVars
<1>3. Tasks' /\ FirstConnect'
  <2>1. Reauth \in Futures /\ Reauth # Connect /\ Chain(Reauth)'
    BY FutureTypes DEF Reauth, Connect, Future, Chain
  <2> QED  BY <1>2, <2>1, TasksKeep
<1> QED  BY <1>1, <1>3

(* What a result in the chain's hands says of the chain. *)
LEMMA ChainResult ==
    ASSUME Control, NEW f, NEW ok, Result(f, ok) \in resolved, f.kind \in {"retry", "backoff"}
    PROVE  Joined /\ id /\ ~Connecting /\ Chain(f) /\ f \in Futures
<1>1. Result(f, ok).future = f
  BY DEF Result
<1> QED  BY <1>1 DEF Control, Tasks, Chain, FirstConnect, Stays

LEMMA ChainGoesOn ==
    ASSUME Control, Joined, ~Connecting, NEW f \in Futures, f.kind \in {"retry", "backoff"},
           Chain(f), running' = running \cup {f}, resolved' \subseteq resolved,
           UNCHANGED <<stageVars, chanVars, loopVars, idleVars, notices>>
    PROVE  Control'
<1> USE DEF Control
<1>1. ControlTypes' /\ Stays' /\ (Joined' <=> Joined)
  BY DEF ControlTypes, Stays, Joined, stageVars, chanVars, idleVars, loopVars
<1>2. f # Connect /\ Chain(f)'
  BY <1>1 DEF Connect, Future, Chain
<1>3. ~Connecting'
  BY <1>2 DEF Connecting
<1> QED  BY <1>1, <1>2, <1>3, TasksKeep

LEMMA RetryControl ==
    ASSUME IInv, NEW r \in 0..MaxRetries, RetryFailed(r) \/ BackoffElapsed(r)
    PROVE  Control'
<1> USE DEF IInv
<1>0. r \in Nat
  BY ViewerRetriesAssumption
<1>1. CASE RetryFailed(r)
  <2>1. Joined /\ ~Connecting
    BY <1>1, ChainResult DEF RetryFailed, Retry, Future
  <2>2. Backoff(r) \in Futures /\ Backoff(r).kind = "backoff" /\ Chain(Backoff(r))
    BY <1>0, <1>1, <2>1, FutureTypes DEF RetryFailed, Backoff, Future, Chain
  <2>3. running' = running \cup {Backoff(r)} /\ resolved' \subseteq resolved
        /\ UNCHANGED <<stageVars, chanVars, loopVars, idleVars, notices>>
    BY <1>1 DEF RetryFailed, uiVars
  <2> QED  BY <2>1, <2>2, <2>3, ChainGoesOn
<1>2. CASE BackoffElapsed(r)
  <2>1. Joined /\ ~Connecting /\ Chain(Backoff(r))
    BY <1>2, ChainResult DEF BackoffElapsed, Backoff, Future
  <2>2. r - 1 \in Nat
    BY <1>0, <2>1 DEF Chain, Backoff, Future
  <2>3. Retry(r - 1) \in Futures /\ Retry(r - 1).kind = "retry" /\ Chain(Retry(r - 1))
    BY <2>1, <2>2, FutureTypes DEF Retry, Future, Chain
  <2>4. running' = running \cup {Retry(r - 1)} /\ resolved' \subseteq resolved
        /\ UNCHANGED <<stageVars, chanVars, loopVars, idleVars, notices>>
    BY <1>2 DEF BackoffElapsed, uiVars
  <2> QED  BY <2>1, <2>3, <2>4, ChainGoesOn
<1> QED  BY <1>1, <1>2

LEMMA CloseFacts ==
    ASSUME ControlTypes, Close
    PROVE  running' \subseteq running /\ open' \in [Conduits -> BOOLEAN]
BY DEF Close, ControlTypes

(* The steps that may end the session, and those that only the channels    *)
(* and the server know of.                                                 *)
LEMMA EndingControl ==
    ASSUME IInv,
           \/ ConnectFailed \/ RetriesExhausted \/ Leave \/ IdleTimerElapses
           \/ \E c \in Conduits : SessionEnded(c) \/ FailedToJoin(c)
    PROVE  Control'
<1> USE DEF IInv, Control
<1>1. CASE ConnectFailed
  <2>1. ControlTypes'
    BY <1>1 DEF ConnectFailed, ControlTypes, Notices, stageVars, chanVars, idleVars
  <2> QED  BY <1>1, <2>1, EndControl DEF ConnectFailed, stageVars, chanVars, loopVars, Joined
<1>2. CASE RetriesExhausted
  <2>1. ControlTypes'
    BY <1>2, CloseFacts
       DEF RetriesExhausted, CloseWithoutReconnection, ControlTypes, Notices, Stages, idleVars
  <2> QED  BY <1>2, <2>1, CloseFacts, EndControl
              DEF RetriesExhausted, CloseWithoutReconnection, loopVars, Joined
<1>3. CASE Leave
  <2>1. ControlTypes'
    BY <1>3, CloseFacts DEF Leave, CloseWithoutReconnection, ControlTypes, Stages, idleVars, uiVars
  <2> QED  BY <1>3, <2>1, CloseFacts, EndControl DEF Leave, CloseWithoutReconnection, loopVars, Joined
<1>4. CASE IdleTimerElapses
  <2>1. ControlTypes'
    BY <1>4 DEF IdleTimerElapses, ControlTypes, stageVars, chanVars, uiVars
  <2> QED  BY <1>4, <2>1, EndControl
              DEF IdleTimerElapses, taskVars, stageVars, chanVars, loopVars, Joined
<1>5. ASSUME NEW c \in Conduits, SessionEnded(c)
      PROVE  Control'
  <2>1. ControlTypes'
    BY <1>5, CloseFacts
       DEF SessionEnded, Receives, CloseWithoutReconnection, ControlTypes, Notices, Stages
  <2> QED  BY <1>5, <2>1, CloseFacts, EndControl
              DEF SessionEnded, CloseWithoutReconnection, loopVars, Joined
<1>6. ASSUME NEW c \in Conduits, FailedToJoin(c)
      PROVE  Control'
  <2>1. running' \subseteq running /\ open' \in [Conduits -> BOOLEAN]
        /\ stage' \in {stage, "Finished"} /\ notices' \subseteq Notices
    BY <1>6, CloseFacts DEF FailedToJoin, CloseWithoutReconnection, ControlTypes, Notices
  <2>2. ControlTypes'
    BY <1>6, <2>1 DEF FailedToJoin, Receives, ControlTypes, Stages
  <2> QED  BY <1>6, <2>1, <2>2, EndControl DEF FailedToJoin, loopVars, Joined
<1> QED  BY <1>1, <1>2, <1>3, <1>4, <1>5, <1>6

LEMMA RetrySucceededControl ==
    ASSUME IInv, NEW r \in 0..MaxRetries, RetrySucceeded(r)
    PROVE  Control'
<1> USE DEF IInv, Control
<1>1. 2 + reconnects # 1
  BY DEF Data, DataTypes
<1>2. ControlTypes'
  BY DEF RetrySucceeded, ControlTypes, OnWebsocketConnected, stageVars
<1>3. UNCHANGED <<stage, id, running, nextEvent>> /\ resolved' \subseteq resolved
      /\ sock'[1] = sock[1]
  BY <1>1, ConduitFacts DEF RetrySucceeded, OnWebsocketConnected, stageVars, loopVars, Data, DataTypes
<1> QED  BY <1>2, <1>3, EndControl DEF Joined

(* The callbacks that end in reconnect_websocket. *)
LEMMA ReconnectingControl ==
    ASSUME IInv, ReauthenticateViewer \/ Reauthenticated \/ HeartbeatIdle
    PROVE  Control'
<1> USE DEF IInv, Control
<1>1. CASE ReauthenticateViewer
  <2>1. ControlTypes' /\ Stays' /\ (Joined' <=> Joined)
    BY <1>1 DEF ReauthenticateViewer, ControlTypes, Stays, Joined, stageVars, chanVars, idleVars,
                uiVars, loopVars
  <2>2. Tasks' /\ FirstConnect'
    BY <1>1, <2>1, NothingNew DEF ReauthenticateViewer, chanVars
  <2> QED  BY <2>1, <2>2
<1>2. CASE Reauthenticated
  <2>1. ControlTypes'
    BY <1>2, ReconnectFacts DEF Reauthenticated, ControlTypes, idleVars, uiVars
  <2> QED  BY <1>2, <2>1, ReconnectControl DEF Reauthenticated
<1>3. CASE HeartbeatIdle
  <2>1. ControlTypes'
    BY <1>3, ReconnectFacts DEF HeartbeatIdle, ControlTypes, chanVars, uiVars
  <2> QED  BY <1>3, <2>1, ReconnectControl DEF HeartbeatIdle, chanVars
<1> QED  BY <1>1, <1>2, <1>3

LEMMA ServerControl ==
    ASSUME IInv,
           \/ SessionGrows \/ ServerEnds
           \/ \E c \in Conduits : Deliver(c) \/ SendTaskEnds(c) \/ ServerSends(c) \/ ServerCloses(c)
    PROVE  Control'
<1>1. UNCHANGED <<taskVars, stageVars, open, loopVars, idleVars, uiVars>>
  BY Zenon DEF SessionGrows, ServerEnds, Deliver, SendTaskEnds, ServerSends, ServerCloses, chanVars
<1>2. sock[1] = "none" => sock'[1] = "none"
  BY ConduitFacts DEF SessionGrows, ServerEnds, Deliver, SendTaskEnds, ServerSends, ServerCloses,
                      chanVars, IInv, Data, DataTypes
<1>3. ControlTypes'
  BY <1>1 DEF IInv, Control, ControlTypes, stageVars, idleVars, uiVars
<1> QED  BY <1>1, <1>2, <1>3, EndControl DEF IInv, Joined, loopVars, taskVars, stageVars

LEMMA StreamEndsControl ==
    ASSUME IInv, NEW c \in Conduits, StreamEnds(c)
    PROVE  Control'
<1> USE DEF IInv, Control
<1>1. sock[1] = "none" => sock'[1] = "none"
  BY ConduitFacts DEF StreamEnds, Readable, Data, DataTypes
<1>2. CASE stage = "JoinedSuccessfully"
  <2>1. ReconnectWebsocket /\ open' = [open EXCEPT ![tx] = FALSE]
    BY <1>2 DEF StreamEnds
  <2>2. ControlTypes'
    BY <2>1, ReconnectFacts DEF StreamEnds, ControlTypes, idleVars, uiVars
  <2> QED  BY <1>1, <2>1, <2>2, ReconnectControl DEF StreamEnds
<1>3. CASE stage # "JoinedSuccessfully"
  <2>1. Close /\ UNCHANGED stage
    BY <1>3 DEF StreamEnds
  <2>2. ControlTypes'
    BY <2>1, CloseFacts DEF StreamEnds, ControlTypes, idleVars, uiVars
  <2> QED  BY <1>1, <2>1, <2>2, CloseFacts, EndControl DEF StreamEnds, loopVars, Joined
<1> QED  BY <1>2, <1>3

LEMMA HeadIsFirst ==
    ASSUME DataTypes, NEW c \in Conduits, down[c] # <<>>
    PROVE  /\ Head(down[c]) = down[c][1] /\ Head(down[c]) \in Downstream
           /\ Len(down[c]) \in Nat /\ 1 \in 1..Len(down[c])
BY DEF DataTypes

LEMMA JoinedControl ==
    ASSUME IInv, NEW c \in Conduits, JoinedSuccessfully(c)
    PROVE  Control'
<1> USE DEF IInv, Control
<1>1. down[c] # <<>> /\ Head(down[c]).type = "JoinedSuccessfully" /\ Readable(c)
      /\ UNCHANGED <<taskVars, chanVars, idleElapsed, uiVars>> /\ idleArmed' = TRUE
  BY DEF JoinedSuccessfully, Receives
<1>2. ~Joined /\ c = 1
  BY <1>1, HeadIsFirst DEF Data, Brought, Brings
<1>3. stage # "JoinedSuccessfully"
  BY <1>2 DEF Stays
<1>4. stage' = "JoinedSuccessfully" /\ id' = TRUE /\ nextEvent' = 0
  BY <1>3 DEF JoinedSuccessfully
<1>5. ~Connecting /\ ~Connecting'
  BY <1>1, <1>2 DEF FirstConnect, Readable, Connecting, taskVars
<1>6. Joined' /\ Stays'
  BY <1>4 DEF Joined, Stays
<1>7. ControlTypes'
  BY <1>1, <1>4 DEF ControlTypes, Stages, chanVars, uiVars
<1>8. Tasks' /\ FirstConnect'
  <2>1. Reauth \in Futures /\ Reauth # Connect /\ Chain(Reauth)'
    BY FutureTypes DEF Reauth, Connect, Future, Chain
  <2> QED  BY <1>1, <1>5, <1>6, <2>1, TasksKeep DEF taskVars
<1> QED  BY <1>6, <1>7, <1>8

LEMMA RejoinedControl ==
    ASSUME IInv, NEW c \in Conduits, RejoinedSuccessfully(c)
    PROVE  Control'
<1> USE DEF IInv, Control
<1>1. down[c] # <<>> /\ Head(down[c]).type = "RejoinedSuccessfully"
  BY DEF RejoinedSuccessfully, Receives
<1>2. Joined
  BY <1>1, HeadIsFirst DEF Data, Brought, Brings
<1>3. stage' = "JoinedSuccessfully" /\ idleArmed' = TRUE
      /\ UNCHANGED <<taskVars, id, open, sock, loopVars, idleElapsed, uiVars>>
  BY DEF RejoinedSuccessfully, Receives
<1>4. ControlTypes' /\ Stays' /\ (Joined' <=> Joined)
  BY <1>2, <1>3 DEF ControlTypes, Stays, Stages, Joined, loopVars, uiVars
<1>5. Tasks' /\ FirstConnect'
  BY <1>3, <1>4, NothingNew DEF taskVars
<1> QED  BY <1>4, <1>5

-----------------------------------------------------------------------------
(* The loop of process_ordered_terminal_event ends, at the first number    *)
(* that is missing.                                                        *)
LEMMA FlushedFacts ==
    ASSUME NEW n \in 0..MaxEvents, NEW b \in SUBSET (0..(MaxEvents - 1))
    PROVE  /\ FlushedTo(b, n) \in n..MaxEvents /\ FlushedTo(b, n) \notin b
           /\ \A m \in n..(FlushedTo(b, n) - 1) : m \in b
<1> USE ViewerBoundsAssumption
<1> DEFINE T == {k \in n..MaxEvents : k \notin b}
<1>1. T \subseteq Nat /\ MaxEvents \in T
  OBVIOUS
<1>2. PICK k \in T : \A j \in T : ~(<<j, k>> \in OpToRel(<, Nat))
  BY <1>1, NatLessThanWellFounded, WFMin
<1>3. \A j \in T : ~(j < k)
  <2> SUFFICES ASSUME NEW j \in T, j < k PROVE FALSE  OBVIOUS
  <2>1. <<j, k>> \in Nat \X Nat /\ <<j, k>>[1] < <<j, k>>[2]
    BY <1>1
  <2>2. <<j, k>> \in OpToRel(<, Nat)
    BY <2>1, Zenon DEF OpToRel
  <2> QED  BY <1>2, <2>2
<1>4. k \in n..MaxEvents /\ k \notin b /\ \A m \in n..(k - 1) : m \in b
  <2>1. k \in n..MaxEvents /\ k \notin b
    OBVIOUS
  <2>2. ASSUME NEW m \in n..(k - 1), m \notin b
        PROVE  FALSE
    <3>1. m \in T /\ m < k
      BY <2>1, <2>2
    <3> QED  BY <1>3, <3>1
  <2> QED  BY <2>1, <2>2
<1> HIDE DEF T
<1> QED  BY <1>4, Zenon DEF FlushedTo

(* Event n reaches the event loop of a viewer that joined. *)
LEMMA ProcessedFacts ==
    ASSUME Data, Joined, NEW n \in 0..(srvLog - 1), ProcessOrderedTerminalEvent(n)
    PROVE  /\ nextEvent' \in nextEvent..srvLog
           /\ buffer' \subseteq 0..(srvLog - 1)
           /\ \A m \in Int : m \in buffer \cup {n} => m < nextEvent' \/ m \in buffer'
           /\ catchingUp' = catchingUp
           /\ active' = (active \/ (nextEvent <= catchingUp /\ catchingUp < nextEvent'))
<1> DEFINE b == buffer \cup {n}
           k == FlushedTo(b, nextEvent)
<1>1. srvLog \in 0..MaxEvents /\ nextEvent \in 0..srvLog /\ buffer \subseteq 0..(srvLog - 1)
      /\ catchingUp \in Int
  BY ViewerBoundsAssumption DEF Data, DataTypes, Bounds, Joined
<1>2. nextEvent \in 0..MaxEvents /\ b \in SUBSET (0..(MaxEvents - 1)) /\ b \subseteq 0..(srvLog - 1)
  BY <1>1, ViewerBoundsAssumption
<1>3. k \in nextEvent..MaxEvents /\ k \notin b /\ \A m \in nextEvent..(k - 1) : m \in b
  BY <1>2, FlushedFacts
<1>4. /\ nextEvent' = k /\ buffer' = b \ (nextEvent..(k - 1)) /\ catchingUp' = catchingUp
      /\ active' = (active \/ catchingUp \in nextEvent..(k - 1))
  BY DEF ProcessOrderedTerminalEvent
<1> HIDE DEF k
<1>5. k <= srvLog
  <2>1. CASE k = nextEvent
    BY <1>1, <2>1
  <2>2. CASE k # nextEvent
    <3>1. k - 1 \in nextEvent..(k - 1)
      BY <1>1, <1>3, <2>2
    <3>2. k - 1 \in b
      BY <1>3, <3>1
    <3> QED  BY <1>1, <1>2, <1>3, <3>2
  <2> QED  BY <2>1, <2>2
<1>6. catchingUp \in nextEvent..(k - 1) <=> nextEvent <= catchingUp /\ catchingUp < k
  BY <1>1, <1>3
<1>7. nextEvent' \in nextEvent..srvLog
  BY <1>1, <1>3, <1>4, <1>5
<1>8. buffer' \subseteq 0..(srvLog - 1)
  BY <1>2, <1>4
<1>9. \A m \in Int : m \in b => m < k \/ m \in buffer'
  BY <1>3, <1>4
<1>10. active' = (active \/ (nextEvent <= catchingUp /\ catchingUp < k))
  BY <1>4, <1>6
<1> QED  BY <1>4, <1>7, <1>8, <1>9, <1>10

(* An event's number, when its conduit brings it. *)
LEMMA EventNumber ==
    ASSUME Data, NEW c \in Conduits, Receives(c, "OrderedTerminalEvent")
    PROVE  Head(down[c]).no \in 0..(srvLog - 1)
<1>1. down[c] # <<>> /\ Head(down[c]).type = "OrderedTerminalEvent"
  BY DEF Receives
<1> QED  BY <1>1, HeadIsFirst DEF Data, Brought, Brings

LEMMA EventControl ==
    ASSUME IInv, NEW c \in Conduits, OrderedTerminalEvent(c)
    PROVE  Control'
<1> USE DEF IInv
<1>1. Joined' <=> Joined
  <2>1. CASE ~Joined
    BY <2>1 DEF OrderedTerminalEvent, Joined, loopVars
  <2>2. CASE Joined
    <3>1. ProcessOrderedTerminalEvent(Head(down[c]).no) /\ Head(down[c]).no \in 0..(srvLog - 1)
      BY <2>2, EventNumber DEF OrderedTerminalEvent, Joined
    <3> QED  BY <2>2, <3>1, ProcessedFacts DEF Joined, Data, Bounds, DataTypes
  <2> QED  BY <2>1, <2>2
<1>2. UNCHANGED <<taskVars, stageVars, chanVars, idleElapsed, uiVars>> /\ idleArmed' = TRUE
  BY DEF OrderedTerminalEvent, Receives
<1>3. ControlTypes'
  BY <1>2 DEF Control, ControlTypes, stageVars, chanVars, uiVars
<1> QED  BY <1>1, <1>2, <1>3, EndControl DEF taskVars, stageVars, chanVars

-----------------------------------------------------------------------------
(* Data: the channels, the sockets, the event loop.                        *)

LEMMA DataQuiet == ASSUME Data, UNCHANGED dataVars PROVE Data'
<1> USE DEF Data, dataVars, srvVars, loopVars
<1>1. DataTypes'
  BY DEF DataTypes
<1>2. Fresh' /\ Asked' /\ Brought' /\ Bounds'
  BY DEF Fresh, Joined, Asked, AsksFor, Brought, Brings, Bounds
<1>3. Waiting' /\ NothingSkipped' /\ ActiveWhenCaughtUp'
  BY DEF Waiting, Joined, NothingSkipped, Readable, Underway, ActiveWhenCaughtUp
<1> QED  BY <1>1, <1>2, <1>3

(* Sockets close, on either side. *)
LEMMA SocketCloses ==
    ASSUME Data, UNCHANGED <<tx, chan, down, fed, srvLog, srvEnded, loopVars, reconnects>>,
           sock' \in [Conduits -> {"none", "open", "closing", "ended"}],
           srvOpen' \in [Conduits -> BOOLEAN],
           \A d \in Conduits : /\ sock'[d] = "none" <=> sock[d] = "none"
                               /\ Readable(d)' => Readable(d)
                               /\ srvOpen'[d] => srvOpen[d]
    PROVE  Data'
<1> USE DEF Data, loopVars
<1>1. DataTypes'
  BY DEF DataTypes
<1>2. Fresh'
  <2>1. \A d \in Conduits : srvOpen[d] = FALSE => srvOpen'[d] = FALSE
    BY DEF DataTypes
  <2> QED  BY <2>1, ConduitFacts DEF Fresh, Joined
<1>3. Asked' /\ Brought' /\ Bounds'
  BY DEF Joined, Asked, AsksFor, Brought, Brings, Bounds
<1>4. Waiting'
  BY ConduitFacts DEF Waiting, Joined
<1>5. NothingSkipped' /\ ActiveWhenCaughtUp'
  BY DEF NothingSkipped, Underway, ActiveWhenCaughtUp
<1> QED  BY <1>1, <1>2, <1>3, <1>4, <1>5

LEMMA ClosingData ==
    ASSUME Data, NEW c \in Conduits, SendTaskEnds(c) \/ ServerCloses(c)
    PROVE  Data'
<1>1. CASE SendTaskEnds(c)
  <2>1. UNCHANGED <<tx, chan, down, fed, srvLog, srvEnded, loopVars, reconnects, srvOpen>>
        /\ sock[c] = "open" /\ sock' = [sock EXCEPT ![c] = "closing"]
    BY <1>1 DEF SendTaskEnds, srvVars, uiVars
  <2>2. sock' \in [Conduits -> {"none", "open", "closing", "ended"}]
        /\ srvOpen' \in [Conduits -> BOOLEAN]
    BY <2>1 DEF Data, DataTypes
  <2>3. \A d \in Conduits : (sock'[d] = "none" <=> sock[d] = "none") /\ (Readable(d)' => Readable(d))
    BY <2>1 DEF Data, DataTypes, Readable
  <2> QED  BY <2>1, <2>2, <2>3, SocketCloses
<1>2. CASE ServerCloses(c)
  <2>1. UNCHANGED <<tx, chan, down, fed, srvLog, srvEnded, loopVars, reconnects, sock>>
        /\ srvOpen' = [srvOpen EXCEPT ![c] = FALSE]
    BY <1>2 DEF ServerCloses, chanVars, uiVars
  <2>2. sock' \in [Conduits -> {"none", "open", "closing", "ended"}]
        /\ srvOpen' \in [Conduits -> BOOLEAN]
    BY <2>1 DEF Data, DataTypes
  <2>3. \A d \in Conduits : (sock'[d] = "none" <=> sock[d] = "none") /\ (Readable(d)' => Readable(d))
    BY <2>1 DEF Readable
  <2>4. \A d \in Conduits : srvOpen'[d] => srvOpen[d]
    BY <2>1 DEF Data, DataTypes
  <2> QED  BY <2>1, <2>2, <2>3, <2>4, SocketCloses
<1> QED  BY <1>1, <1>2

(* The stream of conduit c ends, and takes with it what was in the conduit. *)
LEMMA StreamEndsData ==
    ASSUME Data, NEW c \in Conduits, StreamEnds(c)
    PROVE  Data'
<1> USE DEF Data
<1>1. /\ Readable(c) /\ srvOpen[c] = FALSE
      /\ sock' = [sock EXCEPT ![c] = "ended"] /\ chan' = [chan EXCEPT ![c] = <<>>]
      /\ down' = [down EXCEPT ![c] = <<>>]
      /\ UNCHANGED <<tx, srvOpen, fed, srvLog, srvEnded, nextEvent, buffer, catchingUp, active,
                     reconnects>>
  BY DEF StreamEnds, DataTypes, loopVars, uiVars
<1>2. DataTypes'
  BY <1>1 DEF DataTypes
<1>3. Fresh'
  BY <1>1 DEF Fresh, Joined, DataTypes, Readable
<1>4. Asked' /\ Brought' /\ Bounds'
  <2>1. \A d \in Conduits : d # c => chan'[d] = chan[d] /\ down'[d] = down[d]
    BY <1>1 DEF DataTypes
  <2>2. chan'[c] = <<>> /\ down'[c] = <<>>
    BY <1>1 DEF DataTypes
  <2>3. Asked'
    BY <1>1, <2>1, <2>2 DEF Asked, AsksFor, Joined
  <2>4. Brought'
    BY <1>1, <2>1, <2>2 DEF Brought, Brings, Joined
  <2> QED  BY <1>1, <2>3, <2>4 DEF Bounds
<1>5. Waiting'
  BY <1>1, ConduitFacts DEF Waiting, Joined, DataTypes
<1>6. NothingSkipped'
  <2> SUFFICES ASSUME NEW d \in Conduits, Readable(d)', NEW n \in 0..(fed[d] - 1)
               PROVE  n < nextEvent \/ n \in buffer \/ Underway(d, n)'
    BY <1>1 DEF NothingSkipped
  <2>1. d # c
    BY <1>1 DEF Readable, DataTypes
  <2>2. Readable(d) /\ down'[d] = down[d]
    BY <1>1, <2>1 DEF Readable, DataTypes
  <2> QED  BY <2>2 DEF NothingSkipped, Underway
<1>7. ActiveWhenCaughtUp'
  BY <1>1 DEF ActiveWhenCaughtUp
<1> QED  BY <1>2, <1>3, <1>4, <1>5, <1>6, <1>7

(* A socket opens on a conduit that was not used, with its first message.  *)
LEMMA ConduitOpens ==
    ASSUME Data, NEW c \in Conduits, NEW m \in Upstream, AsksFor(m),
           sock[c] = "none", tx' \in 1..(1 + reconnects'), reconnects' \in 0..MaxReconnects,
           c = 1 => reconnects' = reconnects, c # 1 => Joined /\ c = 1 + reconnects',
           c # 1 => reconnects' = reconnects + 1,
           chan' = [chan EXCEPT ![c] = <<m>>], sock' = [sock EXCEPT ![c] = "open"],
           srvOpen' = [srvOpen EXCEPT ![c] = TRUE],
           UNCHANGED <<down, fed, srvLog, srvEnded, loopVars>>
    PROVE  Data'
<1> USE DEF Data, loopVars
<1>1. chan[c] = <<>> /\ down[c] = <<>> /\ fed[c] = -1
  BY DEF Fresh
<1>2. DataTypes'
  <2>1. chan' \in [Conduits -> Seq(Upstream)]
    BY DEF DataTypes
  <2>2. sock' \in [Conduits -> {"none", "open", "closing", "ended"}]
    BY DEF DataTypes
  <2>3. srvOpen' \in [Conduits -> BOOLEAN]
    BY DEF DataTypes
  <2> QED  BY <2>1, <2>2, <2>3 DEF DataTypes
<1>3. chan'[c] = <<m>> /\ sock'[c] = "open"
      /\ \A d \in Conduits : d # c => chan'[d] = chan[d] /\ sock'[d] = sock[d] /\ srvOpen'[d] = srvOpen[d]
  BY DEF DataTypes
<1>4. Fresh'
  <2>1. \A d \in Conduits : sock'[d] = "none" => d # c /\ sock[d] = "none"
    BY <1>3
  <2>2. \A d \in Conduits : sock'[d] = "none" =>
            chan'[d] = <<>> /\ down'[d] = <<>> /\ fed'[d] = -1 /\ srvOpen'[d] = FALSE
    BY <1>3, <2>1 DEF Fresh
  <2>3. \A d \in Conduits \ {1} : sock'[d] = "none" <=> d > 1 + reconnects'
    <3> SUFFICES ASSUME NEW d \in Conduits \ {1}
                 PROVE  sock'[d] = "none" <=> d > 1 + reconnects'
      OBVIOUS
    <3>1. d \in Nat /\ c \in Nat /\ reconnects \in Nat /\ (sock[d] = "none" <=> d > 1 + reconnects)
      BY ConduitFacts, ViewerBoundsAssumption DEF Fresh, DataTypes
    <3>2. d = c => sock'[d] = "open" /\ ~(d > 1 + reconnects')
      BY <1>3, <3>1
    <3>3. ASSUME d # c
          PROVE  (d > 1 + reconnects <=> d > 1 + reconnects') /\ sock'[d] = sock[d]
      <4>1. sock'[d] = sock[d]
        BY <1>3, <3>3
      <4>2. CASE c = 1
        BY <4>1, <4>2
      <4>3. CASE c # 1
        <5>1. reconnects' = reconnects + 1 /\ c = 2 + reconnects
          BY <3>1, <4>3
        <5>2. d > 1 + reconnects <=> d > 1 + (reconnects + 1)
          BY <3>1, <3>3, <5>1
        <5> QED  BY <4>1, <5>1, <5>2
      <4> QED  BY <4>2, <4>3
    <3> QED  BY <3>1, <3>2, <3>3
  <2>4. sock'[1] = "none" => ~Joined'
    BY <1>3, ConduitFacts DEF Fresh, Joined
  <2> QED  BY <2>2, <2>3, <2>4 DEF Fresh
<1>5. Asked'
  <2>1. ASSUME NEW d \in Conduits, NEW i \in 1..Len(chan'[d])
        PROVE  AsksFor(chan'[d][i])
    <3>1. CASE d = c
      BY <1>3, <3>1
    <3>2. CASE d # c
      BY <1>3, <3>2 DEF Asked
    <3> QED  BY <3>1, <3>2
  <2> QED  BY <2>1 DEF Asked, AsksFor, Joined
<1>6. Brought' /\ Bounds' /\ ActiveWhenCaughtUp'
  BY DEF Brought, Brings, Bounds, Joined, ActiveWhenCaughtUp
<1>7. Waiting'
  <2> SUFFICES ASSUME ~Joined PROVE Waiting'
    BY DEF Waiting, Joined
  <2>1. c = 1
    OBVIOUS
  <2> QED  BY <1>1, <1>3, <2>1 DEF Waiting, Joined
<1>8. NothingSkipped'
  BY <1>1, <1>3 DEF NothingSkipped, Readable, Underway
<1> QED  BY <1>2, <1>4, <1>5, <1>6, <1>7, <1>8

LEMMA ConnectSucceededData == IInv /\ ConnectSucceeded => Data'
<1> SUFFICES ASSUME IInv, ConnectSucceeded PROVE Data'  OBVIOUS
<1> USE DEF IInv, Data
<1>1. ~Joined /\ sock[1] = "none" /\ id = FALSE
  BY DEF ConnectSucceeded, Control, ControlTypes, FirstConnect, Connecting, Stays
<1>2. reconnects = 0 /\ tx = 1
  BY <1>1 DEF Waiting, DataTypes
<1>3. CASE ~open[tx]
  BY <1>3, DataQuiet DEF ConnectSucceeded, dataVars, srvVars, uiVars
<1>4. CASE open[tx]
  <2> DEFINE m == Initialize(id, -1)
  <2>1. m \in Upstream /\ AsksFor(m)
    BY <1>1, MessageTypes DEF Initialize, AsksFor, Control, ControlTypes
  <2>2. chan' = [chan EXCEPT ![1] = Append(chan[1], m)] /\ sock' = [sock EXCEPT ![1] = "open"]
        /\ srvOpen' = [srvOpen EXCEPT ![1] = TRUE]
        /\ UNCHANGED <<tx, reconnects, down, fed, srvLog, srvEnded, loopVars>>
    BY <1>1, <1>2, <1>4 DEF ConnectSucceeded, Queued, OnWebsocketConnected, uiVars
  <2>3. chan[1] = <<>> /\ chan \in [Conduits -> Seq(Upstream)]
    BY <1>1, ConduitFacts DEF Fresh, DataTypes
  <2>4. chan' = [chan EXCEPT ![1] = <<m>>]
    BY <2>2, <2>3
  <2> HIDE DEF m
  <2>5. tx' \in 1..(1 + reconnects') /\ reconnects' \in 0..MaxReconnects
    BY <2>2 DEF DataTypes
  <2> QED  BY <1>1, <2>1, <2>2, <2>4, <2>5, ConduitFacts, ConduitOpens
<1> QED  BY <1>3, <1>4

LEMMA RetrySucceededData ==
    ASSUME IInv, NEW r \in 0..MaxRetries, RetrySucceeded(r)
    PROVE  Data'
<1> DEFINE c == 2 + reconnects
<1> USE DEF IInv
<1>1. Joined /\ id
  BY ChainResult DEF RetrySucceeded, Retry, Future
<1>2. c \in Conduits /\ c # 1 /\ c = 1 + (reconnects + 1) /\ reconnects + 1 \in 0..MaxReconnects
      /\ c \in 1..(1 + (reconnects + 1)) /\ c > 1 + reconnects
  BY ViewerBoundsAssumption DEF RetrySucceeded, Conduits, Data, DataTypes
<1>3. sock[c] = "none"
  BY <1>2 DEF Data, Fresh
<1>4. InitializeAgain \in Upstream /\ AsksFor(InitializeAgain)
  <2>1. nextEvent \in 0..srvLog /\ srvLog \in Int /\ id = TRUE
    BY <1>1, ViewerBoundsAssumption DEF Data, DataTypes, Bounds, Joined, Control, ControlTypes
  <2>2. nextEvent - 1 \in -1..(nextEvent - 1)
    BY <2>1
  <2>3. InitializeAgain = Initialize(TRUE, nextEvent - 1) /\ nextEvent - 1 \in Int
    BY <2>1 DEF InitializeAgain, LastReceived
  <2>4. Initialize(TRUE, nextEvent - 1) \in Upstream
    BY <2>3, MessageTypes
  <2>5. AsksFor(Initialize(TRUE, nextEvent - 1))
    BY <1>1, <2>2 DEF AsksFor, Initialize
  <2> QED  BY <2>3, <2>4, <2>5
<1>5. /\ reconnects' = reconnects + 1 /\ tx' = c
      /\ chan' = [chan EXCEPT ![c] = <<InitializeAgain>>]
      /\ sock' = [sock EXCEPT ![c] = "open"] /\ srvOpen' = [srvOpen EXCEPT ![c] = TRUE]
      /\ UNCHANGED <<down, fed, srvLog, srvEnded, loopVars>>
  BY DEF RetrySucceeded, OnWebsocketConnected
<1> HIDE DEF c
<1> QED  BY <1>1, <1>2, <1>3, <1>4, <1>5, ConduitOpens

(* Once the viewer joined, its channel is one whose socket was opened. *)
LEMMA PlainSent ==
    ASSUME Data, Joined, NEW t \in {"State", "Reauthenticated"}
    PROVE  /\ Queued(tx, Plain(t)) \in [Conduits -> Seq(Upstream)]
           /\ \A d \in Conduits : sock[d] = "none" => Queued(tx, Plain(t))[d] = chan[d]
           /\ \A d \in Conduits : \A i \in 1..Len(Queued(tx, Plain(t))[d]) :
                AsksFor(Queued(tx, Plain(t))[d][i])
<1> DEFINE m == Plain(t)
           q == [chan EXCEPT ![tx] = Append(@, m)]
<1>1. m \in Upstream /\ AsksFor(m)
  BY MessageTypes DEF Plain, AsksFor
<1>2. chan \in [Conduits -> Seq(Upstream)] /\ tx \in Conduits /\ tx \in 1..(1 + reconnects)
  BY ViewerBoundsAssumption DEF Data, DataTypes, Conduits
<1>3. sock[tx] # "none"
  BY <1>2, ConduitFacts, ViewerBoundsAssumption DEF Data, DataTypes, Fresh
<1>4. \A d \in Conduits : \A i \in 1..Len(chan[d]) : AsksFor(chan[d][i])
  BY DEF Data, Asked
<1> HIDE DEF m
<1>5. q \in [Conduits -> Seq(Upstream)] /\ q[tx] = Append(chan[tx], m)
      /\ \A d \in Conduits : d # tx => q[d] = chan[d]
  BY <1>1, <1>2
<1>6. \A d \in Conduits : \A i \in 1..Len(q[d]) : AsksFor(q[d][i])
  <2> SUFFICES ASSUME NEW d \in Conduits, NEW i \in 1..Len(q[d])
               PROVE  AsksFor(q[d][i])
    OBVIOUS
  <2>1. CASE d # tx
    BY <1>4, <1>5, <2>1
  <2>2. CASE d = tx
    <3>1. q[d][i] = m \/ (i \in 1..Len(chan[d]) /\ q[d][i] = chan[d][i])
      BY <1>1, <1>2, <1>5, <2>2
    <3> QED  BY <1>1, <1>4, <3>1
  <2> QED  BY <2>1, <2>2
<1>7. Queued(tx, Plain(t)) \in {chan, q}
  BY DEF Queued, m
<1> HIDE DEF q
<1> QED  BY <1>2, <1>3, <1>4, <1>5, <1>6, <1>7

ChanKept == chan' = chan \/ (Joined /\ \E t \in {"State", "Reauthenticated"} : chan' = Queued(tx, Plain(t)))

LEMMA ChanKeptFacts ==
    ASSUME Data, ChanKept, nextEvent' = nextEvent
    PROVE  /\ chan' \in [Conduits -> Seq(Upstream)]
           /\ \A d \in Conduits : sock[d] = "none" => chan'[d] = chan[d]
           /\ ~Joined => chan' = chan
           /\ Asked'
<1>1. CASE chan' = chan
  BY <1>1 DEF Data, DataTypes, Asked, AsksFor, Joined
<1>2. CASE Joined /\ \E t \in {"State", "Reauthenticated"} : chan' = Queued(tx, Plain(t))
  <2>1. PICK t \in {"State", "Reauthenticated"} : chan' = Queued(tx, Plain(t))
    BY <1>2
  <2>2. /\ chan' \in [Conduits -> Seq(Upstream)]
        /\ \A d \in Conduits : sock[d] = "none" => chan'[d] = chan[d]
        /\ \A d \in Conduits : \A i \in 1..Len(chan'[d]) : AsksFor(chan'[d][i])
    BY <1>2, <2>1, PlainSent
  <2>3. Asked'
    BY <2>2 DEF Asked, AsksFor, Joined
  <2> QED  BY <1>2, <2>2, <2>3
<1> QED  BY <1>1, <1>2 DEF ChanKept

LEMMA ReauthenticatedData == ASSUME IInv, Reauthenticated PROVE Data'
<1> USE DEF IInv, Data
<1>1. ChanKept
  BY DEF Reauthenticated, ChanKept, Control, Stays
<1>2. UNCHANGED <<tx, sock, srvOpen, down, fed, srvLog, srvEnded, nextEvent, buffer, catchingUp,
                  active, reconnects>>
  BY DEF Reauthenticated, srvVars, loopVars, uiVars
<1>3. DataTypes' /\ Asked'
  BY <1>1, <1>2, ChanKeptFacts DEF DataTypes
<1>4. Fresh'
  BY <1>1, <1>2, ChanKeptFacts DEF Fresh, Joined
<1>5. Brought' /\ Bounds' /\ ActiveWhenCaughtUp'
  BY <1>2 DEF Brought, Brings, Bounds, Joined, ActiveWhenCaughtUp
<1>6. Waiting'
  BY <1>1, <1>2, ChanKeptFacts DEF Waiting, Joined
<1>7. NothingSkipped'
  BY <1>2 DEF NothingSkipped, Readable, Underway
<1> QED  BY <1>3, <1>4, <1>5, <1>6, <1>7

(* The first of what conduit c brings is taken. *)
LEMMA Taken ==
    ASSUME DataTypes, NEW c \in Conduits, down[c] # <<>>, down' = [down EXCEPT ![c] = Tail(@)]
    PROVE  /\ down' \in [Conduits -> Seq(Downstream)]
           /\ \A d \in Conduits : d # c => down'[d] = down[d]
           /\ Len(down[c]) \in Nat \ {0} /\ Len(down'[c]) = Len(down[c]) - 1
           /\ \A i \in 1..Len(down'[c]) : i + 1 \in 1..Len(down[c]) /\ down'[c][i] = down[c][i + 1]
           /\ \A i \in 2..Len(down[c]) : i - 1 \in 1..Len(down'[c]) /\ down'[c][i - 1] = down[c][i]
<1>1. down \in [Conduits -> Seq(Downstream)] /\ down[c] \in Seq(Downstream) /\ down'[c] = Tail(down[c])
  BY DEF DataTypes
<1>2. Len(down[c]) \in Nat \ {0} /\ Tail(down[c]) \in Seq(Downstream)
      /\ Len(Tail(down[c])) = Len(down[c]) - 1
      /\ \A i \in 1..Len(Tail(down[c])) : Tail(down[c])[i] = down[c][i + 1]
  BY <1>1
<1>3. down' \in [Conduits -> Seq(Downstream)] /\ \A d \in Conduits : d # c => down'[d] = down[d]
  BY <1>1, <1>2
<1>4. \A i \in 1..Len(down'[c]) : i + 1 \in 1..Len(down[c]) /\ down'[c][i] = down[c][i + 1]
  BY <1>1, <1>2
<1>5. \A i \in 2..Len(down[c]) : i - 1 \in 1..Len(down'[c]) /\ down'[c][i - 1] = down[c][i]
  BY <1>1, <1>2
<1> QED  BY <1>1, <1>2, <1>3, <1>4, <1>5

(* Messages that say nothing of events. *)
LEMMA NoticeTaken ==
    ASSUME Data, NEW c \in Conduits, down[c] # <<>>, down' = [down EXCEPT ![c] = Tail(@)],
           Head(down[c]).type \in {"RejoinedSuccessfully", "SessionEnded", "FailedToJoin"},
           ChanKept,
           UNCHANGED <<tx, sock, srvOpen, fed, srvLog, srvEnded, loopVars, reconnects>>
    PROVE  Data'
<1> USE DEF Data, loopVars
<1>1. /\ down' \in [Conduits -> Seq(Downstream)]
      /\ \A d \in Conduits : d # c => down'[d] = down[d]
      /\ Len(down[c]) \in Nat \ {0} /\ Len(down'[c]) = Len(down[c]) - 1
      /\ \A i \in 1..Len(down'[c]) : i + 1 \in 1..Len(down[c]) /\ down'[c][i] = down[c][i + 1]
      /\ \A i \in 2..Len(down[c]) : i - 1 \in 1..Len(down'[c]) /\ down'[c][i - 1] = down[c][i]
  BY Taken
<1>2. down[c][1].type \in {"RejoinedSuccessfully", "SessionEnded", "FailedToJoin"}
  BY HeadIsFirst
<1>3. DataTypes' /\ Asked'
  BY <1>1, ChanKeptFacts DEF DataTypes
<1>4. Fresh'
  BY <1>1, ChanKeptFacts DEF Fresh, Joined
<1>5. Brought'
  <2> SUFFICES ASSUME NEW d \in Conduits, NEW i \in 1..Len(down'[d])
               PROVE  Brings(d, i, down'[d][i])
    BY DEF Brought, Brings, Joined
  <2>1. CASE d # c
    BY <1>1, <2>1 DEF Brought
  <2>2. CASE d = c
    <3>1. Brings(c, i + 1, down[c][i + 1])
      BY <1>1, <2>2 DEF Brought
    <3>2. i + 1 # 1
      BY <1>1, <2>2
    <3> QED  BY <1>1, <2>2, <3>1, <3>2 DEF Brings
  <2> QED  BY <2>1, <2>2
<1>6. Bounds' /\ ActiveWhenCaughtUp'
  BY DEF Bounds, Joined, ActiveWhenCaughtUp
<1>7. Waiting'
  <2> SUFFICES ASSUME ~Joined PROVE Waiting'
    BY DEF Waiting, Joined
  <2>1. c = 1
    BY ConduitFacts, <1>1 DEF Waiting, Fresh, DataTypes, Conduits
  <2>2. fed[1] = -2
    BY <1>2, <2>1, ConduitFacts DEF Waiting, Bounds
  <2>3. Len(down[1]) = 1
    <3>1. Len(down[1]) \in 1..Len(down[1])
      BY <1>1, <2>1
    <3> QED  BY <2>2, <3>1 DEF Waiting
  <2>4. down'[1] = <<>>
    BY <1>1, <2>1, <2>3, ConduitFacts
  <2>5. chan' = chan
    BY ChanKeptFacts
  <2>6. chan[1] = <<>>
    BY <2>2 DEF Waiting
  <2> QED  BY <2>2, <2>4, <2>5, <2>6 DEF Waiting, Joined
<1>8. NothingSkipped'
  <2> SUFFICES ASSUME NEW d \in Conduits, Readable(d), NEW n \in 0..(fed[d] - 1)
               PROVE  n < nextEvent \/ n \in buffer \/ Underway(d, n)'
    BY DEF NothingSkipped, Readable
  <2>1. CASE d # c
    BY <1>1, <2>1 DEF NothingSkipped, Underway
  <2>2. CASE d = c /\ Underway(d, n)
    <3>1. PICK i \in 1..Len(down[c]) : down[c][i] = Event(n)
      BY <2>2 DEF Underway
    <3>2. i \in 2..Len(down[c])
      BY <1>1, <1>2, <3>1 DEF Event, Msg
    <3>3. i - 1 \in 1..Len(down'[c]) /\ down'[c][i - 1] = Event(n)
      BY <1>1, <3>1, <3>2
    <3> QED  BY <2>2, <3>3, Zenon DEF Underway, Event, Msg
  <2>3. CASE d = c /\ ~Underway(d, n)
    BY <2>3 DEF NothingSkipped
  <2> QED  BY <2>1, <2>2, <2>3
<1> QED  BY <1>3, <1>4, <1>5, <1>6, <1>7, <1>8

LEMMA NoticeData ==
    ASSUME IInv, NEW c \in Conduits, RejoinedSuccessfully(c) \/ SessionEnded(c) \/ FailedToJoin(c)
    PROVE  Data'
<1>1. ChanKept
  <2>1. CASE RejoinedSuccessfully(c)
    <3>1. down[c] # <<>> /\ Head(down[c]).type = "RejoinedSuccessfully"
      BY <2>1 DEF RejoinedSuccessfully, Receives
    <3>2. Joined
      BY <3>1, HeadIsFirst DEF IInv, Data, Brought, Brings
    <3> QED  BY <2>1, <3>2 DEF RejoinedSuccessfully, ChanKept
  <2>2. CASE SessionEnded(c) \/ FailedToJoin(c)
    BY <2>2 DEF SessionEnded, FailedToJoin, ChanKept
  <2> QED  BY <2>1, <2>2
<1>2. /\ down[c] # <<>> /\ down' = [down EXCEPT ![c] = Tail(@)]
      /\ Head(down[c]).type \in {"RejoinedSuccessfully", "SessionEnded", "FailedToJoin"}
  BY DEF RejoinedSuccessfully, SessionEnded, FailedToJoin, Receives
<1>3. UNCHANGED <<tx, sock, srvOpen, fed, srvLog, srvEnded, loopVars, reconnects>>
  BY DEF RejoinedSuccessfully, SessionEnded, FailedToJoin, uiVars
<1> QED  BY <1>1, <1>2, <1>3, NoticeTaken DEF IInv

(* Until the viewer joined, only the first conduit is in use. *)
LEMMA OnlyFirst ==
    ASSUME Data, ~Joined, NEW c \in Conduits, c # 1
    PROVE  sock[c] = "none" /\ chan[c] = <<>> /\ down[c] = <<>> /\ fed[c] = -1
<1>1. c > 1 + reconnects
  BY ConduitFacts DEF Data, Waiting, Conduits
<1> QED  BY <1>1 DEF Data, Fresh

LEMMA EventData ==
    ASSUME IInv, NEW c \in Conduits, OrderedTerminalEvent(c)
    PROVE  Data'
<1> DEFINE e == Head(down[c]).no
<1> USE DEF IInv, Data
<1>1. /\ down[c] # <<>> /\ Head(down[c]).type = "OrderedTerminalEvent"
      /\ down' = [down EXCEPT ![c] = Tail(@)]
      /\ UNCHANGED <<tx, chan, sock, srvOpen, fed, srvLog, srvEnded, reconnects>>
  BY DEF OrderedTerminalEvent, Receives, chanVars, uiVars
<1>2. Head(down[c]) = down[c][1] /\ e \in 0..(srvLog - 1)
  BY <1>1, HeadIsFirst, EventNumber DEF OrderedTerminalEvent
<1>3. Joined
  <2> SUFFICES ASSUME ~Joined PROVE FALSE  OBVIOUS
  <2>1. c = 1
    BY <1>1, OnlyFirst
  <2>2. fed[1] = -2 \/ fed[1] >= 0
    BY <1>1, <2>1, ConduitFacts DEF Waiting, Bounds
  <2>3. 1 \in 1..Len(down[1])
    BY <1>1, <2>1, HeadIsFirst
  <2> QED  BY <1>1, <1>2, <2>1, <2>2, <2>3 DEF Waiting
<1>4. /\ nextEvent' \in nextEvent..srvLog
      /\ buffer' \subseteq 0..(srvLog - 1)
      /\ \A m \in Int : m \in buffer \cup {e} => m < nextEvent' \/ m \in buffer'
      /\ catchingUp' = catchingUp
      /\ active' = (active \/ (nextEvent <= catchingUp /\ catchingUp < nextEvent'))
  BY <1>2, <1>3, ProcessedFacts DEF OrderedTerminalEvent, Joined
<1>5. nextEvent \in 0..srvLog /\ srvLog \in Nat /\ Joined' /\ nextEvent' \in Nat
  BY <1>3, <1>4, ViewerBoundsAssumption DEF Joined, Bounds, DataTypes
<1>6. /\ down' \in [Conduits -> Seq(Downstream)]
      /\ \A d \in Conduits : d # c => down'[d] = down[d]
      /\ Len(down[c]) \in Nat \ {0} /\ Len(down'[c]) = Len(down[c]) - 1
      /\ \A i \in 1..Len(down'[c]) : i + 1 \in 1..Len(down[c]) /\ down'[c][i] = down[c][i + 1]
      /\ \A i \in 2..Len(down[c]) : i - 1 \in 1..Len(down'[c]) /\ down'[c][i - 1] = down[c][i]
  BY <1>1, Taken
<1> HIDE DEF e
<1>7. DataTypes'
  <2>1. active' \in BOOLEAN
    BY <1>4
  <2> QED  BY <1>1, <1>6, <2>1 DEF DataTypes
<1>8. Fresh'
  BY <1>1, <1>3, <1>5, <1>6 DEF Fresh, Joined
<1>9. Asked'
  <2> SUFFICES ASSUME NEW d \in Conduits, NEW i \in 1..Len(chan[d]),
                      chan[d][i].type = "Initialize"
               PROVE  chan[d][i].known /\ chan[d][i].last \in -1..(nextEvent' - 1)
    BY <1>1, <1>5 DEF Asked, AsksFor
  <2>1. chan[d][i].known /\ chan[d][i].last \in -1..(nextEvent - 1)
    BY <1>3 DEF Asked, AsksFor
  <2> QED  BY <1>4, <1>5, <2>1
<1>10. Brought'
  <2>1. ASSUME NEW d \in Conduits, NEW i \in 1..Len(down'[d])
        PROVE  \E j \in 1..Len(down[d]) : Brings(d, j, down'[d][i])
    <3>1. CASE d = c
      BY <1>6, <3>1 DEF Brought
    <3>2. CASE d # c
      BY <1>6, <3>2 DEF Brought
    <3> QED  BY <3>1, <3>2
  <2> QED  BY <1>1, <1>3, <1>5, <2>1 DEF Brought, Brings
<1>11. Bounds'
  BY <1>1, <1>4, <1>5 DEF Bounds
<1>12. Waiting'
  BY <1>5 DEF Waiting
<1>13. NothingSkipped'
  <2> SUFFICES ASSUME NEW d \in Conduits, Readable(d), NEW n \in 0..(fed[d] - 1)
               PROVE  n < nextEvent' \/ n \in buffer' \/ Underway(d, n)'
    BY <1>1 DEF NothingSkipped, Readable
  <2>1. CASE n < nextEvent
    BY <1>4, <1>5, <2>1
  <2>2. CASE n \in buffer
    BY <1>4, <2>2
  <2>3. CASE Underway(d, n) /\ d # c
    BY <1>6, <2>3 DEF Underway
  <2>4. CASE Underway(d, n) /\ d = c
    <3>1. PICK i \in 1..Len(down[c]) : down[c][i] = Event(n)
      BY <2>4 DEF Underway
    <3>2. CASE i = 1
      <4>1. n = e
        BY <1>2, <3>1, <3>2 DEF e, Event, Msg
      <4> QED  BY <1>4, <4>1
    <3>3. CASE i # 1
      <4>1. i \in 2..Len(down[c])
        BY <1>6, <3>3
      <4>2. i - 1 \in 1..Len(down'[c]) /\ down'[c][i - 1] = Event(n)
        BY <1>6, <3>1, <4>1
      <4> QED  BY <2>4, <4>2, Zenon DEF Underway, Event, Msg
    <3> QED  BY <3>2, <3>3
  <2> QED  BY <2>1, <2>2, <2>3, <2>4 DEF NothingSkipped
<1>14. ActiveWhenCaughtUp'
  <2>1. catchingUp \in Int
    BY <1>5 DEF Bounds
  <2>2. nextEvent > catchingUp \/ (nextEvent <= catchingUp /\ catchingUp < nextEvent')
            <=> nextEvent' > catchingUp
    BY <1>4, <1>5, <2>1
  <2>3. active <=> nextEvent > catchingUp
    BY <1>3, Zenon DEF ActiveWhenCaughtUp, Joined
  <2>4. active' <=> nextEvent' > catchingUp
    BY <1>4, <2>2, <2>3, Zenon
  <2> QED  BY <1>4, <1>5, <2>4, Zenon DEF ActiveWhenCaughtUp, Joined
<1> QED  BY <1>7, <1>8, <1>9, <1>10, <1>11, <1>12, <1>13, <1>14

LEMMA JoinedData ==
    ASSUME IInv, NEW c \in Conduits, JoinedSuccessfully(c)
    PROVE  Data'
<1> DEFINE k == Head(down[c]).no
<1> USE DEF IInv, Data
<1>1. /\ down[c] # <<>> /\ Head(down[c]).type = "JoinedSuccessfully" /\ Readable(c)
      /\ down' = [down EXCEPT ![c] = Tail(@)]
      /\ UNCHANGED <<tx, chan, sock, srvOpen, fed, srvLog, srvEnded, reconnects>>
  BY DEF JoinedSuccessfully, Receives, chanVars, uiVars
<1>2. Head(down[c]) = down[c][1] /\ k \in -1..(srvLog - 1) /\ ~Joined /\ c = 1
  BY <1>1, HeadIsFirst DEF Brought, Brings
<1>3. nextEvent' = 0 /\ buffer' = {} /\ catchingUp' = k /\ active' = (active \/ k = -1)
  BY <1>2 DEF JoinedSuccessfully, Control, Stays
<1>4. srvLog \in Nat /\ Joined' /\ active = FALSE
  BY <1>2, <1>3, ViewerBoundsAssumption DEF Joined, DataTypes, Waiting
<1>5. /\ down' \in [Conduits -> Seq(Downstream)]
      /\ \A d \in Conduits : d # c => down'[d] = down[d]
      /\ Len(down[c]) \in Nat \ {0} /\ Len(down'[c]) = Len(down[c]) - 1
      /\ \A i \in 1..Len(down'[c]) : i + 1 \in 1..Len(down[c]) /\ down'[c][i] = down[c][i + 1]
      /\ \A i \in 2..Len(down[c]) : i - 1 \in 1..Len(down'[c]) /\ down'[c][i - 1] = down[c][i]
  BY <1>1, Taken
<1>6. \A d \in Conduits : chan[d] = <<>>
  BY <1>1, <1>2, OnlyFirst DEF Waiting
<1> HIDE DEF k
<1>7. DataTypes'
  <2>1. active' \in BOOLEAN
    BY <1>3
  <2> QED  BY <1>1, <1>5, <2>1 DEF DataTypes
<1>8. Fresh'
  BY <1>1, <1>2, <1>5 DEF Fresh, Readable
<1>9. Asked'
  BY <1>1, <1>6 DEF Asked
<1>10. Brought'
  <2>1. ASSUME NEW d \in Conduits, NEW i \in 1..Len(down'[d])
        PROVE  /\ down'[d][i].type # "JoinedSuccessfully"
               /\ down'[d][i].type = "OrderedTerminalEvent" => down'[d][i].no \in 0..(srvLog - 1)
    <3>1. d = c
      <4> SUFFICES ASSUME d # c PROVE FALSE  OBVIOUS
      <4>1. down'[d] = <<>>
        BY <1>2, <1>5, OnlyFirst
      <4> QED  BY <4>1
    <3>2. i + 1 \in 1..Len(down[c]) /\ i + 1 # 1 /\ down'[d][i] = down[c][i + 1]
      BY <1>5, <3>1
    <3>3. Brings(c, i + 1, down[c][i + 1])
      BY <3>2 DEF Brought
    <3> QED  BY <3>2, <3>3 DEF Brings
  <2> QED  BY <1>1, <1>4, <2>1 DEF Brought, Brings
<1>11. Bounds'
  BY <1>1, <1>2, <1>3, <1>4 DEF Bounds
<1>12. Waiting'
  BY <1>4 DEF Waiting
<1>13. NothingSkipped'
  <2> SUFFICES ASSUME NEW d \in Conduits, Readable(d), NEW n \in 0..(fed[d] - 1)
               PROVE  Underway(d, n)'
    BY <1>1 DEF NothingSkipped, Readable
  <2>1. d = c
    BY <1>2, OnlyFirst
  <2>2. Underway(c, n)
    BY <1>2, <2>1 DEF NothingSkipped, Waiting, Joined
  <2>3. PICK i \in 1..Len(down[c]) : down[c][i] = Event(n)
    BY <2>2 DEF Underway
  <2>4. i # 1
    BY <1>1, <1>2, <2>3 DEF Event, Msg
  <2>5. i - 1 \in 1..Len(down'[c]) /\ down'[c][i - 1] = Event(n)
    BY <1>5, <2>3, <2>4
  <2> QED  BY <2>1, <2>5, Zenon DEF Underway, Event, Msg
<1>14. ActiveWhenCaughtUp'
  <2>1. k = -1 <=> 0 > k
    BY <1>2, <1>4
  <2>2. active' <=> 0 > k
    BY <1>3, <1>4, <2>1, Zenon
  <2> QED  BY <1>3, <1>4, <2>2, Zenon DEF ActiveWhenCaughtUp, Joined
<1> QED  BY <1>7, <1>8, <1>9, <1>10, <1>11, <1>12, <1>13, <1>14

(* The server puts m on the conduits of S. *)
LEMMA Grown ==
    ASSUME DataTypes, NEW S, NEW m \in Downstream,
           down' = [d \in Conduits |-> IF d \in S THEN Append(down[d], m) ELSE down[d]]
    PROVE  /\ down' \in [Conduits -> Seq(Downstream)]
           /\ \A d \in Conduits :
                /\ d \notin S => down'[d] = down[d]
                /\ \A i \in 1..Len(down[d]) : i \in 1..Len(down'[d]) /\ down'[d][i] = down[d][i]
                /\ \A i \in 1..Len(down'[d]) :
                     \/ i \in 1..Len(down[d])
                     \/ d \in S /\ i = Len(down[d]) + 1 /\ down'[d][i] = m
                /\ d \in S => Len(down[d]) + 1 \in 1..Len(down'[d]) /\ down'[d][Len(down[d]) + 1] = m
<1>1. \A d \in Conduits : down[d] \in Seq(Downstream)
  BY DEF DataTypes
<1>2. down' \in [Conduits -> Seq(Downstream)]
  BY <1>1
<1>3. ASSUME NEW d \in Conduits
      PROVE  /\ d \notin S => down'[d] = down[d]
             /\ \A i \in 1..Len(down[d]) : i \in 1..Len(down'[d]) /\ down'[d][i] = down[d][i]
             /\ \A i \in 1..Len(down'[d]) :
                  \/ i \in 1..Len(down[d])
                  \/ d \in S /\ i = Len(down[d]) + 1 /\ down'[d][i] = m
             /\ d \in S => Len(down[d]) + 1 \in 1..Len(down'[d]) /\ down'[d][Len(down[d]) + 1] = m
  <2>1. CASE d \notin S
    BY <2>1
  <2>2. CASE d \in S
    <3>1. down'[d] = Append(down[d], m)
      BY <2>2
    <3>2. Len(down'[d]) = Len(down[d]) + 1 /\ Len(down[d]) \in Nat
          /\ down'[d][Len(down[d]) + 1] = m
          /\ \A i \in 1..Len(down[d]) : down'[d][i] = down[d][i]
      BY <1>1, <3>1
    <3> QED  BY <2>2, <3>2
  <2> QED  BY <2>1, <2>2
<1> QED  BY <1>2, <1>3

(* The same for one conduit. *)
LEMMA GrownAt ==
    ASSUME DataTypes, NEW c \in Conduits, NEW m \in Downstream,
           down' = [d \in Conduits |-> IF d \in {c} THEN Append(down[d], m) ELSE down[d]]
    PROVE  /\ down' \in [Conduits -> Seq(Downstream)]
           /\ \A d \in Conduits :
                /\ d # c => down'[d] = down[d]
                /\ \A i \in 1..Len(down[d]) : i \in 1..Len(down'[d]) /\ down'[d][i] = down[d][i]
                /\ \A i \in 1..Len(down'[d]) : 
                     i \in 1..Len(down[d]) \/ (d = c /\ i = Len(down[d]) + 1 /\ down'[d][i] = m)
                /\ d = c => Len(down[d]) + 1 \in 1..Len(down'[d]) /\ down'[d][Len(down[d]) + 1] = m
<1> DEFINE S == {c}
<1>1. down' = [d \in Conduits |-> IF d \in S THEN Append(down[d], m) ELSE down[d]]
  OBVIOUS
<1>2. \A d : d \in S <=> d = c
  OBVIOUS
<1> HIDE DEF S
<1>3. /\ down' \in [Conduits -> Seq(Downstream)]
      /\ \A d \in Conduits :
           /\ d \notin S => down'[d] = down[d]
           /\ \A i \in 1..Len(down[d]) : i \in 1..Len(down'[d]) /\ down'[d][i] = down[d][i]
           /\ \A i \in 1..Len(down'[d]) :
                \/ i \in 1..Len(down[d])
                \/ d \in S /\ i = Len(down[d]) + 1 /\ down'[d][i] = m
           /\ d \in S => Len(down[d]) + 1 \in 1..Len(down'[d]) /\ down'[d][Len(down[d]) + 1] = m
  BY <1>1, Grown, Zenon
<1> QED  BY <1>2, <1>3

(* More is on its way than before, and nothing that would be a second      *)
(* answer. *)
MoreUnderway ==
    \A d \in Conduits : \A i \in 1..Len(down[d]) : i \in 1..Len(down'[d]) /\ down'[d][i] = down[d][i]

LEMMA MoreSkipsNothing ==
    ASSUME Data, MoreUnderway, UNCHANGED <<sock, loopVars>>,
           \A d \in Conduits : \A n \in 0..(fed'[d] - 1) :
               n \in 0..(fed[d] - 1) \/ n < nextEvent \/ Underway(d, n)'
    PROVE  NothingSkipped'
<1>1. \A d \in Conduits : \A n : Underway(d, n) => Underway(d, n)'
  BY DEF MoreUnderway, Underway
<1> QED  BY <1>1 DEF Data, NothingSkipped, Readable, loopVars

LEMMA SessionGrowsData == ASSUME Data, SessionGrows PROVE Data'
<1> USE DEF Data
<1>1. srvLog' = srvLog + 1 /\ srvLog' \in 0..MaxEvents /\ srvLog \in Nat
      /\ UNCHANGED <<chan, tx, sock, srvOpen, down, fed, srvEnded, nextEvent, buffer, catchingUp,
                     active, reconnects>>
  BY ViewerBoundsAssumption DEF SessionGrows, DataTypes, chanVars, loopVars, uiVars
<1>2. DataTypes'
  BY <1>1 DEF DataTypes
<1>3. Fresh' /\ Asked' /\ Waiting' /\ ActiveWhenCaughtUp'
  BY <1>1 DEF Fresh, Asked, AsksFor, Joined, Waiting, ActiveWhenCaughtUp
<1>4. Brought'
  BY <1>1 DEF Brought, Brings, Joined
<1>5. Bounds'
  BY <1>1 DEF Bounds
<1>6. NothingSkipped'
  BY <1>1 DEF NothingSkipped, Readable, Underway
<1> QED  BY <1>2, <1>3, <1>4, <1>5, <1>6

LEMMA ServerSendsData ==
    ASSUME Data, NEW c \in Conduits, ServerSends(c)
    PROVE  Data'
<1> USE DEF Data
<1>1. /\ srvOpen[c] /\ fed[c] >= 0 /\ fed[c] < srvLog
      /\ down' = [down EXCEPT ![c] = Append(@, Event(fed[c]))] /\ fed' = [fed EXCEPT ![c] = @ + 1]
      /\ UNCHANGED <<chan, tx, sock, srvOpen, srvLog, srvEnded, nextEvent, buffer, catchingUp,
                     active, reconnects>>
  BY DEF ServerSends, chanVars, loopVars, uiVars
<1>2. fed[c] \in 0..(srvLog - 1) /\ srvLog \in Nat /\ fed[c] + 1 \in 0..srvLog
  BY <1>1, ViewerBoundsAssumption DEF DataTypes
<1> DEFINE m == Event(fed[c])
<1>3. m \in Downstream /\ m.type = "OrderedTerminalEvent" /\ m.no = fed[c]
  BY <1>2, MessageTypes DEF Event, Msg
<1>4. down' = [d \in Conduits |-> IF d \in {c} THEN Append(down[d], m) ELSE down[d]]
  BY <1>1 DEF DataTypes
<1>5. fed' \in [Conduits -> Int] /\ fed'[c] = fed[c] + 1
      /\ \A d \in Conduits : d # c => fed'[d] = fed[d]
  BY <1>1 DEF DataTypes
<1> HIDE DEF m
<1>6. /\ down' \in [Conduits -> Seq(Downstream)]
      /\ \A d \in Conduits :
           /\ d # c => down'[d] = down[d]
           /\ \A i \in 1..Len(down[d]) : i \in 1..Len(down'[d]) /\ down'[d][i] = down[d][i]
           /\ \A i \in 1..Len(down'[d]) : i \in 1..Len(down[d]) \/ (d = c /\ down'[d][i] = m)
           /\ d = c => Len(down[d]) + 1 \in 1..Len(down'[d]) /\ down'[d][Len(down[d]) + 1] = m
  BY <1>3, <1>4, GrownAt DEF DataTypes
<1>7. DataTypes'
  BY <1>1, <1>5, <1>6 DEF DataTypes
<1>8. Fresh'
  <2>1. sock[c] # "none"
    BY <1>1 DEF Fresh
  <2> QED  BY <1>1, <1>5, <1>6, <2>1 DEF Fresh, Joined
<1>9. Asked' /\ ActiveWhenCaughtUp'
  BY <1>1 DEF Asked, AsksFor, Joined, ActiveWhenCaughtUp
<1>10. Brought'
  <2>1. ASSUME NEW d \in Conduits, NEW i \in 1..Len(down'[d])
        PROVE  Brings(d, i, down'[d][i])
    <3>1. CASE i \in 1..Len(down[d])
      BY <1>6, <3>1 DEF Brought
    <3>2. CASE i \notin 1..Len(down[d])
      BY <1>2, <1>3, <1>6, <3>2 DEF Brings
    <3> QED  BY <3>1, <3>2
  <2> QED  BY <1>1, <2>1 DEF Brought, Brings, Joined
<1>11. Bounds'
  BY <1>1, <1>2, <1>5 DEF Bounds
<1>12. Waiting'
  <2> SUFFICES ASSUME ~Joined PROVE Waiting'
    BY <1>1 DEF Waiting, Joined
  <2>1. c = 1
    BY <1>1, OnlyFirst
  <2>2. down[1] # <<>> /\ chan[1] = <<>> /\ down[1][1].type = "JoinedSuccessfully"
    BY <1>1, <2>1 DEF Waiting
  <2>3. 1 \in 1..Len(down[1])
    BY <2>2, ConduitFacts, HeadIsFirst
  <2>4. 1 \in 1..Len(down'[1]) /\ down'[1][1] = down[1][1]
    BY <1>6, <2>3, ConduitFacts
  <2>5. down'[1] # <<>>
    BY <2>4
  <2> QED  BY <1>1, <1>2, <1>5, <2>1, <2>2, <2>4, <2>5 DEF Waiting, Joined
<1>13. NothingSkipped'
  <2>1. ASSUME NEW d \in Conduits, NEW n \in 0..(fed'[d] - 1)
        PROVE  n \in 0..(fed[d] - 1) \/ Underway(d, n)'
    <3>1. CASE d # c
      BY <1>5, <3>1
    <3>2. CASE d = c /\ n # fed[c]
      BY <1>2, <1>5, <3>2
    <3>3. CASE d = c /\ n = fed[c]
      BY <1>6, <3>3, Zenon DEF Underway, m, Event, Msg
    <3> QED  BY <3>1, <3>2, <3>3
  <2>2. MoreUnderway
    BY <1>6 DEF MoreUnderway
  <2> QED  BY <1>1, <2>1, <2>2, MoreSkipsNothing DEF loopVars
<1> QED  BY <1>7, <1>8, <1>9, <1>10, <1>11, <1>12, <1>13

LEMMA ServerEndsData == ASSUME Data, ServerEnds PROVE Data'
<1> DEFINE m == Msg("SessionEnded", -1)
           S == {d \in Conduits : srvOpen[d] /\ fed[d] >= 0}
<1> USE DEF Data
<1>1. /\ down' = [d \in Conduits |-> IF srvOpen[d] /\ fed[d] >= 0 THEN Append(down[d], m) ELSE down[d]]
      /\ srvEnded' = TRUE
      /\ UNCHANGED <<chan, tx, sock, srvOpen, fed, srvLog, nextEvent, buffer, catchingUp,
                     active, reconnects>>
  BY DEF ServerEnds, chanVars, loopVars, uiVars
<1>2. m \in Downstream /\ m.type = "SessionEnded"
  <2>1. m \in Downstream
    BY DEF Msg, Downstream
  <2> QED  BY <2>1 DEF Msg
<1>3. down' = [d \in Conduits |-> IF d \in S THEN Append(down[d], m) ELSE down[d]]
  BY <1>1
<1>4. \A d \in S : srvOpen[d] /\ fed[d] >= 0
  OBVIOUS
<1> HIDE DEF m, S
<1>5. /\ down' \in [Conduits -> Seq(Downstream)]
      /\ \A d \in Conduits :
           /\ d \notin S => down'[d] = down[d]
           /\ \A i \in 1..Len(down[d]) : i \in 1..Len(down'[d]) /\ down'[d][i] = down[d][i]
           /\ \A i \in 1..Len(down'[d]) : i \in 1..Len(down[d]) \/ (d \in S /\ down'[d][i] = m)
  <2>1. DataTypes
    OBVIOUS
  <2> HIDE DEF Data
  <2>2. /\ down' \in [Conduits -> Seq(Downstream)]
        /\ \A d \in Conduits :
             /\ d \notin S => down'[d] = down[d]
             /\ \A i \in 1..Len(down[d]) : i \in 1..Len(down'[d]) /\ down'[d][i] = down[d][i]
             /\ \A i \in 1..Len(down'[d]) :
                  \/ i \in 1..Len(down[d])
                  \/ d \in S /\ i = Len(down[d]) + 1 /\ down'[d][i] = m
             /\ d \in S => Len(down[d]) + 1 \in 1..Len(down'[d]) /\ down'[d][Len(down[d]) + 1] = m
    BY <1>2, <1>3, <2>1, Grown, Zenon
  <2> QED  BY <2>2
<1>6. DataTypes'
  BY <1>1, <1>5 DEF DataTypes
<1>7. Fresh'
  BY <1>1, <1>4, <1>5 DEF Fresh, Joined
<1>8. Asked' /\ ActiveWhenCaughtUp' /\ Bounds'
  BY <1>1 DEF Asked, AsksFor, Joined, ActiveWhenCaughtUp, Bounds
<1>9. Brought'
  <2>1. ASSUME NEW d \in Conduits, NEW i \in 1..Len(down'[d])
        PROVE  Brings(d, i, down'[d][i])
    <3>1. CASE i \in 1..Len(down[d])
      BY <1>5, <3>1 DEF Brought
    <3>2. CASE i \notin 1..Len(down[d])
      BY <1>2, <1>5, <3>2 DEF Brings
    <3> QED  BY <3>1, <3>2
  <2> QED  BY <1>1, <2>1 DEF Brought, Brings, Joined
<1>10. Waiting'
  <2> SUFFICES ASSUME ~Joined PROVE Waiting'
    BY <1>1 DEF Waiting, Joined
  <2>1. CASE 1 \notin S
    BY <1>1, <1>5, <2>1, ConduitFacts DEF Waiting, Joined
  <2>2. CASE 1 \in S
    <3>1. srvOpen[1] /\ fed[1] >= 0
      BY <1>4, <2>2
    <3>2. down[1] # <<>> /\ chan[1] = <<>> /\ down[1][1].type = "JoinedSuccessfully"
      BY <3>1 DEF Waiting
    <3>3. 1 \in 1..Len(down[1])
      BY <3>2, ConduitFacts, HeadIsFirst
    <3>4. 1 \in 1..Len(down'[1]) /\ down'[1][1] = down[1][1]
      BY <1>5, <3>3, ConduitFacts
    <3>5. down'[1] # <<>>
      BY <3>4
    <3> QED  BY <1>1, <3>1, <3>2, <3>4, <3>5 DEF Waiting, Joined
  <2> QED  BY <2>1, <2>2
<1>11. NothingSkipped'
  <2>1. MoreUnderway
    BY <1>5 DEF MoreUnderway
  <2> QED  BY <1>1, <2>1, MoreSkipsNothing DEF loopVars
<1> QED  BY <1>6, <1>7, <1>8, <1>9, <1>10, <1>11

(* The send task takes the first message of a conduit. *)
LEMMA ChanTaken ==
    ASSUME DataTypes, NEW c \in Conduits, chan[c] # <<>>, chan' = [chan EXCEPT ![c] = Tail(@)]
    PROVE  /\ chan' \in [Conduits -> Seq(Upstream)]
           /\ \A d \in Conduits : chan[d] = <<>> => chan'[d] = <<>>
           /\ \A d \in Conduits : Len(chan[d]) = 1 => chan'[d] = <<>> \/ Len(chan'[d]) = 1
           /\ \A d \in Conduits : \A i \in 1..Len(chan'[d]) :
                 \E j \in 1..Len(chan[d]) : chan'[d][i] = chan[d][j]
           /\ Head(chan[c]) = chan[c][1] /\ 1 \in 1..Len(chan[c])
           /\ Len(chan[c]) = 1 => chan'[c] = <<>>
<1>1. chan \in [Conduits -> Seq(Upstream)] /\ chan[c] \in Seq(Upstream)
  BY DEF DataTypes
<1>2. /\ Tail(chan[c]) \in Seq(Upstream) /\ Len(chan[c]) \in Nat \ {0}
      /\ Len(Tail(chan[c])) = Len(chan[c]) - 1
      /\ \A i \in 1..(Len(chan[c]) - 1) : Tail(chan[c])[i] = chan[c][i + 1]
      /\ Head(chan[c]) = chan[c][1]
  BY <1>1
<1>3. chan' \in [Conduits -> Seq(Upstream)] /\ chan'[c] = Tail(chan[c])
      /\ \A d \in Conduits : d # c => chan'[d] = chan[d]
  BY <1>1, <1>2
<1>4. Len(chan[c]) = 1 => chan'[c] = <<>>
  <2> HAVE Len(chan[c]) = 1
  <2>1. Tail(chan[c]) \in Seq(Upstream) /\ Len(Tail(chan[c])) = 0
    BY <1>2
  <2>2. Tail(chan[c]) = <<>>
    BY <2>1, EmptySeq
  <2> QED  BY <1>3, <2>2
<1>5. ASSUME NEW d \in Conduits, NEW i \in 1..Len(chan'[d])
      PROVE  \E j \in 1..Len(chan[d]) : chan'[d][i] = chan[d][j]
  <2>1. CASE d # c
    BY <1>3, <2>1
  <2>2. CASE d = c
    <3>1. i + 1 \in 1..Len(chan[d]) /\ chan'[d][i] = chan[d][i + 1]
      BY <1>2, <1>3, <2>2
    <3> QED  BY <3>1
  <2> QED  BY <2>1, <2>2
<1> QED  BY <1>2, <1>3, <1>4, <1>5

(* The server takes a message that asks for nothing. *)
LEMMA DeliverPlain ==
    ASSUME Data, NEW c \in Conduits, Deliver(c), Head(chan[c]).type # "Initialize"
    PROVE  Data'
<1> USE DEF Data
<1>1. /\ chan[c] # <<>> /\ chan' = [chan EXCEPT ![c] = Tail(@)]
      /\ UNCHANGED <<tx, sock, srvOpen, down, fed, srvLog, srvEnded, nextEvent, buffer,
                     catchingUp, active, reconnects>>
  BY DEF Deliver, loopVars, uiVars
<1>2. /\ chan' \in [Conduits -> Seq(Upstream)]
      /\ \A d \in Conduits : chan[d] = <<>> => chan'[d] = <<>>
      /\ \A d \in Conduits : Len(chan[d]) = 1 => chan'[d] = <<>> \/ Len(chan'[d]) = 1
      /\ \A d \in Conduits : \A i \in 1..Len(chan'[d]) :
            \E j \in 1..Len(chan[d]) : chan'[d][i] = chan[d][j]
  BY <1>1, ChanTaken
<1>3. DataTypes'
  BY <1>1, <1>2 DEF DataTypes
<1>4. Fresh'
  BY <1>1, <1>2 DEF Fresh, Joined
<1>5. Asked'
  <2> SUFFICES ASSUME NEW d \in Conduits, NEW i \in 1..Len(chan'[d])
               PROVE  AsksFor(chan'[d][i])
    BY <1>1 DEF Asked, AsksFor, Joined
  <2>1. PICK j \in 1..Len(chan[d]) : chan'[d][i] = chan[d][j]
    BY <1>2
  <2> QED  BY <2>1 DEF Asked
<1>6. Brought' /\ Bounds' /\ ActiveWhenCaughtUp'
  BY <1>1 DEF Brought, Brings, Joined, Bounds, ActiveWhenCaughtUp
<1>7. Waiting'
  BY <1>1, <1>2, ConduitFacts DEF Waiting, Joined
<1>8. NothingSkipped'
  BY <1>1 DEF NothingSkipped, Readable, Underway
<1> QED  BY <1>3, <1>4, <1>5, <1>6, <1>7, <1>8

Sent(c, m) ==
    /\ down' \in [Conduits -> Seq(Downstream)]
    /\ \A d \in Conduits :
         /\ d # c => down'[d] = down[d]
         /\ \A i \in 1..Len(down[d]) : i \in 1..Len(down'[d]) /\ down'[d][i] = down[d][i]
         /\ \A i \in 1..Len(down'[d]) :
              i \in 1..Len(down[d]) \/ (d = c /\ i = Len(down[d]) + 1 /\ down'[d][i] = m)
         /\ d = c => Len(down[d]) + 1 \in 1..Len(down'[d]) /\ down'[d][Len(down[d]) + 1] = m

LEMMA SentFacts ==
    ASSUME DataTypes, NEW c \in Conduits, NEW m \in Downstream,
           down' = [down EXCEPT ![c] = Append(@, m)]
    PROVE  Sent(c, m)
<1>1. down' = [d \in Conduits |-> IF d \in {c} THEN Append(down[d], m) ELSE down[d]]
  BY DEF DataTypes
<1> QED  BY <1>1, GrownAt DEF Sent

(* The server answers on conduit c, and may leave the others.              *)
LEMMA Answered ==
    ASSUME Data, NEW c \in Conduits, Readable(c), sock[c] # "none", chan[c] # <<>>,
           chan' = [chan EXCEPT ![c] = Tail(@)],
           NEW m \in Downstream, Sent(c, m),
           Brings(c, Len(down[c]) + 1, m),
           fed' \in [Conduits -> Int], fed'[c] \in -2..srvLog, fed'[c] # -1,
           \A d \in Conduits : d # c => fed'[d] = fed[d] \/ (fed[d] >= 0 /\ fed'[d] = -2),
           \A n \in 0..(fed'[c] - 1) : n < nextEvent,
           ~Joined => \/ m.type = "JoinedSuccessfully" /\ fed'[c] = 0
                      \/ m.type = "FailedToJoin" /\ fed'[c] = -2,
           UNCHANGED <<tx, sock, srvOpen, srvLog, srvEnded, nextEvent, buffer, catchingUp,
                       active, reconnects>>
    PROVE  Data'
<1> USE DEF Data
<1>1. /\ chan' \in [Conduits -> Seq(Upstream)]
      /\ \A d \in Conduits : chan[d] = <<>> => chan'[d] = <<>>
      /\ \A d \in Conduits : \A i \in 1..Len(chan'[d]) :
            \E j \in 1..Len(chan[d]) : chan'[d][i] = chan[d][j]
      /\ Len(chan[c]) = 1 => chan'[c] = <<>>
  BY ChanTaken
<1>3. /\ down' \in [Conduits -> Seq(Downstream)]
      /\ \A d \in Conduits :
           /\ d # c => down'[d] = down[d]
           /\ \A i \in 1..Len(down[d]) : i \in 1..Len(down'[d]) /\ down'[d][i] = down[d][i]
           /\ \A i \in 1..Len(down'[d]) :
                i \in 1..Len(down[d]) \/ (d = c /\ i = Len(down[d]) + 1 /\ down'[d][i] = m)
           /\ d = c => Len(down[d]) + 1 \in 1..Len(down'[d]) /\ down'[d][Len(down[d]) + 1] = m
  BY Zenon DEF Sent
<1>4. DataTypes'
  <2>1. active' \in BOOLEAN /\ srvEnded' \in BOOLEAN
    BY DEF DataTypes
  <2>2. srvLog' \in 0..MaxEvents /\ reconnects' \in 0..MaxReconnects /\ tx' \in 1..(1 + reconnects')
    BY DEF DataTypes
  <2>3. /\ sock' \in [Conduits -> {"none", "open", "closing", "ended"}]
        /\ srvOpen' \in [Conduits -> BOOLEAN]
    BY DEF DataTypes
  <2>4. fed' \in [Conduits -> Int]
    OBVIOUS
  <2> QED  BY <1>1, <1>3, <2>1, <2>2, <2>3, <2>4, Zenon DEF DataTypes
<1>5. Fresh'
  <2>1. ASSUME NEW d \in Conduits, sock[d] = "none"
        PROVE  chan'[d] = <<>> /\ down'[d] = <<>> /\ fed'[d] = -1 /\ srvOpen[d] = FALSE
    <3>1. chan[d] = <<>> /\ down[d] = <<>> /\ fed[d] = -1 /\ srvOpen[d] = FALSE
      BY <2>1 DEF Fresh
    <3>2. d # c
      BY <2>1
    <3>3. fed'[d] = -1
      BY <3>1, <3>2
    <3> QED  BY <1>1, <1>3, <3>1, <3>2, <3>3
  <2>2. /\ \A d \in Conduits \ {1} : sock[d] = "none" <=> d > 1 + reconnects
        /\ sock[1] = "none" => ~Joined
    BY DEF Fresh
  <2> QED  BY <2>1, <2>2 DEF Fresh, Joined
<1>6. Asked'
  <2> SUFFICES ASSUME NEW d \in Conduits, NEW i \in 1..Len(chan'[d])
               PROVE  AsksFor(chan'[d][i])
    BY DEF Asked, AsksFor, Joined
  <2>1. PICK j \in 1..Len(chan[d]) : chan'[d][i] = chan[d][j]
    BY <1>1
  <2> QED  BY <2>1 DEF Asked
<1>7. Brought'
  <2>1. ASSUME NEW d \in Conduits, NEW i \in 1..Len(down'[d])
        PROVE  Brings(d, i, down'[d][i])
    <3>1. CASE i \in 1..Len(down[d])
      BY <1>3, <3>1 DEF Brought
    <3>2. CASE i \notin 1..Len(down[d])
      BY <1>3, <3>2
    <3> QED  BY <3>1, <3>2
  <2> QED  BY <2>1 DEF Brought, Brings, Joined
<1>8. Bounds'
  <2>1. \A d \in Conduits : fed'[d] \in -2..srvLog
    <3>1. \A d \in Conduits : fed[d] \in -2..srvLog /\ srvLog \in Nat
      BY ViewerBoundsAssumption DEF Bounds, DataTypes
    <3> SUFFICES ASSUME NEW d \in Conduits PROVE fed'[d] \in -2..srvLog  OBVIOUS
    <3>2. CASE d = c
      BY <3>2
    <3>3. CASE d # c /\ fed'[d] = fed[d]
      BY <3>1, <3>3
    <3>4. CASE fed'[d] = -2
      BY <3>1, <3>4
    <3> QED  BY <3>2, <3>3, <3>4
  <2> QED  BY <2>1 DEF Bounds
<1>9. ActiveWhenCaughtUp'
  BY DEF ActiveWhenCaughtUp
<1>10. Waiting'
  <2> SUFFICES ASSUME ~Joined PROVE Waiting'
    BY DEF Waiting, Joined
  <2>1. c = 1
    BY OnlyFirst
  <2>2. down[1] = <<>> /\ fed[1] = -1 /\ chan'[1] = <<>>
    BY <1>1, <2>1 DEF Waiting
  <2>3. Len(down[1]) = 0
    BY <2>2
  <2>4. 1 \in 1..Len(down'[1]) /\ down'[1][1] = m
    BY <1>3, <2>1, <2>3
  <2>5. \A i \in 1..Len(down'[1]) : i = 1
    BY <1>3, <2>1, <2>3
  <2>6. down'[1] # <<>>
    BY <2>4
  <2>7. fed'[1] = -2 => \A i \in 1..Len(down'[1]) : down'[1][i].type = "FailedToJoin" /\ i = 1
    BY <2>1, <2>4, <2>5
  <2>8. fed'[1] >= 0 => down'[1][1].type = "JoinedSuccessfully"
    BY <2>1, <2>4
  <2> QED  BY <2>1, <2>2, <2>6, <2>7, <2>8 DEF Waiting, Joined
<1>11. NothingSkipped'
  <2>1. MoreUnderway
    BY <1>3 DEF MoreUnderway
  <2>2. \A d \in Conduits : \A n \in 0..(fed'[d] - 1) : n \in 0..(fed[d] - 1) \/ n < nextEvent
    <3> SUFFICES ASSUME NEW d \in Conduits, NEW n \in 0..(fed'[d] - 1), ~(n < nextEvent)
                 PROVE  n \in 0..(fed[d] - 1)
      OBVIOUS
    <3>1. d # c
      OBVIOUS
    <3>2. fed'[d] # -2
      <4> SUFFICES ASSUME fed'[d] = -2 PROVE FALSE  OBVIOUS
      <4> QED  OBVIOUS
    <3>3. fed'[d] = fed[d]
      BY <3>1, <3>2
    <3> QED  BY <3>3
  <2> QED  BY <2>1, <2>2, MoreSkipsNothing DEF loopVars
<1> QED  BY <1>4, <1>5, <1>6, <1>7, <1>8, <1>9, <1>10, <1>11

LEMMA DeliverData ==
    ASSUME Data, NEW c \in Conduits, Deliver(c)
    PROVE  Data'
<1> DEFINE ask == Head(chan[c])
           joined == Msg("JoinedSuccessfully", srvLog - 1)
           rejoined == Msg("RejoinedSuccessfully", -1)
           failed == Msg("FailedToJoin", -1)
           reply == IF ask.known THEN rejoined ELSE joined
<1> USE DEF Data
<1>1. /\ sock[c] = "open" /\ chan[c] # <<>> /\ chan' = [chan EXCEPT ![c] = Tail(@)]
      /\ UNCHANGED <<tx, sock, srvOpen, srvLog, srvEnded, nextEvent, buffer, catchingUp,
                     active, reconnects>>
  BY DEF Deliver, loopVars, uiVars
<1>2. Readable(c) /\ sock[c] # "none"
  BY <1>1 DEF Readable
<1>3. CASE ask.type # "Initialize"
  BY <1>3, DeliverPlain
<1>4. CASE ask.type = "Initialize"
  <2>1. ask = chan[c][1] /\ 1 \in 1..Len(chan[c])
    BY <1>1, ChanTaken
  <2>2. IF ask.known THEN Joined /\ ask.last \in -1..(nextEvent - 1) ELSE ~Joined /\ ask.last = -1
    BY <1>4, <2>1 DEF Asked, AsksFor
  <2>3. srvLog \in Nat /\ nextEvent \in -1..srvLog /\ fed \in [Conduits -> Int]
    BY ViewerBoundsAssumption DEF DataTypes, Bounds
  <2>4. ask.last + 1 \in 0..srvLog /\ \A n \in 0..ask.last : n < nextEvent
    BY <2>2, <2>3 DEF Joined
  <2>5. ServerJoins(c, ask)
    BY <1>4 DEF Deliver
  <2> HIDE DEF ask
  <2>6. CASE /\ down' = [down EXCEPT ![c] = Append(@, failed)]
             /\ fed' = [fed EXCEPT ![c] = -2]
    <3>1. failed \in Downstream /\ failed.type = "FailedToJoin"
      BY DEF Msg, Downstream
    <3>2. fed' \in [Conduits -> Int] /\ fed'[c] = -2 /\ \A d \in Conduits : d # c => fed'[d] = fed[d]
      BY <2>3, <2>6
    <3> HIDE DEF failed
    <3>3. Brings(c, Len(down[c]) + 1, failed)
      BY <3>1 DEF Brings
    <3>4. fed'[c] \in -2..srvLog /\ fed'[c] # -1 /\ \A n \in 0..(fed'[c] - 1) : n < nextEvent
      BY <2>3, <3>2
    <3>5. down' = [down EXCEPT ![c] = Append(@, failed)]
      BY <2>6
    <3>6. Sent(c, failed)
      BY <3>1, <3>5, SentFacts
    <3> HIDE DEF Data
    <3> QED  BY <1>1, <1>2, <3>1, <3>2, <3>3, <3>4, <3>6, Answered
  <2>7. CASE /\ down' = [down EXCEPT ![c] = Append(@, reply)]
             /\ fed' \in {[fed EXCEPT ![c] = ask.last + 1],
                          [d \in Conduits |-> IF d = c THEN ask.last + 1
                                              ELSE IF fed[d] >= 0 THEN -2 ELSE fed[d]]}
    <3>1. /\ fed' \in [Conduits -> Int] /\ fed'[c] = ask.last + 1
          /\ \A d \in Conduits : d # c => fed'[d] = fed[d] \/ (fed[d] >= 0 /\ fed'[d] = -2)
      <4>1. CASE fed' = [fed EXCEPT ![c] = ask.last + 1]
        BY <2>3, <2>4, <4>1
      <4>2. CASE fed' = [d \in Conduits |-> IF d = c THEN ask.last + 1
                                            ELSE IF fed[d] >= 0 THEN -2 ELSE fed[d]]
        BY <2>3, <2>4, <4>2
      <4> QED  BY <2>7, <4>1, <4>2
    <3>2. CASE ask.known
      <4>1. reply = rejoined /\ Joined
        BY <2>2, <3>2
      <4>2. rejoined \in Downstream /\ rejoined.type = "RejoinedSuccessfully"
        BY DEF Msg, Downstream
      <4> HIDE DEF rejoined, reply
      <4>3. Brings(c, Len(down[c]) + 1, rejoined)
        BY <4>1, <4>2 DEF Brings
      <4>4. Sent(c, rejoined)
        <5>1. down' = [down EXCEPT ![c] = Append(@, rejoined)]
          BY <2>7, <4>1
        <5> QED  BY <4>2, <5>1, SentFacts
      <4>5. fed'[c] \in -2..srvLog /\ fed'[c] # -1 /\ \A n \in 0..(fed'[c] - 1) : n < nextEvent
        BY <2>2, <2>3, <2>4, <3>1, <3>2
      <4> HIDE DEF Data
      <4> QED  BY <1>1, <1>2, <3>1, <4>1, <4>2, <4>3, <4>4, <4>5, Answered
    <3>3. CASE ~ask.known
      <4>1. reply = joined /\ ~Joined /\ ask.last = -1
        BY <2>2, <3>3
      <4>2. joined.type = "JoinedSuccessfully" /\ joined.no = srvLog - 1
        BY DEF Msg
      <4>3. joined \in Downstream
        BY <2>3 DEF Msg, Downstream
      <4> HIDE DEF joined, reply
      <4>4. c = 1 /\ Len(down[c]) = 0
        <5>1. c = 1
          BY <1>1, <1>2, <4>1, OnlyFirst
        <5>2. down[c] = <<>>
          BY <1>1, <4>1, <5>1 DEF Waiting
        <5> QED  BY <5>1, <5>2
      <4>5. Brings(c, Len(down[c]) + 1, joined)
        BY <2>3, <4>1, <4>2, <4>4 DEF Brings
      <4>6. Sent(c, joined)
        <5>1. down' = [down EXCEPT ![c] = Append(@, joined)]
          BY <2>7, <4>1
        <5> QED  BY <4>3, <5>1, SentFacts
      <4>7. fed'[c] = 0 /\ fed'[c] \in -2..srvLog /\ fed'[c] # -1
            /\ \A n \in 0..(fed'[c] - 1) : n < nextEvent
        BY <2>3, <3>1, <4>1
      <4> HIDE DEF Data
      <4> QED  BY <1>1, <1>2, <3>1, <4>2, <4>3, <4>5, <4>6, <4>7, Answered
    <3> QED  BY <3>2, <3>3
  <2> QED  BY <2>5, <2>6, <2>7 DEF ServerJoins
<1> QED  BY <1>3, <1>4

-----------------------------------------------------------------------------
(* IInv is inductive: one step per action.                                 *)

LEMMA StepKeeps == IInv /\ [Next]_vars => IInv'
<1> SUFFICES ASSUME IInv, [Next]_vars PROVE IInv'
  OBVIOUS
<1>0. Data
  BY DEF IInv
<1>1. ASSUME NEW f \in running, NEW ok \in BOOLEAN, Resolve(f, ok)
      PROVE  IInv'
  <2>1. UNCHANGED dataVars
    BY <1>1 DEF Resolve, dataVars, chanVars, uiVars
  <2> QED  BY <1>0, <1>1, <2>1, ResolveControl, DataQuiet DEF IInv
<1>2. CASE ConnectSucceeded
  BY <1>2, ConnectSucceededControl, ConnectSucceededData DEF IInv
<1>3. ASSUME NEW r \in 0..MaxRetries, RetrySucceeded(r)
      PROVE  IInv'
  BY <1>3, RetrySucceededControl, RetrySucceededData DEF IInv
<1>4. ASSUME NEW r \in 0..MaxRetries, RetryFailed(r) \/ BackoffElapsed(r)
      PROVE  IInv'
  <2>1. UNCHANGED dataVars
    BY <1>4 DEF RetryFailed, BackoffElapsed, dataVars, chanVars, uiVars
  <2> QED  BY <1>0, <1>4, <2>1, RetryControl, DataQuiet DEF IInv
<1>5. CASE ConnectFailed \/ RetriesExhausted \/ Leave \/ IdleTimerElapses
  <2>1. UNCHANGED dataVars
    BY <1>5 DEF ConnectFailed, RetriesExhausted, Leave, IdleTimerElapses, dataVars, chanVars, uiVars
  <2> QED  BY <1>0, <1>5, <2>1, EndingControl, DataQuiet DEF IInv
<1>6. CASE ReauthenticateViewer \/ HeartbeatIdle
  <2>1. UNCHANGED dataVars
    BY <1>6 DEF ReauthenticateViewer, HeartbeatIdle, dataVars, chanVars, uiVars
  <2> QED  BY <1>0, <1>6, <2>1, ReconnectingControl, DataQuiet DEF IInv
<1>7. CASE Reauthenticated
  BY <1>7, ReconnectingControl, ReauthenticatedData DEF IInv
<1>8. ASSUME NEW c \in Conduits, StreamEnds(c)
      PROVE  IInv'
  BY <1>8, StreamEndsControl, StreamEndsData DEF IInv
<1>9. ASSUME NEW c \in Conduits, JoinedSuccessfully(c)
      PROVE  IInv'
  BY <1>9, JoinedControl, JoinedData DEF IInv
<1>10. ASSUME NEW c \in Conduits, RejoinedSuccessfully(c)
       PROVE  IInv'
  BY <1>10, RejoinedControl, NoticeData DEF IInv
<1>11. ASSUME NEW c \in Conduits, OrderedTerminalEvent(c)
       PROVE  IInv'
  BY <1>11, EventControl, EventData DEF IInv
<1>12. ASSUME NEW c \in Conduits, SessionEnded(c) \/ FailedToJoin(c)
       PROVE  IInv'
  BY <1>12, EndingControl, NoticeData DEF IInv
<1>13. CASE SessionGrows
  BY <1>0, <1>13, ServerControl, SessionGrowsData DEF IInv
<1>14. CASE ServerEnds
  BY <1>0, <1>14, ServerControl, ServerEndsData DEF IInv
<1>15. ASSUME NEW c \in Conduits, ServerSends(c)
       PROVE  IInv'
  BY <1>0, <1>15, ServerControl, ServerSendsData DEF IInv
<1>16. ASSUME NEW c \in Conduits, Deliver(c)
       PROVE  IInv'
  BY <1>0, <1>16, ServerControl, DeliverData DEF IInv
<1>17. ASSUME NEW c \in Conduits, SendTaskEnds(c) \/ ServerCloses(c)
       PROVE  IInv'
  BY <1>0, <1>17, ServerControl, ClosingData DEF IInv
<1>18. CASE UNCHANGED vars
  <2>1. UNCHANGED dataVars /\ UNCHANGED <<taskVars, stageVars, open, sock, loopVars, idleVars, uiVars>>
    BY <1>18 DEF vars, dataVars, chanVars, uiVars
  <2>2. ControlTypes'
    BY <2>1 DEF IInv, Control, ControlTypes, stageVars, idleVars, uiVars
  <2>3. Control'
    BY <2>1, <2>2, EndControl DEF IInv, Joined, loopVars, taskVars, stageVars
  <2> QED  BY <1>0, <2>1, <2>3, DataQuiet DEF IInv
<1> QED  BY <1>1, <1>2, <1>3, <1>4, <1>5, <1>6, <1>7, <1>8, <1>9, <1>10, <1>11, <1>12, <1>13,
            <1>14, <1>15, <1>16, <1>17, <1>18 DEF Next, Callback, Receive, Server

(* The inductive invariant: what is pending, what the sockets bring and    *)
(* what the event loop holds agree in every reachable state.               *)
THEOREM ViewerInvariant == Spec => []IInv
BY InitHolds, StepKeeps, PTL DEF Spec

(* Every variable of the viewer stays in its range: the event numbers stay *)
(* within the session, whatever the sockets bring.                         *)
THEOREM ViewerTypeCorrect == Spec => []TypeOK
<1>1. IInv => TypeOK
  <2> SUFFICES ASSUME IInv PROVE TypeOK  OBVIOUS
  <2> USE DEF IInv, Control, Data
  <2>1. srvLog \in 0..MaxEvents /\ srvLog \in Nat /\ MaxEvents \in Nat
    BY ViewerBoundsAssumption DEF DataTypes
  <2>2. fed \in [Conduits -> -2..MaxEvents]
    BY <2>1 DEF DataTypes, Bounds
  <2>3. nextEvent \in -1..MaxEvents /\ catchingUp \in -1..(MaxEvents - 1)
    BY <2>1 DEF Bounds
  <2>4. buffer \subseteq 0..(MaxEvents - 1)
    BY <2>1 DEF Bounds
  <2>5. tx \in Conduits /\ reconnects \in 0..MaxReconnects
    BY ViewerBoundsAssumption DEF DataTypes, Conduits
  <2>6. stage \in Stages /\ id \in BOOLEAN /\ open \in [Conduits -> BOOLEAN]
        /\ idleArmed \in BOOLEAN /\ idleElapsed \in BOOLEAN /\ notices \subseteq Notices
    BY DEF ControlTypes
  <2>7. running \subseteq Futures /\ resolved \subseteq [future : Futures, ok : BOOLEAN]
    BY DEF Tasks
  <2>8. /\ chan \in [Conduits -> Seq(Upstream)] /\ down \in [Conduits -> Seq(Downstream)]
        /\ sock \in [Conduits -> {"none", "open", "closing", "ended"}]
        /\ srvOpen \in [Conduits -> BOOLEAN] /\ srvEnded \in BOOLEAN /\ active \in BOOLEAN
    BY DEF DataTypes
  <2> HIDE DEF IInv, Control, Data
  <2> QED  BY <2>1, <2>2, <2>3, <2>4, <2>5, <2>6, <2>7, <2>8, Zenon DEF TypeOK
<1> QED  BY <1>1, ViewerInvariant, PTL

(* No event is skipped: what the server sent on a socket that is still     *)
(* read and that is not applied is buffered or on its way, wherever a      *)
(* rejoin told the server to resume (next_event_no - 1 in the Initialize). *)
THEOREM NoEventIsSkipped == Spec => []NoEventSkipped
<1>1. IInv => NoEventSkipped
  <2> SUFFICES ASSUME IInv, NEW c \in Conduits, Readable(c), nextEvent # -1,
                      NEW n \in nextEvent..(fed[c] - 1)
               PROVE  n \in buffer \/ \E i \in DOMAIN down[c] : down[c][i] = Event(n)
    BY DEF NoEventSkipped
  <2>1. nextEvent \in Int /\ fed[c] \in Int /\ nextEvent >= -1
    BY ViewerBoundsAssumption DEF IInv, Data, DataTypes, Bounds
  <2>2. n \in 0..(fed[c] - 1) /\ ~(n < nextEvent)
    BY <2>1
  <2>3. n \in buffer \/ Underway(c, n)
    BY <2>2 DEF IInv, Data, NothingSkipped
  <2>4. DOMAIN down[c] = 1..Len(down[c])
    BY DEF IInv, Data, DataTypes
  <2> QED  BY <2>3, <2>4 DEF Underway
<1> QED  BY <1>1, ViewerInvariant, PTL

(* The viewer is an active one exactly from the event on that it was to    *)
(* catch up to when it joined (catching_up_to_event_no).                   *)
THEOREM ActiveOnceCaughtUp == Spec => []ActiveWhenCaughtUp
<1>1. IInv => ActiveWhenCaughtUp
  BY DEF IInv, Data
<1> QED  BY <1>1, ViewerInvariant, PTL

-----------------------------------------------------------------------------
(* What the viewer applies implements SessionLog.                          *)

(* A step changes the session, or what is applied of it, or neither. *)
LogStep ==
    \/ UNCHANGED <<srvLog, nextEvent>>
    \/ srvLog' = srvLog + 1 /\ UNCHANGED nextEvent
    \/ UNCHANGED srvLog /\ nextEvent = -1 /\ nextEvent' = 0
    \/ UNCHANGED srvLog /\ nextEvent # -1 /\ nextEvent' \in nextEvent..srvLog

LEMMA LogSteps == IInv /\ [Next]_vars => LogStep
<1> SUFFICES ASSUME IInv, [Next]_vars PROVE LogStep
  OBVIOUS
<1>0. Data
  BY DEF IInv
<1> USE DEF loopVars, srvVars
<1>1. ASSUME NEW f \in running, NEW ok \in BOOLEAN, Resolve(f, ok)
      PROVE  UNCHANGED <<srvLog, nextEvent>>
  BY <1>1 DEF Resolve
<1>2. CASE \/ ConnectSucceeded \/ ConnectFailed \/ RetriesExhausted \/ Leave \/ IdleTimerElapses
           \/ ReauthenticateViewer \/ HeartbeatIdle \/ Reauthenticated
  BY <1>2 DEF ConnectSucceeded, ConnectFailed, RetriesExhausted, Leave, IdleTimerElapses,
              ReauthenticateViewer, HeartbeatIdle, Reauthenticated, LogStep
<1>3. ASSUME NEW r \in 0..MaxRetries, RetrySucceeded(r) \/ RetryFailed(r) \/ BackoffElapsed(r)
      PROVE  UNCHANGED <<srvLog, nextEvent>>
  BY <1>3 DEF RetrySucceeded, RetryFailed, BackoffElapsed
<1>4. ASSUME NEW c \in Conduits,
             \/ StreamEnds(c) \/ RejoinedSuccessfully(c) \/ SessionEnded(c) \/ FailedToJoin(c)
             \/ Deliver(c) \/ SendTaskEnds(c) \/ ServerSends(c) \/ ServerCloses(c)
      PROVE  UNCHANGED <<srvLog, nextEvent>>
  BY <1>4, Zenon DEF StreamEnds, RejoinedSuccessfully, SessionEnded, FailedToJoin, Deliver,
                     SendTaskEnds, ServerSends, ServerCloses
<1>5. CASE SessionGrows \/ ServerEnds
  BY <1>5 DEF SessionGrows, ServerEnds, LogStep
<1>6. ASSUME NEW c \in Conduits, JoinedSuccessfully(c)
      PROVE  LogStep
  <2>1. nextEvent = -1 /\ stage # "JoinedSuccessfully"
    <3>1. down[c] # <<>> /\ Head(down[c]).type = "JoinedSuccessfully"
      BY <1>6 DEF JoinedSuccessfully, Receives
    <3>2. ~Joined
      BY <3>1, HeadIsFirst DEF IInv, Data, Brought, Brings
    <3> QED  BY <3>2 DEF IInv, Control, Stays, Joined
  <2> QED  BY <1>6, <2>1 DEF JoinedSuccessfully, LogStep
<1>7. ASSUME NEW c \in Conduits, OrderedTerminalEvent(c)
      PROVE  LogStep
  <2>1. UNCHANGED srvLog
    BY <1>7 DEF OrderedTerminalEvent
  <2>2. CASE nextEvent = -1
    BY <1>7, <2>1, <2>2 DEF OrderedTerminalEvent, LogStep
  <2>3. CASE nextEvent # -1
    <3>1. Head(down[c]).no \in 0..(srvLog - 1)
      BY <1>0, <1>7, EventNumber DEF OrderedTerminalEvent
    <3>2. ProcessOrderedTerminalEvent(Head(down[c]).no)
      BY <1>7, <2>3 DEF OrderedTerminalEvent
    <3>3. nextEvent' \in nextEvent..srvLog
      BY <1>0, <2>3, <3>1, <3>2, ProcessedFacts DEF Joined
    <3> QED  BY <2>1, <2>3, <3>3 DEF LogStep
  <2> QED  BY <2>2, <2>3
<1>8. CASE UNCHANGED vars
  BY <1>8 DEF vars, LogStep
<1> QED  BY <1>1, <1>2, <1>3, <1>4, <1>5, <1>6, <1>7, <1>8
         DEF Next, Callback, Receive, Server, LogStep

(* The events of a session of n. *)
Numbers(n) == [i \in 1..n |-> i]

LEMMA NumbersFacts ==
    ASSUME NEW n \in Nat
    PROVE  Len(Numbers(n)) = n /\ \A i \in 1..n : Numbers(n)[i] = i
<1>1. Numbers(n) \in Seq(Nat) /\ DOMAIN Numbers(n) = 1..n
  BY DEF Numbers
<1> QED  BY <1>1 DEF Numbers

LEMMA ProducedFacts ==
    ASSUME IInv, IInv'
    PROVE  /\ Len([i \in 1..srvLog |-> i]) = srvLog
           /\ Len([i \in 1..srvLog' |-> i]) = srvLog'
           /\ \A k \in 1..srvLog : [i \in 1..srvLog |-> i][k] = k
           /\ \A k \in 1..srvLog' : [i \in 1..srvLog' |-> i][k] = k
<1>1. srvLog \in Nat /\ srvLog' \in Nat
  BY ViewerBoundsAssumption DEF IInv, Data, DataTypes
<1> QED  BY <1>1, NumbersFacts DEF Numbers

LEMMA InitialSegment ==
    ASSUME NEW m \in Nat, NEW n \in Nat, m < n
    PROVE  0..(m - 1) \subseteq 0..(n - 1)
OBVIOUS

LEMMA LogStepRefines ==
    ASSUME IInv, IInv', LogStep
    PROVE  [Log!Next]_<<[i \in 1..srvLog |-> i], Applied>>
<1>1. srvLog \in Nat /\ nextEvent \in -1..srvLog
  BY ViewerBoundsAssumption DEF IInv, Data, DataTypes, Bounds
<1>2. CASE UNCHANGED <<srvLog, nextEvent>>
  BY <1>2 DEF Applied
<1>3. CASE srvLog' = srvLog + 1 /\ UNCHANGED nextEvent
  <2>1. UNCHANGED Applied
    BY <1>3 DEF Applied
  <2>2. Len([i \in 1..srvLog' |-> i]) > Len([i \in 1..srvLog |-> i])
    BY <1>1, <1>3, ProducedFacts
  <2>3. \A k \in 1..Len([i \in 1..srvLog |-> i]) :
            [i \in 1..srvLog' |-> i][k] = [i \in 1..srvLog |-> i][k]
    BY <1>1, <1>3, ProducedFacts
  <2>4. Log!Produce
    BY <2>1, <2>2, <2>3 DEF Log!Produce
  <2> QED  BY <2>4 DEF Log!Next
<1>4. CASE UNCHANGED srvLog /\ nextEvent = -1 /\ nextEvent' = 0
  <2>1. Applied = {} /\ Applied' = {}
    BY <1>4 DEF Applied
  <2> QED  BY <1>4, <2>1
<1>5. CASE UNCHANGED srvLog /\ nextEvent # -1 /\ nextEvent' \in nextEvent..srvLog
  <2>1. CASE nextEvent' = nextEvent
    BY <1>5, <2>1 DEF Applied
  <2>2. CASE nextEvent' # nextEvent
    <3>1. nextEvent' \in 1..srvLog /\ nextEvent \in Nat /\ nextEvent' \in Nat /\ nextEvent < nextEvent'
      BY <1>1, <1>5, <2>2
    <3>2. Applied = 0..(nextEvent - 1) /\ Applied' = 0..(nextEvent' - 1)
      BY <1>5, <3>1 DEF Applied
    <3>3. Applied \subseteq Applied'
      BY <3>1, <3>2, InitialSegment
    <3>4. nextEvent' \in 1..Len([i \in 1..srvLog |-> i])
      BY <3>1, ProducedFacts
    <3>5. Log!Deliver
      BY <1>5, <3>2, <3>3, <3>4 DEF Log!Deliver
    <3> QED  BY <3>5 DEF Log!Next
  <2> QED  BY <2>1, <2>2
<1> QED  BY <1>2, <1>3, <1>4, <1>5 DEF LogStep

(* The viewer implements SessionLog: what it applies is at all times the   *)
(* beginning of the session, each event once and in order, whichever       *)
(* socket brought it and however often the connection is replaced.         *)
THEOREM ViewerImplementsSessionLog == Spec => RefinesSessionLog
<1>1. Init => Log!Init
  <2> SUFFICES ASSUME Init PROVE Log!Init  OBVIOUS
  <2>1. Applied = {} /\ srvLog = 0
    BY DEF Init, Applied
  <2>2. [i \in 1..srvLog |-> i] = <<>>
    BY <2>1
  <2> QED  BY <2>1, <2>2 DEF Log!Init
<1>2. IInv /\ IInv' /\ [Next]_vars => [Log!Next]_<<[i \in 1..srvLog |-> i], Applied>>
  BY LogSteps, LogStepRefines
<1> QED
  BY <1>1, <1>2, ViewerInvariant, PTL DEF Spec, RefinesSessionLog, Log!Spec, Log!logVars
=============================================================================
