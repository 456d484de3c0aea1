----------------------------- MODULE Heartbeat -----------------------------
(***************************************************************************)
(* app/src/terminal/shared_session/network/heartbeat.rs: the idle timer    *)
(* that tells a sharer or a viewer that the server went silent, and the    *)
(* pings that tell the server that the client is there.                    *)
(*                                                                         *)
(* A timer is a background future: abort() stops it while it runs; once it *)
(* has elapsed its callback will run on the main thread whatever happens.  *)
(* Each call of start() begins a chain of pings, in which the callback of  *)
(* a timer arms the next one.  One abort handle is kept: that of the ping  *)
(* timer that was armed last, which belongs to the chain pingHandle.       *)
(***************************************************************************)
EXTENDS Integers

CONSTANTS
    MaxStarts,    \* bound: calls of start()
    MaxPending    \* bound: idle callbacks waiting for the main thread

ASSUME HeartbeatBounds == MaxStarts \in Nat /\ MaxPending \in Nat \ {0}

VARIABLES
    starts,       \* calls of start() so far
    ping,         \* the timer of each chain: not armed, running, elapsed
    pingHandle,   \* chain of the timer in periodic_ping_abort_handle, 0 for None
    idleRunning,  \* the idle timer in idle_timeout_abort_handle is running
    idlePending,  \* idle timers that elapsed and whose callback is pending
    watching      \* history: started, and neither stopped nor idle since

hbVars == <<starts, ping, pingHandle, idleRunning, idlePending, watching>>

Chains == 1..MaxStarts

TypeOK ==
    /\ starts \in 0..MaxStarts
    /\ ping \in [Chains -> {"off", "running", "elapsed"}]
    /\ pingHandle \in 0..starts
    /\ idleRunning \in BOOLEAN
    /\ idlePending \in 0..MaxPending
    /\ watching \in BOOLEAN

Init ==
    /\ starts = 0
    /\ ping = [i \in Chains |-> "off"]
    /\ pingHandle = 0
    /\ idleRunning = FALSE
    /\ idlePending = 0
    /\ watching = FALSE

(* Mutant: only a timer that is running is extended. *)
ResetIdleTimeoutIfRunning == idleRunning' = idleRunning

(* reset_idle_timeout: the timer is aborted, another one is armed. *)
ResetIdleTimeout == idleRunning' = TRUE

(* The chains once the kept ping handle was taken and aborted. *)
PingAborted ==
    [i \in Chains |-> IF i = pingHandle /\ ping[i] = "running" THEN "off" ELSE ping[i]]

(* periodic_ping, for chain i: whatever handle was kept is overwritten.    *)
PeriodicPing(i) ==
    /\ ping' = [ping EXCEPT ![i] = "running"]
    /\ pingHandle' = i

Start ==
    /\ starts < MaxStarts
    /\ starts' = starts + 1
    /\ ResetIdleTimeout
    /\ PeriodicPing(starts + 1)
    /\ watching' = TRUE
    /\ UNCHANGED idlePending

Stop ==
    /\ idleRunning' = FALSE
    /\ ping' = PingAborted
    /\ pingHandle' = 0
    /\ watching' = FALSE
    /\ UNCHANGED <<starts, idlePending>>

(* A message was received, on a socket that some start() was called for. *)
MessageReceived ==
    /\ starts > 0
    /\ ResetIdleTimeout
    /\ UNCHANGED <<starts, ping, pingHandle, idlePending, watching>>

IdleTimerElapses ==
    /\ idleRunning
    /\ idlePending < MaxPending
    /\ idleRunning' = FALSE
    /\ idlePending' = idlePending + 1
    /\ UNCHANGED <<starts, ping, pingHandle, watching>>

(* The idle callback: the pings stop, Event::Idle is emitted. *)
IdleCallback ==
    /\ idlePending > 0
    /\ idlePending' = idlePending - 1
    /\ ping' = PingAborted
    /\ pingHandle' = 0
    /\ watching' = FALSE
    /\ UNCHANGED <<starts, idleRunning>>

PingTimerElapses(i) ==
    /\ ping[i] = "running"
    /\ ping' = [ping EXCEPT ![i] = "elapsed"]
    /\ UNCHANGED <<starts, pingHandle, idleRunning, idlePending, watching>>

(* Mutant: the next ping is not armed. *)
PingCallbackOnce(i) ==
    /\ ping[i] = "elapsed"
    /\ ping' = [ping EXCEPT ![i] = "off"]
    /\ UNCHANGED <<starts, pingHandle, idleRunning, idlePending, watching>>

(* The ping callback: Event::Ping is emitted, the next timer is armed. *)
PingCallback(i) ==
    /\ ping[i] = "elapsed"
    /\ PeriodicPing(i)
    /\ UNCHANGED <<starts, idleRunning, idlePending, watching>>

Next ==
    \/ Start \/ Stop \/ MessageReceived
    \/ IdleTimerElapses \/ IdleCallback
    \/ \E i \in Chains : PingTimerElapses(i) \/ PingCallback(i)

Spec == Init /\ [][Next]_hbVars

(* Timers elapse and the main thread runs their callbacks. *)
LiveSpec ==
    /\ Spec
    /\ WF_hbVars(IdleTimerElapses) /\ WF_hbVars(IdleCallback)
    /\ \A i \in Chains : WF_hbVars(PingTimerElapses(i)) /\ WF_hbVars(PingCallback(i))

-----------------------------------------------------------------------------
(* While the server is watched the client keeps pinging it, across         *)
(* restarts whose chains overwrite each other's handle.                    *)
PingsWhileWatching == watching => pingHandle # 0 /\ ping[pingHandle] # "off"

(* The watchdog cannot be lost: once messages stop and nothing restarts    *)
(* it, a heartbeat that is watching reports Idle or is stopped.            *)
SilenceIsReported ==
    <>[][~MessageReceived /\ ~Start]_hbVars => <>[]~watching
=============================================================================
