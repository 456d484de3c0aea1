-------------------------- MODULE HeartbeatProofs --------------------------
(***************************************************************************)
(* That a heartbeat which watches the server keeps pinging it, for any     *)
(* number of restarts and of idle callbacks that wait for the main thread. *)
(***************************************************************************)
EXTENDS Heartbeat, TLAPS

(* A timer belongs to a chain that some start() began. *)
Begun == \A i \in Chains : ping[i] # "off" => i <= starts

IInv == TypeOK /\ Begun /\ PingsWhileWatching

(* Nothing runs and nothing is watched before the first start(). *)
LEMMA InitHolds == Init => IInv
<1> SUFFICES ASSUME Init PROVE IInv  OBVIOUS
<1> USE DEF Init
<1>1. TypeOK
  <2>1. ping \in [Chains -> {"off", "running", "elapsed"}]
    OBVIOUS
  <2>2. starts \in 0..MaxStarts /\ pingHandle \in 0..starts /\ idlePending \in 0..MaxPending
    BY HeartbeatBounds
  <2> QED  BY <2>1, <2>2 DEF TypeOK
<1>2. Begun
  BY DEF Begun
<1>3. PingsWhileWatching
  BY DEF PingsWhileWatching
<1> QED  BY <1>1, <1>2, <1>3 DEF IInv

(* start() overwrites the handle, by that of the chain it begins. *)
LEMMA StartStep == IInv /\ Start => IInv'
<1> SUFFICES ASSUME IInv, Start PROVE IInv'  OBVIOUS
<1> USE DEF IInv, TypeOK, Begun, Chains, Start, ResetIdleTimeout, PeriodicPing
<1>1. starts + 1 \in Chains
  BY HeartbeatBounds
<1>2. TypeOK'
  BY <1>1, HeartbeatBounds
<1>3. Begun'
  BY <1>1, HeartbeatBounds
<1>4. PingsWhileWatching'
  BY <1>1, HeartbeatBounds DEF PingsWhileWatching
<1> QED  BY <1>2, <1>3, <1>4

(* stop() and the idle callback abort the ping that the handle is of.      *)
LEMMA AbortStep ==
    ASSUME IInv, ping' = PingAborted, pingHandle' = 0, watching' = FALSE, starts' = starts,
           idleRunning' \in BOOLEAN, idlePending' \in 0..MaxPending
    PROVE  IInv'
<1>1. ping \in [Chains -> {"off", "running", "elapsed"}]
  BY DEF IInv, TypeOK
<1>2. ping' \in [Chains -> {"off", "running", "elapsed"}]
  BY <1>1 DEF PingAborted
<1>3. pingHandle' \in 0..starts' /\ starts' \in 0..MaxStarts
  BY HeartbeatBounds DEF IInv, TypeOK
<1>4. watching' \in BOOLEAN
  OBVIOUS
<1>5. TypeOK'
  BY <1>2, <1>3, <1>4 DEF TypeOK
<1>6. \A i \in Chains : ping'[i] # "off" => ping[i] # "off"
  BY <1>1 DEF PingAborted
<1>7. Begun'
  BY <1>6 DEF IInv, Begun
<1> QED  BY <1>5, <1>7 DEF IInv, PingsWhileWatching

(* A ping timer that elapses is not off, nor is one that was armed again.  *)
LEMMA PingStep ==
    ASSUME IInv, NEW i \in Chains, PingTimerElapses(i) \/ PingCallback(i)
    PROVE  IInv'
<1> USE DEF IInv, TypeOK, Begun, Chains
<1>1. CASE PingTimerElapses(i)
  BY <1>1, HeartbeatBounds DEF PingTimerElapses, PingsWhileWatching
<1>2. CASE PingCallback(i)
  <2>1. i <= starts
    BY <1>2 DEF PingCallback
  <2> QED  BY <1>2, <2>1, HeartbeatBounds DEF PingCallback, PeriodicPing, PingsWhileWatching
<1> QED  BY <1>1, <1>2

LEMMA StepKeeps == IInv /\ [Next]_hbVars => IInv'
<1> SUFFICES ASSUME IInv, [Next]_hbVars PROVE IInv'  OBVIOUS
<1>1. CASE Start
  BY <1>1, StartStep
<1>2. CASE Stop
  BY <1>2, AbortStep DEF Stop, IInv, TypeOK
<1>3. CASE MessageReceived
  BY <1>3 DEF MessageReceived, ResetIdleTimeout, IInv, TypeOK, Begun, PingsWhileWatching
<1>4. CASE IdleTimerElapses
  <2>1. idlePending' \in 0..MaxPending
    BY <1>4, HeartbeatBounds DEF IdleTimerElapses, IInv, TypeOK
  <2>2. idleRunning' \in BOOLEAN
    BY <1>4 DEF IdleTimerElapses
  <2>3. UNCHANGED <<starts, ping, pingHandle, watching>>
    BY <1>4 DEF IdleTimerElapses
  <2> QED  BY <2>1, <2>2, <2>3 DEF IInv, TypeOK, Begun, PingsWhileWatching
<1>5. CASE IdleCallback
  <2>1. idlePending' \in 0..MaxPending
    BY <1>5, HeartbeatBounds DEF IdleCallback, IInv, TypeOK
  <2> QED  BY <1>5, <2>1, AbortStep DEF IdleCallback, IInv, TypeOK
<1>6. CASE \E i \in Chains : PingTimerElapses(i) \/ PingCallback(i)
  BY <1>6, PingStep
<1>7. CASE UNCHANGED hbVars
  BY <1>7 DEF hbVars, IInv, TypeOK, Begun, PingsWhileWatching
<1> QED  BY <1>1, <1>2, <1>3, <1>4, <1>5, <1>6, <1>7 DEF Next

(* Every variable of the heartbeat keeps its type: no handle is that of a  *)
(* chain which was never started.                                          *)
THEOREM HeartbeatTypeCorrect == Spec => []TypeOK
<1>1. IInv => TypeOK
  BY DEF IInv
<1> QED  BY <1>1, InitHolds, StepKeeps, PTL DEF Spec

(* A heartbeat that watches has a ping timer, and its handle is kept.      *)
THEOREM WatchesAndPings == Spec => []PingsWhileWatching
<1>1. IInv => PingsWhileWatching
  BY DEF IInv
<1> QED  BY <1>1, InitHolds, StepKeeps, PTL DEF Spec
=============================================================================
