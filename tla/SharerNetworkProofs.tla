------------------------ MODULE SharerNetworkProofs ------------------------
(***************************************************************************)
(* Proofs about SharerNetwork, for every number of attempts, retries,      *)
(* events and reconnections, and every set of faults.                      *)
(***************************************************************************)
EXTENDS SharerNetwork, TLAPS

-----------------------------------------------------------------------------
(* The inductive invariant.                                                *)

(* The log: what is stored is a suffix lo.. of what was numbered, what the *)
(* server has is a prefix ..k-1, and they meet.                            *)
LogShape(lo, k) ==
    /\ lo \in 0..EventNo /\ k \in 0..EventNo /\ lo <= k
    /\ unacked = lo..(EventNo - 1)
    /\ srvEvents = 0..(k - 1)
LogInv == \E lo, k \in 0..EventNo : LogShape(lo, k)

(* Event m is with the server (del) or ahead of position i of s. *)
Before(m, s, i, del) == m \in del \/ \E j \in 1..(i - 1) : s[j] = Event(m)

(* Every event in s is preceded by all the earlier ones; n were numbered.  *)
Ordered(s, del, n) ==
    \A i \in 1..Len(s) : s[i].type = "OrderedTerminalEvent" =>
        /\ s[i].no < n
        /\ \A m \in 0..(s[i].no - 1) : Before(m, s, i, del)
ChanInv == \A c \in Conduits : Ordered(chan[c], srvEvents, EventNo)

(* While the session is live and its channel works, nothing is missing.    *)
Complete(s, del, n) == \A m \in 0..(n - 1) : Before(m, s, Len(s) + 1, del)
LiveInv ==
    stage = "StartedSuccessfully" /\ open[tx] /\ sock[tx] \in {"none", "open"} =>
        Complete(chan[tx], srvEvents, EventNo)

NoEvents(s) == \A i \in 1..Len(s) : s[i].type # "OrderedTerminalEvent"
HasReconnect(s) == \E i \in 1..Len(s) : s[i].type = "Reconnect"

(* Before the session starts nothing was sent. *)
StartInv ==
    stage = "BeforeStarted" => srvEvents = {} /\ \A c \in Conduits : NoEvents(chan[c])

(* There is one reconnection at a time: the retry chain, or one socket on  *)
(* which a Reconnect was sent and whose answer was not read.               *)
IsChain(f) == f.kind \in {"retry", "backoff"}
NoChain ==
    /\ \A f \in running : ~IsChain(f)
    /\ \A r \in resolved : ~IsChain(r.future)
OneChain ==
    /\ \A f, g \in running : IsChain(f) /\ IsChain(g) => f = g
    /\ \A r, q \in resolved : IsChain(r.future) /\ IsChain(q.future) => r = q
    /\ \A f \in running, r \in resolved : ~(IsChain(f) /\ IsChain(r.future))
Pending(c) == reply[c] = "reconnected" \/ HasReconnect(chan[c])
ReconnectInv ==
    stage # "Finished" =>
        /\ stage # "Reconnecting" => NoChain /\ \A c \in Conduits : ~Pending(c)
        /\ OneChain
        /\ \A c \in Conduits : Pending(c) => c = tx /\ NoChain /\ NoEvents(chan[c])

(* A Reconnect is the first message of a fresh conduit, and is answered    *)
(* only once it has left the channel.                                      *)
FreshInv ==
    /\ tx <= MaxAttempts + reconnects
    /\ \A c \in Conduits : c > MaxAttempts + reconnects =>
            chan[c] = <<>> /\ reply[c] = "none" /\ sock[c] = "none"
    /\ \A c \in Conduits : HasReconnect(chan[c]) =>
            reply[c] = "none" /\ ~HasReconnect(Tail(chan[c]))

(* The server's answer to Reconnect still describes what it has. *)
ResumeInv ==
    stage = "Reconnecting" =>
        \A c \in Conduits : reply[c] = "reconnected" =>
            /\ resume[c] <= EventNo
            /\ srvEvents = 0..(resume[c] - 1)
            /\ \A d \in Conduits \ {c} : ~srvOpen[d]

IInv ==
    /\ TypeOK
    /\ LogInv
    /\ ChanInv
    /\ LiveInv
    /\ StartInv
    /\ ReconnectInv
    /\ FreshInv
    /\ ResumeInv

-----------------------------------------------------------------------------
(* Facts about the operators.                                              *)

LEMMA RangeNat == ASSUME NEW a \in Nat, NEW b \in Nat PROVE a..(b - 1) \subseteq Nat
OBVIOUS

LEMMA ConcatFacts ==
    ASSUME NEW S, NEW s \in Seq(S), NEW t \in Seq(S)
    PROVE  /\ s \o t \in Seq(S)
           /\ Len(s \o t) = Len(s) + Len(t)
           /\ \A i \in 1..Len(s) : (s \o t)[i] = s[i]
           /\ \A i \in 1..Len(t) : (s \o t)[Len(s) + i] = t[i]
OBVIOUS

(* On a stored suffix lo.. the flush from start >= lo sends everything.    *)
LEMMA FlushAll ==
    ASSUME NEW start \in 0..EventNo, NEW lo \in 0..start, EventNo \in Nat,
           unacked = lo..(EventNo - 1)
    PROVE  /\ FlushEnd(start) = EventNo
           /\ Flush(start) = [i \in 1..(EventNo - start) |-> Event(start + i - 1)]
<1>1. EventNo \in start..(start + EventNo) /\ EventNo \notin unacked
  OBVIOUS
<1>2. \A n \in start..(EventNo - 1) : n \in unacked
  OBVIOUS
<1>3. \A e \in start..(start + EventNo) :
        (e \notin unacked /\ \A n \in start..(e - 1) : n \in unacked) => e = EventNo
  OBVIOUS
<1>4. FlushEnd(start) = EventNo
  BY <1>1, <1>2, <1>3, Zenon DEF FlushEnd
<1> QED
  BY <1>4, Zenon DEF Flush

(* On a stored suffix an acknowledgement removes a prefix of it.           *)
LEMMA AckPrefix ==
    ASSUME NEW e \in Nat, NEW lo \in 0..e, NEW n \in 0..(e - 1),
           unacked = lo..(e - 1)
    PROVE  unacked \ AckedBy(n) = (IF n < lo THEN lo ELSE n + 1)..(e - 1)
<1>1. CASE n < lo
  <2>1. AckedBy(n) = {}
    BY <1>1 DEF AckedBy
  <2> QED BY <1>1, <2>1
<1>2. CASE n >= lo
  <2>1. AckedBy(n) = lo..n
    BY <1>2 DEF AckedBy
  <2> QED BY <1>2, <2>1
<1> QED BY <1>1, <1>2

-----------------------------------------------------------------------------
(* Type correctness.                                                       *)

LEMMA FutureTypes ==
    ASSUME NEW n \in Nat, NEW ok \in BOOLEAN
    PROVE  /\ Connect(n) \in Futures /\ Timeout(n) \in Futures /\ Retry(n) \in Futures
           /\ Backoff(n) \in Futures /\ SendTask(n) \in Futures
           /\ \A f \in Futures : Result(f, ok) \in [future : Futures, ok : BOOLEAN]
BY DEF Connect, Timeout, Retry, Backoff, SendTask, Future, Futures, Result

LEMMA MsgTypes ==
    /\ \A n \in Nat : Event(n) \in Msgs
    /\ Msg("Initialize", 0) \in Msgs
    /\ Msg("Reconnect", 0) \in Msgs
    /\ Msg("EndSession", 0) \in Msgs
BY DEF Event, Msg, Msgs

LEMMA QueuedType ==
    ASSUME chan \in [Conduits -> Seq(Msgs)], NEW c \in Conduits, NEW ms \in Seq(Msgs)
    PROVE  Queued(c, ms) \in [Conduits -> Seq(Msgs)]
BY DEF Queued

LEMMA FlushType ==
    ASSUME TypeOK, LogInv, NEW start \in 0..EventNo,
           \E lo \in 0..start : unacked = lo..(EventNo - 1)
    PROVE  Flush(start) \in Seq(Msgs)
<1>1. EventNo \in Nat
  BY DEF TypeOK, EventNo
<1>2. PICK lo \in 0..start : unacked = lo..(EventNo - 1)
  OBVIOUS
<1>3. Flush(start) = [i \in 1..(EventNo - start) |-> Event(start + i - 1)]
  BY <1>1, <1>2, FlushAll
<1>4. \A i \in 1..(EventNo - start) : Event(start + i - 1) \in Msgs
  BY <1>1, MsgTypes
<1> QED
  BY <1>1, <1>3, <1>4

LEMMA TypeInit == Init => TypeOK
<1> SUFFICES ASSUME Init PROVE TypeOK
  OBVIOUS
<1>1. 1 \in Conduits /\ 1 \in Attempts /\ 1 \in Nat /\ 0 \in 0..MaxAttempts
  BY AttemptsAssumption, BoundsAssumption DEF Conduits, Attempts
<1>2. TaskTypes
  <2>1. Connect(1) \in Futures /\ Timers(1) \subseteq Futures
    BY <1>1, FutureTypes DEF Timers
  <2> QED BY <2>1 DEF Init, TaskTypes
<1>3. StageTypes
  BY <1>1 DEF Init, StageTypes, Stages
<1>4. ChanTypes
  <2>1. tx \in Conduits /\ chan \in [Conduits -> Seq(Msgs)]
    BY <1>1 DEF Init
  <2>2. open \in [Conduits -> BOOLEAN]
    <3>1. [c \in Conduits |-> c = 1] \in [Conduits -> BOOLEAN]
      BY Zenon
    <3> QED BY <3>1, Zenon DEF Init
  <2>3. sock \in [Conduits -> Socks]
    BY DEF Init, Socks
  <2> QED BY <2>1, <2>2, <2>3 DEF ChanTypes
<1>5. SrvTypes
  BY DEF Init, SrvTypes, Replies
<1>6. EventTypes
  BY BoundsAssumption DEF Init, EventTypes
<1>7. IdleTypes
  BY DEF Init, IdleTypes
<1>8. UiTypes
  <2>1. reconnects \in 0..MaxReconnects
    BY BoundsAssumption DEF Init
  <2>3. endAsked \in BOOLEAN
    BY Zenon DEF Init
  <2>2. outcomes \in Seq({"created", "failed"})
    BY DEF Init
  <2> QED BY <2>1, <2>2, <2>3 DEF UiTypes
<1> QED
  BY <1>2, <1>3, <1>4, <1>5, <1>6, <1>7, <1>8 DEF TypeOK

LEMMA ConduitFacts ==
    /\ Attempts \subseteq Conduits
    /\ \A c \in Conduits : c \in Nat
    /\ \A a \in Attempts : a \in Nat /\ (a < MaxAttempts => a + 1 \in Attempts)
BY AttemptsAssumption, BoundsAssumption DEF Attempts, Conduits

LEMMA ClosedType ==
    ASSUME open \in [Conduits -> BOOLEAN], NEW c
    PROVE  /\ Closed(c) \in [Conduits -> BOOLEAN]
           /\ \A d \in Conduits : [Closed(c) EXCEPT ![d] = TRUE] \in [Conduits -> BOOLEAN]
BY DEF Closed

(* What a failed startup may do, whichever way it goes. *)
LEMMA StartupFailureFacts ==
    ASSUME TypeOK, NEW b, StartupFailure(b)
    PROVE  /\ stage' \in {stage, "Finished"}
           /\ attempt' \in Attempts
           /\ tx' \in Conduits
           /\ tx' = tx \/ tx' \in Attempts
           /\ open' \in [Conduits -> BOOLEAN]
           /\ running' \subseteq Futures
           /\ \A f \in running' : IsChain(f) => f \in running
           /\ idleArmed' \in BOOLEAN
           /\ outcomes' \in Seq({"created", "failed"})
<1>1. CASE b /\ attempt < MaxAttempts
  <2>1. StartupRetries
    BY <1>1 DEF StartupFailure
  <2>2. attempt + 1 \in Attempts /\ attempt + 1 \in Conduits /\ attempt + 1 \in Nat
    BY <1>1, ConduitFacts DEF TypeOK, StageTypes
  <2>3. open' \in [Conduits -> BOOLEAN]
    BY <2>1, <2>2, ClosedType DEF StartupRetries, TypeOK, ChanTypes
  <2>7. /\ Connect(attempt + 1) \in Futures /\ Timeout(attempt + 1) \in Futures
        /\ ~IsChain(Connect(attempt + 1)) /\ ~IsChain(Timeout(attempt + 1))
    BY <2>2, FutureTypes DEF IsChain, Connect, Timeout, Future
  <2>8. /\ running \subseteq Futures
        /\ running' \subseteq running \cup {Connect(attempt + 1), Timeout(attempt + 1)}
    BY <2>1, Zenon DEF StartupRetries, Timers, TypeOK, TaskTypes
  <2>4. running' \subseteq Futures /\ \A f \in running' : IsChain(f) => f \in running
    BY <2>7, <2>8, Zenon
  <2>5. idleArmed' \in BOOLEAN
    BY <2>1, Zenon DEF StartupRetries
  <2>6. stage' = stage /\ outcomes' = outcomes /\ attempt' = attempt + 1 /\ tx' = attempt + 1
    BY <2>1 DEF StartupRetries
  <2> QED
    BY <2>2, <2>3, <2>4, <2>5, <2>6 DEF TypeOK, UiTypes
<1>2. CASE ~(b /\ attempt < MaxAttempts)
  <2>1. StartupGivesUp
    BY <1>2 DEF StartupFailure
  <2>2. open' \in [Conduits -> BOOLEAN]
    BY <2>1, ClosedType DEF StartupGivesUp, TypeOK, ChanTypes
  <2>3. idleArmed' \in BOOLEAN
    BY <2>1, Zenon DEF StartupGivesUp
  <2>4. outcomes' \in Seq({"created", "failed"})
    BY <2>1 DEF StartupGivesUp, TypeOK, UiTypes
  <2>5. stage' = "Finished" /\ attempt' = attempt /\ tx' = tx /\ running' \subseteq running
    BY <2>1 DEF StartupGivesUp
  <2> QED
    BY <2>2, <2>3, <2>4, <2>5 DEF TypeOK, StageTypes, ChanTypes, TaskTypes
<1> QED BY <1>1, <1>2

(* The same when a callback ignores it. *)
LEMMA StartupVarsFacts ==
    ASSUME TypeOK, NEW b, StartupFailure(b) \/ UNCHANGED startupVars
    PROVE  /\ stage' \in {stage, "Finished"}
           /\ attempt' \in Attempts
           /\ tx' \in Conduits
           /\ tx' = tx \/ tx' \in Attempts
           /\ open' \in [Conduits -> BOOLEAN]
           /\ running' \subseteq Futures
           /\ \A f \in running' : IsChain(f) => f \in running
           /\ idleArmed' \in BOOLEAN
           /\ outcomes' \in Seq({"created", "failed"})
<1>1. CASE StartupFailure(b)
  BY <1>1, StartupFailureFacts, Zenon
<1>2. CASE UNCHANGED startupVars
  BY <1>2, Zenon DEF startupVars, TypeOK, StageTypes, ChanTypes, TaskTypes, IdleTypes, UiTypes
<1> QED BY <1>1, <1>2

LEMMA CloseFacts ==
    ASSUME TypeOK, CloseWithoutReconnection
    PROVE  /\ stage' = "Finished"
           /\ running' \subseteq running
           /\ open' \in [Conduits -> BOOLEAN]
BY ClosedType DEF CloseWithoutReconnection, RunningAfterClose, TypeOK, ChanTypes

LEMMA ReconnectFacts ==
    ASSUME TypeOK, ReconnectWebsocket
    PROVE  /\ stage' \in {stage, "Reconnecting"}
           /\ running' \subseteq Futures
           /\ running' \subseteq running \cup {Retry(MaxRetries)}
<1>1. Retry(MaxRetries) \in Futures
  BY RetriesAssumption, FutureTypes
<1>2. running \subseteq Futures
  BY DEF TypeOK, TaskTypes
<1> QED
  BY <1>1, <1>2, Zenon DEF ReconnectWebsocket

LEMMA ArrivesType == ASSUME NEW c, idleArmed \in BOOLEAN, MessageArrives(c) PROVE idleArmed' \in BOOLEAN
BY Zenon DEF MessageArrives

(* The two flushes: of everything when the session starts, and from what   *)
(* the server asked for when it is resumed.                                *)
LEMMA StartFlush ==
    ASSUME IInv, stage = "BeforeStarted"
    PROVE  /\ EventNo \in Nat
           /\ Flush(0) = [i \in 1..EventNo |-> Event(i - 1)]
           /\ Flush(0) \in Seq(Msgs)
<1>1. EventNo \in Nat
  BY DEF IInv, TypeOK, EventTypes, EventNo
<1>2. unacked = 0..(EventNo - 1)
  <2>1. PICK lo, k \in 0..EventNo : LogShape(lo, k)
    BY DEF IInv, LogInv
  <2>2. srvEvents = {}
    BY DEF IInv, StartInv
  <2>3. k = 0
    BY <1>1, <2>1, <2>2 DEF LogShape
  <2> QED BY <1>1, <2>1, <2>3 DEF LogShape
<1>3. Flush(0) = [i \in 1..(EventNo - 0) |-> Event(0 + i - 1)]
  BY <1>1, <1>2, FlushAll
<1>4. \A i \in 1..EventNo : Event(i - 1) \in Msgs
  BY <1>1, MsgTypes
<1> QED
  BY <1>1, <1>3, <1>4

LEMMA ResumeFlush ==
    ASSUME IInv, stage = "Reconnecting", NEW c \in Conduits, reply[c] = "reconnected"
    PROVE  /\ EventNo \in Nat
           /\ resume[c] \in 0..EventNo
           /\ Flush(resume[c]) = [i \in 1..(EventNo - resume[c]) |-> Event(resume[c] + i - 1)]
           /\ Flush(resume[c]) \in Seq(Msgs)
<1> DEFINE s == resume[c]
<1>1. EventNo \in Nat
  BY DEF IInv, TypeOK, EventTypes, EventNo
<1>2. s \in 0..EventNo /\ srvEvents = 0..(s - 1)
  BY <1>1 DEF IInv, ResumeInv, TypeOK, SrvTypes
<1>3. \E lo \in 0..s : unacked = lo..(EventNo - 1)
  <2>1. PICK lo, k \in 0..EventNo : LogShape(lo, k)
    BY DEF IInv, LogInv
  <2>2. k = s
    BY <1>1, <1>2, <2>1 DEF LogShape
  <2> QED BY <1>1, <2>1, <2>2 DEF LogShape
<1> HIDE DEF s
<1>4. PICK lo \in 0..s : unacked = lo..(EventNo - 1)
  BY <1>3
<1>5. Flush(s) = [i \in 1..(EventNo - s) |-> Event(s + i - 1)]
  BY <1>1, <1>2, <1>4, FlushAll
<1>6. \A i \in 1..(EventNo - s) : Event(s + i - 1) \in Msgs
  BY <1>1, <1>2, MsgTypes
<1>7. Flush(s) \in Seq(Msgs)
  BY <1>1, <1>2, <1>5, <1>6
<1> QED
  BY <1>1, <1>2, <1>5, <1>7 DEF s

(* Sending ordered events: they are numbered on, stored, and queued in     *)
(* order, possibly followed by EndSession.                                 *)
SentFrom(ms, from, to) ==
    /\ ms \in Seq(Msgs)
    /\ to - from <= Len(ms)
    /\ \A i \in 1..Len(ms) :
        IF i <= to - from THEN ms[i] = Event(from + i - 1)
        ELSE ms[i].type = "EndSession"

LEMMA SendOrderedFacts ==
    ASSUME TypeOK, NEW ps \in Seq(Seq(Nat)), SendOrdered(ps)
    PROVE  /\ numBytes' \in Nat
           /\ events' \in Seq(Seq(Nat))
           /\ EventNo \in Nat /\ EventNo' \in Nat /\ EventNo <= EventNo'
           /\ \A i \in 1..EventNo : events'[i] = events[i]
           /\ unacked' = unacked \cup (EventNo..(EventNo' - 1))
           /\ endAsked' \in BOOLEAN
           /\ stage' \in {stage, "Finished"}
           /\ running' \subseteq running
           /\ open' \in [Conduits -> BOOLEAN]
           /\ stage' = "Finished" \/ UNCHANGED <<running, open, stage>>
           /\ IF stage = "StartedSuccessfully"
              THEN \E ms : SentFrom(ms, EventNo, EventNo') /\ chan' = Queued(tx, ms)
              ELSE chan' = chan
<1> DEFINE room == IF numBytes < MaxBytes THEN MaxBytes - numBytes ELSE 0
           len  == IF room < Len(ps) THEN room ELSE Len(ps)
           fit  == SubSeq(ps, 1, len)
           sent == [i \in 1..Len(fit) |-> Event(EventNo + i - 1)]
           over == Len(fit) < Len(ps)
           ms   == IF over THEN Append(sent, Msg("EndSession", 0)) ELSE sent
<1>1. events \in Seq(Seq(Nat)) /\ numBytes \in Nat /\ EventNo \in Nat
  BY DEF TypeOK, EventTypes, EventNo
<1>2. room \in Nat /\ len \in 0..Len(ps) /\ Len(ps) \in Nat
  BY <1>1, BytesAssumption
<1>3. fit \in Seq(Seq(Nat)) /\ Len(fit) = len
  <2> HIDE DEF len
  <2> QED BY <1>2
<1>4. numBytes' = numBytes + Len(ps) /\ events' = events \o fit
  BY DEF SendOrdered
<1>5. events' \in Seq(Seq(Nat)) /\ EventNo' = EventNo + len
      /\ \A i \in 1..EventNo : events'[i] = events[i]
  <2> HIDE DEF fit, len
  <2>1. events \o fit \in Seq(Seq(Nat)) /\ Len(events \o fit) = Len(events) + Len(fit)
        /\ \A i \in 1..Len(events) : (events \o fit)[i] = events[i]
    BY <1>1, <1>3, ConcatFacts
  <2> QED BY <1>3, <1>4, <2>1 DEF EventNo
<1>6. unacked' = unacked \cup (EventNo..(EventNo' - 1))
  <2>1. unacked' = unacked \cup {EventNo + i - 1 : i \in 1..Len(fit)}
    BY DEF SendOrdered
  <2>2. {EventNo + i - 1 : i \in 1..len} = EventNo..(EventNo + len - 1)
    <3> HIDE DEF len
    <3>1. ASSUME NEW n \in EventNo..(EventNo + len - 1) PROVE \E i \in 1..len : n = EventNo + i - 1
      <4>1. n - EventNo + 1 \in 1..len /\ n = EventNo + (n - EventNo + 1) - 1
        BY <1>1, <1>2
      <4> QED BY <4>1
    <3>2. ASSUME NEW i \in 1..len PROVE EventNo + i - 1 \in EventNo..(EventNo + len - 1)
      BY <1>1, <1>2
    <3> QED BY <3>1, <3>2
  <2> HIDE DEF fit, len
  <2>3. unacked' = unacked \cup {EventNo + i - 1 : i \in 1..len}
    BY <1>3, <2>1, Zenon
  <2>4. EventNo' - 1 = EventNo + len - 1
    BY <1>1, <1>2, <1>5
  <2> QED BY <2>2, <2>3, <2>4, Zenon
<1>7. endAsked' \in BOOLEAN
  BY Zenon DEF SendOrdered
<1>8. IF over THEN CloseWithoutReconnection ELSE UNCHANGED <<running, open, stage>>
  BY DEF SendOrdered
<1>9. /\ stage' \in {stage, "Finished"} /\ running' \subseteq running
      /\ open' \in [Conduits -> BOOLEAN]
      /\ stage' = "Finished" \/ UNCHANGED <<running, open, stage>>
  <2>1. CASE over
    BY <1>8, <2>1, CloseFacts
  <2>2. CASE ~over
    BY <1>8, <2>2 DEF TypeOK, ChanTypes
  <2> QED BY <2>1, <2>2
<1>10. chan' = IF stage # "StartedSuccessfully" THEN chan ELSE Queued(tx, ms)
  BY DEF SendOrdered
<1>11. SentFrom(ms, EventNo, EventNo')
  <2>1. sent \in Seq(Msgs) /\ Len(sent) = len
        /\ \A i \in 1..len : sent[i] = Event(EventNo + i - 1)
    <3> HIDE DEF fit, len
    <3>1. \A i \in 1..Len(fit) : Event(EventNo + i - 1) \in Msgs
      BY <1>1, <1>2, <1>3, MsgTypes
    <3> QED BY <1>2, <1>3, <3>1
  <2> HIDE DEF sent, over, len
  <2>2. CASE over
    <3>1. ms = Append(sent, Msg("EndSession", 0)) /\ Msg("EndSession", 0) \in Msgs
          /\ Msg("EndSession", 0).type = "EndSession"
      BY <2>2, MsgTypes DEF Msg
    <3>2. ms \in Seq(Msgs) /\ Len(ms) = len + 1
          /\ (\A i \in 1..len : ms[i] = sent[i]) /\ ms[len + 1] = Msg("EndSession", 0)
      BY <1>2, <2>1, <3>1
    <3> HIDE DEF ms
    <3>3. EventNo' - EventNo = len
      BY <1>1, <1>2, <1>5
    <3>4. \A i \in 1..Len(ms) : IF i <= len THEN ms[i] = Event(EventNo + i - 1)
                                ELSE ms[i].type = "EndSession"
      <4> TAKE i \in 1..Len(ms)
      <4>1. i \in 1..len \/ i = len + 1
        BY <1>2, <3>2
      <4> QED BY <1>2, <2>1, <3>1, <3>2, <4>1
    <3> QED BY <1>2, <3>2, <3>3, <3>4 DEF SentFrom
  <2>3. CASE ~over
    <3>1. ms = sent
      BY <2>3
    <3> QED BY <1>1, <1>2, <1>5, <2>1, <3>1 DEF SentFrom
  <2> QED BY <2>2, <2>3
<1> HIDE DEF ms
<1>12. numBytes' \in Nat
  BY <1>1, <1>2, <1>4
<1>13. EventNo' \in Nat /\ EventNo <= EventNo'
  <2> HIDE DEF len
  <2> QED BY <1>1, <1>2, <1>5
<1>14. IF stage = "StartedSuccessfully"
       THEN \E m : SentFrom(m, EventNo, EventNo') /\ chan' = Queued(tx, m)
       ELSE chan' = chan
  BY <1>10, <1>11, Zenon
<1> QED
  BY <1>1, <1>5, <1>6, <1>7, <1>9, <1>12, <1>13, <1>14, Zenon

(* One lemma per action. *)
LEMMA ResolveType ==
    ASSUME TypeOK, NEW f \in running, NEW ok \in BOOLEAN, Resolve(f, ok)
    PROVE  TypeOK'
<1>10. TaskTypes'
  <2>1. Result(f, ok) \in [future : Futures, ok : BOOLEAN]
    BY DEF TypeOK, TaskTypes, Result
  <2> QED BY <2>1, Zenon DEF Resolve, TypeOK, TaskTypes
<1>11. StageTypes'
  BY DEF Resolve, TypeOK, StageTypes, taskVars, stageVars, chanVars, srvVars, eventVars, idleVars, uiVars
<1>12. ChanTypes'
  BY DEF Resolve, TypeOK, ChanTypes, taskVars, stageVars, chanVars, srvVars, eventVars, idleVars, uiVars
<1>13. SrvTypes'
  BY DEF Resolve, TypeOK, SrvTypes, taskVars, stageVars, chanVars, srvVars, eventVars, idleVars, uiVars
<1>14. EventTypes'
  BY DEF Resolve, TypeOK, EventTypes, taskVars, stageVars, chanVars, srvVars, eventVars, idleVars, uiVars
<1>15. IdleTypes'
  BY DEF Resolve, TypeOK, IdleTypes, taskVars, stageVars, chanVars, srvVars, eventVars, idleVars, uiVars
<1>16. UiTypes'
  BY DEF Resolve, TypeOK, UiTypes, taskVars, stageVars, chanVars, srvVars, eventVars, idleVars, uiVars
<1> QED
  BY <1>10, <1>11, <1>12, <1>13, <1>14, <1>15, <1>16 DEF TypeOK

LEMMA ConnectSucceededType ==
    ASSUME TypeOK, NEW a \in Attempts, ConnectSucceeded(a)
    PROVE  TypeOK'
<1>10. ChanTypes'
  <2>1. <<Msg("Initialize", 0)>> \in Seq(Msgs) /\ tx \in Conduits
    BY MsgTypes DEF TypeOK, ChanTypes
  <2>2. Queued(tx, <<Msg("Initialize", 0)>>) \in [Conduits -> Seq(Msgs)]
    BY <2>1, QueuedType DEF TypeOK, ChanTypes
  <2>3. chan' \in [Conduits -> Seq(Msgs)]
    BY <2>2, Zenon DEF ConnectSucceeded, TypeOK, ChanTypes
  <2>4. tx' \in Conduits /\ open' \in [Conduits -> BOOLEAN] /\ sock' \in [Conduits -> Socks]
    BY DEF ConnectSucceeded, TypeOK, ChanTypes, Socks
  <2> QED BY <2>3, <2>4 DEF ChanTypes
<1>11. StageTypes'
  BY DEF ConnectSucceeded, TypeOK, StageTypes, taskVars, stageVars, chanVars, srvVars, eventVars, idleVars, uiVars
<1>12. TaskTypes'
  BY DEF ConnectSucceeded, TypeOK, TaskTypes, taskVars, stageVars, chanVars, srvVars, eventVars, idleVars, uiVars
<1>13. SrvTypes'
  BY DEF ConnectSucceeded, TypeOK, SrvTypes, taskVars, stageVars, chanVars, srvVars, eventVars, idleVars, uiVars
<1>14. EventTypes'
  BY DEF ConnectSucceeded, TypeOK, EventTypes, taskVars, stageVars, chanVars, srvVars, eventVars, idleVars, uiVars
<1>15. IdleTypes'
  BY DEF ConnectSucceeded, TypeOK, IdleTypes, taskVars, stageVars, chanVars, srvVars, eventVars, idleVars, uiVars
<1>16. UiTypes'
  BY DEF ConnectSucceeded, TypeOK, UiTypes, taskVars, stageVars, chanVars, srvVars, eventVars, idleVars, uiVars
<1> QED
  BY <1>10, <1>11, <1>12, <1>13, <1>14, <1>15, <1>16 DEF TypeOK

LEMMA ConnectFailedType ==
    ASSUME TypeOK, NEW a \in Attempts, ConnectFailed(a)
    PROVE  TypeOK'
<1>1. StartupFailure(TRUE) \/ UNCHANGED startupVars
  BY DEF ConnectFailed
<1>2. /\ stage' \in {stage, "Finished"} /\ attempt' \in Attempts /\ tx' \in Conduits
      /\ open' \in [Conduits -> BOOLEAN] /\ running' \subseteq Futures
      /\ idleArmed' \in BOOLEAN /\ outcomes' \in Seq({"created", "failed"})
  BY <1>1, StartupVarsFacts, Zenon
<1>10. StageTypes'
  BY <1>2 DEF ConnectFailed, TypeOK, StageTypes, Stages
<1>11. TaskTypes'
  BY <1>2 DEF ConnectFailed, TypeOK, TaskTypes
<1>12. ChanTypes'
  BY <1>2 DEF ConnectFailed, TypeOK, ChanTypes
<1>13. IdleTypes'
  BY <1>2, Zenon DEF ConnectFailed, TypeOK, IdleTypes
<1>14. UiTypes'
  BY <1>2, Zenon DEF ConnectFailed, TypeOK, UiTypes
<1>15. SrvTypes'
  BY DEF ConnectFailed, TypeOK, SrvTypes, taskVars, stageVars, chanVars, srvVars, eventVars, idleVars, uiVars
<1>16. EventTypes'
  BY DEF ConnectFailed, TypeOK, EventTypes, taskVars, stageVars, chanVars, srvVars, eventVars, idleVars, uiVars
<1> QED
  BY <1>10, <1>11, <1>12, <1>13, <1>14, <1>15, <1>16 DEF TypeOK

LEMMA AttemptTimedOutType ==
    ASSUME TypeOK, NEW a \in Attempts, AttemptTimedOut(a)
    PROVE  TypeOK'
<1>1. StartupFailure(TRUE) \/ UNCHANGED startupVars
  BY DEF AttemptTimedOut
<1>2. /\ stage' \in {stage, "Finished"} /\ attempt' \in Attempts /\ tx' \in Conduits
      /\ open' \in [Conduits -> BOOLEAN] /\ running' \subseteq Futures
      /\ idleArmed' \in BOOLEAN /\ outcomes' \in Seq({"created", "failed"})
  BY <1>1, StartupVarsFacts, Zenon
<1>10. StageTypes'
  BY <1>2 DEF AttemptTimedOut, TypeOK, StageTypes, Stages
<1>11. TaskTypes'
  BY <1>2 DEF AttemptTimedOut, TypeOK, TaskTypes
<1>12. ChanTypes'
  BY <1>2 DEF AttemptTimedOut, TypeOK, ChanTypes
<1>13. IdleTypes'
  BY <1>2, Zenon DEF AttemptTimedOut, TypeOK, IdleTypes
<1>14. UiTypes'
  BY <1>2, Zenon DEF AttemptTimedOut, TypeOK, UiTypes
<1>15. SrvTypes'
  BY DEF AttemptTimedOut, TypeOK, SrvTypes, taskVars, stageVars, chanVars, srvVars, eventVars, idleVars, uiVars
<1>16. EventTypes'
  BY DEF AttemptTimedOut, TypeOK, EventTypes, taskVars, stageVars, chanVars, srvVars, eventVars, idleVars, uiVars
<1> QED
  BY <1>10, <1>11, <1>12, <1>13, <1>14, <1>15, <1>16 DEF TypeOK

LEMMA RetrySucceededType ==
    ASSUME TypeOK, NEW r \in 0..MaxRetries, RetrySucceeded(r)
    PROVE  TypeOK'
<1>1. reconnects + 1 \in 0..MaxReconnects /\ MaxAttempts + reconnects + 1 \in Conduits
  BY AttemptsAssumption, BoundsAssumption DEF RetrySucceeded, TypeOK, UiTypes, Conduits
<1> DEFINE c == MaxAttempts + reconnects + 1
<1>2. tx' = c /\ open' = [Closed(tx) EXCEPT ![c] = TRUE]
      /\ chan' = [chan EXCEPT ![c] = <<Msg("Reconnect", 0)>>]
      /\ sock' = [sock EXCEPT ![c] = "open"] /\ srvOpen' = [srvOpen EXCEPT ![c] = TRUE]
  BY DEF RetrySucceeded
<1>3. c \in Conduits
  BY <1>1
<1> HIDE DEF c
<1>10. ChanTypes'
  <2>1. open' \in [Conduits -> BOOLEAN]
    BY <1>2, <1>3, ClosedType DEF TypeOK, ChanTypes
  <2>2. chan' \in [Conduits -> Seq(Msgs)]
    <3>1. <<Msg("Reconnect", 0)>> \in Seq(Msgs)
      BY MsgTypes
    <3> QED BY <1>2, <3>1 DEF TypeOK, ChanTypes
  <2>3. sock' \in [Conduits -> Socks]
    BY <1>2 DEF TypeOK, ChanTypes, Socks
  <2> QED BY <1>2, <1>3, <2>1, <2>2, <2>3 DEF ChanTypes
<1>11. UiTypes'
  BY <1>1, Zenon DEF RetrySucceeded, TypeOK, UiTypes
<1>12. StageTypes'
  BY DEF RetrySucceeded, TypeOK, StageTypes, taskVars, stageVars, chanVars, srvVars, eventVars, idleVars, uiVars
<1>13. TaskTypes'
  BY DEF RetrySucceeded, TypeOK, TaskTypes, taskVars, stageVars, chanVars, srvVars, eventVars, idleVars, uiVars
<1>14. SrvTypes'
  BY DEF RetrySucceeded, TypeOK, SrvTypes, taskVars, stageVars, chanVars, srvVars, eventVars, idleVars, uiVars
<1>15. EventTypes'
  BY DEF RetrySucceeded, TypeOK, EventTypes, taskVars, stageVars, chanVars, srvVars, eventVars, idleVars, uiVars
<1>16. IdleTypes'
  BY DEF RetrySucceeded, TypeOK, IdleTypes, taskVars, stageVars, chanVars, srvVars, eventVars, idleVars, uiVars
<1> QED
  BY <1>10, <1>11, <1>12, <1>13, <1>14, <1>15, <1>16 DEF TypeOK

LEMMA RetryFailedType ==
    ASSUME TypeOK, NEW r \in 0..MaxRetries, RetryFailed(r)
    PROVE  TypeOK'
<1>10. TaskTypes'
  <2>1. Backoff(r) \in Futures
    <3>1. r \in Nat
      BY RetriesAssumption
    <3> QED BY <3>1, FutureTypes
  <2> QED BY <2>1, Zenon DEF RetryFailed, TypeOK, TaskTypes
<1>11. StageTypes'
  BY DEF RetryFailed, TypeOK, StageTypes, taskVars, stageVars, chanVars, srvVars, eventVars, idleVars, uiVars
<1>12. ChanTypes'
  BY DEF RetryFailed, TypeOK, ChanTypes, taskVars, stageVars, chanVars, srvVars, eventVars, idleVars, uiVars
<1>13. SrvTypes'
  BY DEF RetryFailed, TypeOK, SrvTypes, taskVars, stageVars, chanVars, srvVars, eventVars, idleVars, uiVars
<1>14. EventTypes'
  BY DEF RetryFailed, TypeOK, EventTypes, taskVars, stageVars, chanVars, srvVars, eventVars, idleVars, uiVars
<1>15. IdleTypes'
  BY DEF RetryFailed, TypeOK, IdleTypes, taskVars, stageVars, chanVars, srvVars, eventVars, idleVars, uiVars
<1>16. UiTypes'
  BY DEF RetryFailed, TypeOK, UiTypes, taskVars, stageVars, chanVars, srvVars, eventVars, idleVars, uiVars
<1> QED
  BY <1>10, <1>11, <1>12, <1>13, <1>14, <1>15, <1>16 DEF TypeOK

LEMMA BackoffElapsedType ==
    ASSUME TypeOK, NEW r \in 0..MaxRetries, BackoffElapsed(r)
    PROVE  TypeOK'
<1>10. TaskTypes'
  <2>1. Retry(r - 1) \in Futures
    <3>1. r - 1 \in Nat
      BY RetriesAssumption DEF BackoffElapsed
    <3> QED BY <3>1, FutureTypes
  <2> QED BY <2>1, Zenon DEF BackoffElapsed, TypeOK, TaskTypes
<1>11. StageTypes'
  BY DEF BackoffElapsed, TypeOK, StageTypes, taskVars, stageVars, chanVars, srvVars, eventVars, idleVars, uiVars
<1>12. ChanTypes'
  BY DEF BackoffElapsed, TypeOK, ChanTypes, taskVars, stageVars, chanVars, srvVars, eventVars, idleVars, uiVars
<1>13. SrvTypes'
  BY DEF BackoffElapsed, TypeOK, SrvTypes, taskVars, stageVars, chanVars, srvVars, eventVars, idleVars, uiVars
<1>14. EventTypes'
  BY DEF BackoffElapsed, TypeOK, EventTypes, taskVars, stageVars, chanVars, srvVars, eventVars, idleVars, uiVars
<1>15. IdleTypes'
  BY DEF BackoffElapsed, TypeOK, IdleTypes, taskVars, stageVars, chanVars, srvVars, eventVars, idleVars, uiVars
<1>16. UiTypes'
  BY DEF BackoffElapsed, TypeOK, UiTypes, taskVars, stageVars, chanVars, srvVars, eventVars, idleVars, uiVars
<1> QED
  BY <1>10, <1>11, <1>12, <1>13, <1>14, <1>15, <1>16 DEF TypeOK

LEMMA RetriesExhaustedType ==
    ASSUME TypeOK, RetriesExhausted
    PROVE  TypeOK'
<1>1. CloseWithoutReconnection
  BY DEF RetriesExhausted
<1>2. stage' = "Finished" /\ running' \subseteq running /\ open' \in [Conduits -> BOOLEAN]
  BY <1>1, CloseFacts
<1>10. StageTypes'
  BY <1>2 DEF RetriesExhausted, TypeOK, StageTypes, Stages
<1>11. TaskTypes'
  BY <1>2, Zenon DEF RetriesExhausted, TypeOK, TaskTypes
<1>12. ChanTypes'
  BY <1>2, Zenon DEF RetriesExhausted, TypeOK, ChanTypes
<1>13. SrvTypes'
  BY DEF RetriesExhausted, TypeOK, SrvTypes, taskVars, stageVars, chanVars, srvVars, eventVars, idleVars, uiVars
<1>14. EventTypes'
  BY DEF RetriesExhausted, TypeOK, EventTypes, taskVars, stageVars, chanVars, srvVars, eventVars, idleVars, uiVars
<1>15. IdleTypes'
  BY DEF RetriesExhausted, TypeOK, IdleTypes, taskVars, stageVars, chanVars, srvVars, eventVars, idleVars, uiVars
<1>16. UiTypes'
  BY DEF RetriesExhausted, TypeOK, UiTypes, taskVars, stageVars, chanVars, srvVars, eventVars, idleVars, uiVars
<1> QED
  BY <1>10, <1>11, <1>12, <1>13, <1>14, <1>15, <1>16 DEF TypeOK

LEMMA DeliverType ==
    ASSUME TypeOK, LogInv, NEW c \in Conduits, Deliver(c)
    PROVE  TypeOK'
<1>10. SrvTypes'
  <2> DEFINE m == Head(chan[c])
  <2>1. m \in Msgs
    BY DEF Deliver, TypeOK, ChanTypes
  <2>2. srvOpen' \in [Conduits -> BOOLEAN]
    <3>1. [d \in Conduits |-> d = c] \in [Conduits -> BOOLEAN]
      BY Zenon
    <3> QED BY <3>1, Zenon DEF Deliver, TypeOK, SrvTypes
  <2>3. reply' \in [Conduits -> Replies]
    BY DEF Deliver, TypeOK, SrvTypes, Replies
  <2>4. resume' \in [Conduits -> Nat]
    <3> DEFINE k == CHOOSE k \in 0..EventNo : k \notin srvEvents /\ \A n \in 0..(k - 1) : n \in srvEvents
    <3>1. resume' = resume \/ resume' = [resume EXCEPT ![c] = k]
      BY Zenon DEF Deliver
    <3>2. \E j \in 0..EventNo : j \notin srvEvents /\ \A n \in 0..(j - 1) : n \in srvEvents
      BY DEF LogInv, LogShape
    <3>3. k \in 0..EventNo
      BY <3>2, Zenon
    <3>4. k \in Nat
      <4> HIDE DEF k
      <4> QED BY <3>3 DEF TypeOK, EventTypes, EventNo
    <3> HIDE DEF k
    <3> QED BY <3>1, <3>4 DEF TypeOK, SrvTypes
  <2>5. srvEvents' \subseteq Nat
    <3>1. srvEvents' \in {srvEvents, srvEvents \cup {m.no}}
      BY Zenon DEF Deliver
    <3>2. m.no \in Nat
      BY <2>1 DEF Msgs
    <3> HIDE DEF m
    <3> QED BY <3>1, <3>2 DEF TypeOK, SrvTypes
  <2>6. srvEnded' \in BOOLEAN
    BY Zenon DEF Deliver, TypeOK, SrvTypes
  <2> QED BY <2>2, <2>3, <2>4, <2>5, <2>6 DEF SrvTypes
<1>11. StageTypes'
  BY DEF Deliver, TypeOK, StageTypes, taskVars, stageVars, chanVars, srvVars, eventVars, idleVars, uiVars
<1>12. TaskTypes'
  BY DEF Deliver, TypeOK, TaskTypes, taskVars, stageVars, chanVars, srvVars, eventVars, idleVars, uiVars
<1>13. ChanTypes'
  BY DEF Deliver, TypeOK, ChanTypes, taskVars, stageVars, chanVars, srvVars, eventVars, idleVars, uiVars
<1>14. EventTypes'
  BY DEF Deliver, TypeOK, EventTypes, taskVars, stageVars, chanVars, srvVars, eventVars, idleVars, uiVars
<1>15. IdleTypes'
  BY DEF Deliver, TypeOK, IdleTypes, taskVars, stageVars, chanVars, srvVars, eventVars, idleVars, uiVars
<1>16. UiTypes'
  BY DEF Deliver, TypeOK, UiTypes, taskVars, stageVars, chanVars, srvVars, eventVars, idleVars, uiVars
<1> QED
  BY <1>10, <1>11, <1>12, <1>13, <1>14, <1>15, <1>16 DEF TypeOK

LEMMA SendTaskEndsType ==
    ASSUME TypeOK, NEW c \in Conduits, SendTaskEnds(c)
    PROVE  TypeOK'
<1>10. ChanTypes'
  BY DEF SendTaskEnds, TypeOK, ChanTypes, Socks
<1>11. StageTypes'
  BY DEF SendTaskEnds, TypeOK, StageTypes, taskVars, stageVars, chanVars, srvVars, eventVars, idleVars, uiVars
<1>12. TaskTypes'
  BY DEF SendTaskEnds, TypeOK, TaskTypes, taskVars, stageVars, chanVars, srvVars, eventVars, idleVars, uiVars
<1>13. SrvTypes'
  BY DEF SendTaskEnds, TypeOK, SrvTypes, taskVars, stageVars, chanVars, srvVars, eventVars, idleVars, uiVars
<1>14. EventTypes'
  BY DEF SendTaskEnds, TypeOK, EventTypes, taskVars, stageVars, chanVars, srvVars, eventVars, idleVars, uiVars
<1>15. IdleTypes'
  BY DEF SendTaskEnds, TypeOK, IdleTypes, taskVars, stageVars, chanVars, srvVars, eventVars, idleVars, uiVars
<1>16. UiTypes'
  BY DEF SendTaskEnds, TypeOK, UiTypes, taskVars, stageVars, chanVars, srvVars, eventVars, idleVars, uiVars
<1> QED
  BY <1>10, <1>11, <1>12, <1>13, <1>14, <1>15, <1>16 DEF TypeOK

LEMMA SendTaskFailsType ==
    ASSUME TypeOK, NEW c \in Conduits, SendTaskFails(c)
    PROVE  TypeOK'
<1>10. TaskTypes'
  <2>1. Result(SendTask(c), FALSE) \in [future : Futures, ok : BOOLEAN]
    BY ConduitFacts, FutureTypes
  <2> QED BY <2>1, Zenon DEF SendTaskFails, TypeOK, TaskTypes
<1>11. ChanTypes'
  BY DEF SendTaskFails, TypeOK, ChanTypes, Socks
<1>12. StageTypes'
  BY DEF SendTaskFails, TypeOK, StageTypes, taskVars, stageVars, chanVars, srvVars, eventVars, idleVars, uiVars
<1>13. SrvTypes'
  BY DEF SendTaskFails, TypeOK, SrvTypes, taskVars, stageVars, chanVars, srvVars, eventVars, idleVars, uiVars
<1>14. EventTypes'
  BY DEF SendTaskFails, TypeOK, EventTypes, taskVars, stageVars, chanVars, srvVars, eventVars, idleVars, uiVars
<1>15. IdleTypes'
  BY DEF SendTaskFails, TypeOK, IdleTypes, taskVars, stageVars, chanVars, srvVars, eventVars, idleVars, uiVars
<1>16. UiTypes'
  BY DEF SendTaskFails, TypeOK, UiTypes, taskVars, stageVars, chanVars, srvVars, eventVars, idleVars, uiVars
<1> QED
  BY <1>10, <1>11, <1>12, <1>13, <1>14, <1>15, <1>16 DEF TypeOK

LEMMA SendTaskFailureReportedType ==
    ASSUME TypeOK, NEW c \in Conduits, SendTaskFailureReported(c)
    PROVE  TypeOK'
<1>1. StartupFailure(TRUE) \/ UNCHANGED startupVars
  BY DEF SendTaskFailureReported
<1>2. /\ stage' \in {stage, "Finished"} /\ attempt' \in Attempts /\ tx' \in Conduits
      /\ open' \in [Conduits -> BOOLEAN] /\ running' \subseteq Futures
      /\ idleArmed' \in BOOLEAN /\ outcomes' \in Seq({"created", "failed"})
  BY <1>1, StartupVarsFacts, Zenon
<1>10. StageTypes'
  BY <1>2 DEF SendTaskFailureReported, TypeOK, StageTypes, Stages
<1>11. TaskTypes'
  BY <1>2 DEF SendTaskFailureReported, TypeOK, TaskTypes
<1>12. ChanTypes'
  BY <1>2 DEF SendTaskFailureReported, TypeOK, ChanTypes
<1>13. IdleTypes'
  BY <1>2, Zenon DEF SendTaskFailureReported, TypeOK, IdleTypes
<1>14. UiTypes'
  BY <1>2, Zenon DEF SendTaskFailureReported, TypeOK, UiTypes
<1>15. SrvTypes'
  BY DEF SendTaskFailureReported, TypeOK, SrvTypes, taskVars, stageVars, chanVars, srvVars,
         eventVars, idleVars, uiVars
<1>16. EventTypes'
  BY DEF SendTaskFailureReported, TypeOK, EventTypes, taskVars, stageVars, chanVars, srvVars,
         eventVars, idleVars, uiVars
<1> QED
  BY <1>10, <1>11, <1>12, <1>13, <1>14, <1>15, <1>16 DEF TypeOK

LEMMA ServerClosesType ==
    ASSUME TypeOK, NEW c \in Conduits, ServerCloses(c)
    PROVE  TypeOK'
<1>10. StageTypes'
  BY DEF ServerCloses, TypeOK, StageTypes, taskVars, stageVars, chanVars, srvVars, eventVars, idleVars, uiVars
<1>11. TaskTypes'
  BY DEF ServerCloses, TypeOK, TaskTypes, taskVars, stageVars, chanVars, srvVars, eventVars, idleVars, uiVars
<1>12. ChanTypes'
  BY DEF ServerCloses, TypeOK, ChanTypes, taskVars, stageVars, chanVars, srvVars, eventVars, idleVars, uiVars
<1>13. SrvTypes'
  BY DEF ServerCloses, TypeOK, SrvTypes, taskVars, stageVars, chanVars, srvVars, eventVars, idleVars, uiVars
<1>14. EventTypes'
  BY DEF ServerCloses, TypeOK, EventTypes, taskVars, stageVars, chanVars, srvVars, eventVars, idleVars, uiVars
<1>15. IdleTypes'
  BY DEF ServerCloses, TypeOK, IdleTypes, taskVars, stageVars, chanVars, srvVars, eventVars, idleVars, uiVars
<1>16. UiTypes'
  BY DEF ServerCloses, TypeOK, UiTypes, taskVars, stageVars, chanVars, srvVars, eventVars, idleVars, uiVars
<1> QED
  BY <1>10, <1>11, <1>12, <1>13, <1>14, <1>15, <1>16 DEF TypeOK

LEMMA StreamEndsFacts ==
    ASSUME TypeOK, NEW c \in Conduits, StreamEnds(c)
    PROVE  /\ stage' \in {stage, "Finished", "Reconnecting"} /\ attempt' \in Attempts
           /\ tx' \in Conduits /\ open' \in [Conduits -> BOOLEAN] /\ running' \subseteq Futures
           /\ idleArmed' \in BOOLEAN /\ outcomes' \in Seq({"created", "failed"})
<1>1. CASE StartupFailure(TRUE) \/ UNCHANGED startupVars
  BY <1>1, StartupVarsFacts, Zenon
<1>2. CASE /\ open' = Closed(tx) /\ ReconnectWebsocket
           /\ UNCHANGED <<attempt, tx, idleArmed, outcomes>>
  <2>1. stage' \in {stage, "Reconnecting"} /\ running' \subseteq Futures
    BY <1>2, ReconnectFacts
  <2> QED BY <1>2, <2>1, ClosedType, Zenon DEF TypeOK, StageTypes, ChanTypes, IdleTypes, UiTypes
<1>3. CASE /\ open' = Closed(tx) /\ running' = RunningAfterClose
           /\ UNCHANGED <<stage, attempt, tx, idleArmed, outcomes>>
  BY <1>3, ClosedType, Zenon DEF RunningAfterClose, TypeOK, StageTypes, TaskTypes, ChanTypes,
     IdleTypes, UiTypes
<1> QED
  BY <1>1, <1>2, <1>3 DEF StreamEnds

LEMMA StreamEndsType ==
    ASSUME TypeOK, NEW c \in Conduits, StreamEnds(c)
    PROVE  TypeOK'
<1>2. /\ stage' \in {stage, "Finished", "Reconnecting"} /\ attempt' \in Attempts
      /\ tx' \in Conduits /\ open' \in [Conduits -> BOOLEAN] /\ running' \subseteq Futures
      /\ idleArmed' \in BOOLEAN /\ outcomes' \in Seq({"created", "failed"})
  BY StreamEndsFacts, Zenon
<1>10. StageTypes'
  BY <1>2 DEF StreamEnds, TypeOK, StageTypes, Stages
<1>11. TaskTypes'
  BY <1>2 DEF StreamEnds, TypeOK, TaskTypes
<1>12. ChanTypes'
  <2>1. sock' = [sock EXCEPT ![c] = "ended"] /\ chan' = [chan EXCEPT ![c] = <<>>]
    BY DEF StreamEnds
  <2> QED BY <1>2, <2>1 DEF TypeOK, ChanTypes, Socks
<1>13. IdleTypes'
  BY <1>2, Zenon DEF StreamEnds, TypeOK, IdleTypes
<1>14. UiTypes'
  BY <1>2, Zenon DEF StreamEnds, TypeOK, UiTypes
<1>15. SrvTypes'
  BY DEF StreamEnds, TypeOK, SrvTypes, taskVars, stageVars, chanVars, srvVars, eventVars, idleVars, uiVars
<1>16. EventTypes'
  BY DEF StreamEnds, TypeOK, EventTypes, taskVars, stageVars, chanVars, srvVars, eventVars, idleVars, uiVars
<1> QED
  BY <1>10, <1>11, <1>12, <1>13, <1>14, <1>15, <1>16 DEF TypeOK

LEMMA StreamErrorType ==
    ASSUME TypeOK, NEW c \in Conduits, StreamError(c)
    PROVE  TypeOK'
<1>1. StartupFailure(TRUE) \/ UNCHANGED startupVars
  BY DEF StreamError
<1>2. /\ stage' \in {stage, "Finished"} /\ attempt' \in Attempts /\ tx' \in Conduits
      /\ open' \in [Conduits -> BOOLEAN] /\ running' \subseteq Futures
      /\ idleArmed' \in BOOLEAN /\ outcomes' \in Seq({"created", "failed"})
  BY <1>1, StartupVarsFacts, Zenon
<1>10. StageTypes'
  BY <1>2 DEF StreamError, TypeOK, StageTypes, Stages
<1>11. TaskTypes'
  BY <1>2 DEF StreamError, TypeOK, TaskTypes
<1>12. ChanTypes'
  BY <1>2 DEF StreamError, TypeOK, ChanTypes
<1>13. IdleTypes'
  BY <1>2, Zenon DEF StreamError, TypeOK, IdleTypes
<1>14. UiTypes'
  BY <1>2, Zenon DEF StreamError, TypeOK, UiTypes
<1>15. SrvTypes'
  BY DEF StreamError, TypeOK, SrvTypes, taskVars, stageVars, chanVars, srvVars, eventVars, idleVars, uiVars
<1>16. EventTypes'
  BY DEF StreamError, TypeOK, EventTypes, taskVars, stageVars, chanVars, srvVars, eventVars, idleVars, uiVars
<1> QED
  BY <1>10, <1>11, <1>12, <1>13, <1>14, <1>15, <1>16 DEF TypeOK

LEMMA SessionInitializedType ==
    ASSUME IInv, NEW c \in Conduits, SessionInitialized(c)
    PROVE  TypeOK'
<1> TypeOK
  BY DEF IInv
<1>10. StageTypes'
  <2>1. winner' \in {winner, attempt} /\ stage' \in Stages /\ attempt' = attempt
    BY DEF SessionInitialized, Stages, TypeOK, StageTypes
  <2>2. attempt \in 0..MaxAttempts
    BY AttemptsAssumption DEF TypeOK, StageTypes, Attempts
  <2>3. hasToken' \in BOOLEAN
    BY Zenon DEF SessionInitialized, TypeOK, StageTypes
  <2> QED BY <2>1, <2>2, <2>3 DEF StageTypes, TypeOK
<1>11. ChanTypes'
  <2>1. CASE chan' = chan
    BY <2>1, Zenon DEF SessionInitialized, TypeOK, ChanTypes
  <2>2. CASE stage = "BeforeStarted" /\ chan' = Queued(tx, Flush(0))
    <3>1. Flush(0) \in Seq(Msgs)
      BY <2>2, StartFlush
    <3>2. chan' \in [Conduits -> Seq(Msgs)]
      BY <2>2, <3>1, QueuedType DEF TypeOK, ChanTypes
    <3> QED BY <3>2, Zenon DEF SessionInitialized, TypeOK, ChanTypes
  <2> QED BY <2>1, <2>2, Zenon DEF SessionInitialized
<1>12. SrvTypes'
  BY DEF SessionInitialized, Consume, Replies, TypeOK, SrvTypes
<1>13. IdleTypes'
  BY Zenon DEF SessionInitialized, MessageArrives, TypeOK, IdleTypes
<1>14. TaskTypes'
  BY DEF SessionInitialized, TypeOK, TaskTypes, taskVars, stageVars, chanVars, srvVars, eventVars, idleVars, uiVars
<1>15. EventTypes'
  BY DEF SessionInitialized, TypeOK, EventTypes, taskVars, stageVars, chanVars, srvVars, eventVars, idleVars, uiVars
<1>16. UiTypes'
  BY DEF SessionInitialized, TypeOK, UiTypes, taskVars, stageVars, chanVars, srvVars, eventVars, idleVars, uiVars
<1> QED
  BY <1>10, <1>11, <1>12, <1>13, <1>14, <1>15, <1>16 DEF TypeOK

LEMMA FailedToInitializeFacts ==
    ASSUME TypeOK, NEW c \in Conduits, FailedToInitialize(c)
    PROVE  /\ stage' \in {stage, "Finished"} /\ attempt' \in Attempts /\ tx' \in Conduits
           /\ open' \in [Conduits -> BOOLEAN] /\ running' \subseteq Futures
           /\ idleArmed' \in BOOLEAN /\ outcomes' \in Seq({"created", "failed"})
<1>1. CASE StartupFailure(reply[c] = "busy")
  BY <1>1, StartupVarsFacts, Zenon
<1>2. CASE /\ MessageArrives(c)
           /\ UNCHANGED <<stage, attempt, tx, open, running, outcomes>>
  BY <1>2, Zenon DEF MessageArrives, TypeOK, StageTypes, TaskTypes, ChanTypes, IdleTypes, UiTypes
<1> QED
  BY <1>1, <1>2, Zenon DEF FailedToInitialize

LEMMA FailedToInitializeType ==
    ASSUME TypeOK, NEW c \in Conduits, FailedToInitialize(c)
    PROVE  TypeOK'
<1>2. /\ stage' \in {stage, "Finished"} /\ attempt' \in Attempts /\ tx' \in Conduits
      /\ open' \in [Conduits -> BOOLEAN] /\ running' \subseteq Futures
      /\ idleArmed' \in BOOLEAN /\ outcomes' \in Seq({"created", "failed"})
  BY FailedToInitializeFacts, Zenon
<1>10. StageTypes'
  BY <1>2 DEF FailedToInitialize, TypeOK, StageTypes, Stages
<1>11. TaskTypes'
  BY <1>2 DEF FailedToInitialize, TypeOK, TaskTypes
<1>12. ChanTypes'
  BY <1>2 DEF FailedToInitialize, TypeOK, ChanTypes
<1>13. SrvTypes'
  BY DEF FailedToInitialize, Consume, Replies, TypeOK, SrvTypes
<1>14. IdleTypes'
  BY <1>2, Zenon DEF FailedToInitialize, TypeOK, IdleTypes
<1>15. UiTypes'
  BY <1>2, Zenon DEF FailedToInitialize, TypeOK, UiTypes
<1>16. EventTypes'
  BY DEF FailedToInitialize, TypeOK, EventTypes, taskVars, stageVars, chanVars, srvVars, eventVars, idleVars, uiVars
<1> QED
  BY <1>10, <1>11, <1>12, <1>13, <1>14, <1>15, <1>16 DEF TypeOK

LEMMA SessionReconnectedType ==
    ASSUME IInv, NEW c \in Conduits, SessionReconnected(c)
    PROVE  TypeOK'
<1> TypeOK
  BY DEF IInv
<1>10. StageTypes'
  <2>1. 0 \in 0..MaxAttempts
    BY AttemptsAssumption
  <2> QED BY <2>1 DEF SessionReconnected, TypeOK, StageTypes, Stages
<1>11. ChanTypes'
  <2>1. CASE chan' = chan
    BY <2>1, Zenon DEF SessionReconnected, TypeOK, ChanTypes
  <2>2. CASE stage = "Reconnecting" /\ chan' = Queued(tx, Flush(resume[c]))
    <3>1. Flush(resume[c]) \in Seq(Msgs)
      BY <2>2, ResumeFlush DEF SessionReconnected
    <3>2. chan' \in [Conduits -> Seq(Msgs)]
      BY <2>2, <3>1, QueuedType DEF TypeOK, ChanTypes
    <3> QED BY <3>2, Zenon DEF SessionReconnected, TypeOK, ChanTypes
  <2> QED BY <2>1, <2>2, Zenon DEF SessionReconnected
<1>12. SrvTypes'
  BY DEF SessionReconnected, Consume, Replies, TypeOK, SrvTypes
<1>13. IdleTypes'
  BY Zenon DEF SessionReconnected, MessageArrives, TypeOK, IdleTypes
<1>14. TaskTypes'
  BY DEF SessionReconnected, TypeOK, TaskTypes, taskVars, stageVars, chanVars, srvVars, eventVars, idleVars, uiVars
<1>15. EventTypes'
  BY DEF SessionReconnected, TypeOK, EventTypes, taskVars, stageVars, chanVars, srvVars, eventVars, idleVars, uiVars
<1>16. UiTypes'
  BY DEF SessionReconnected, TypeOK, UiTypes, taskVars, stageVars, chanVars, srvVars, eventVars, idleVars, uiVars
<1> QED
  BY <1>10, <1>11, <1>12, <1>13, <1>14, <1>15, <1>16 DEF TypeOK

LEMMA FailedToReconnectType ==
    ASSUME TypeOK, NEW c \in Conduits, FailedToReconnect(c)
    PROVE  TypeOK'
<1>1. CloseWithoutReconnection
  BY DEF FailedToReconnect
<1>2. stage' = "Finished" /\ running' \subseteq running /\ open' \in [Conduits -> BOOLEAN]
  BY <1>1, CloseFacts
<1>10. StageTypes'
  BY <1>2 DEF FailedToReconnect, TypeOK, StageTypes, Stages
<1>11. TaskTypes'
  BY <1>2, Zenon DEF FailedToReconnect, TypeOK, TaskTypes
<1>12. ChanTypes'
  BY <1>2, Zenon DEF FailedToReconnect, TypeOK, ChanTypes
<1>13. SrvTypes'
  BY DEF FailedToReconnect, Consume, Replies, TypeOK, SrvTypes
<1>14. IdleTypes'
  BY Zenon DEF FailedToReconnect, MessageArrives, TypeOK, IdleTypes
<1>15. EventTypes'
  BY DEF FailedToReconnect, TypeOK, EventTypes, taskVars, stageVars, chanVars, srvVars, eventVars, idleVars, uiVars
<1>16. UiTypes'
  BY DEF FailedToReconnect, TypeOK, UiTypes, taskVars, stageVars, chanVars, srvVars, eventVars, idleVars, uiVars
<1> QED
  BY <1>10, <1>11, <1>12, <1>13, <1>14, <1>15, <1>16 DEF TypeOK

LEMMA SessionTerminatedType ==
    ASSUME TypeOK, NEW c \in Conduits, SessionTerminated(c)
    PROVE  TypeOK'
<1>2. /\ stage' \in {stage, "Finished"} /\ running' \subseteq running
      /\ open' \in [Conduits -> BOOLEAN]
  BY CloseFacts DEF SessionTerminated, TypeOK, ChanTypes
<1>10. StageTypes'
  BY <1>2 DEF SessionTerminated, TypeOK, StageTypes, Stages
<1>11. TaskTypes'
  BY <1>2, Zenon DEF SessionTerminated, TypeOK, TaskTypes
<1>12. ChanTypes'
  BY <1>2, Zenon DEF SessionTerminated, TypeOK, ChanTypes
<1>13. IdleTypes'
  BY Zenon DEF SessionTerminated, MessageArrives, TypeOK, IdleTypes
<1>14. SrvTypes'
  BY DEF SessionTerminated, TypeOK, SrvTypes, taskVars, stageVars, chanVars, srvVars, eventVars, idleVars, uiVars
<1>15. EventTypes'
  BY DEF SessionTerminated, TypeOK, EventTypes, taskVars, stageVars, chanVars, srvVars, eventVars, idleVars, uiVars
<1>16. UiTypes'
  BY DEF SessionTerminated, TypeOK, UiTypes, taskVars, stageVars, chanVars, srvVars, eventVars, idleVars, uiVars
<1> QED
  BY <1>10, <1>11, <1>12, <1>13, <1>14, <1>15, <1>16 DEF TypeOK

LEMMA EventsProcessedAckType ==
    ASSUME TypeOK, NEW c \in Conduits, NEW n \in srvEvents, EventsProcessedAck(c, n)
    PROVE  TypeOK'
<1>10. IdleTypes'
  BY Zenon DEF EventsProcessedAck, MessageArrives, TypeOK, IdleTypes
<1>11. StageTypes'
  BY DEF EventsProcessedAck, TypeOK, StageTypes, taskVars, stageVars, chanVars, srvVars, eventVars, idleVars, uiVars
<1>12. TaskTypes'
  BY DEF EventsProcessedAck, TypeOK, TaskTypes, taskVars, stageVars, chanVars, srvVars, eventVars, idleVars, uiVars
<1>13. ChanTypes'
  BY DEF EventsProcessedAck, TypeOK, ChanTypes, taskVars, stageVars, chanVars, srvVars, eventVars, idleVars, uiVars
<1>14. SrvTypes'
  BY DEF EventsProcessedAck, TypeOK, SrvTypes, taskVars, stageVars, chanVars, srvVars, eventVars, idleVars, uiVars
<1>15. EventTypes'
  BY DEF EventsProcessedAck, TypeOK, EventTypes, taskVars, stageVars, chanVars, srvVars, eventVars, idleVars, uiVars
<1>16. UiTypes'
  BY DEF EventsProcessedAck, TypeOK, UiTypes, taskVars, stageVars, chanVars, srvVars, eventVars, idleVars, uiVars
<1> QED
  BY <1>10, <1>11, <1>12, <1>13, <1>14, <1>15, <1>16 DEF TypeOK

LEMMA OtherMessageType ==
    ASSUME TypeOK, NEW c \in Conduits, OtherMessage(c)
    PROVE  TypeOK'
<1>10. IdleTypes'
  BY Zenon DEF OtherMessage, MessageArrives, TypeOK, IdleTypes
<1>11. StageTypes'
  BY DEF OtherMessage, TypeOK, StageTypes, taskVars, stageVars, chanVars, srvVars, eventVars, idleVars, uiVars
<1>12. TaskTypes'
  BY DEF OtherMessage, TypeOK, TaskTypes, taskVars, stageVars, chanVars, srvVars, eventVars, idleVars, uiVars
<1>13. ChanTypes'
  BY DEF OtherMessage, TypeOK, ChanTypes, taskVars, stageVars, chanVars, srvVars, eventVars, idleVars, uiVars
<1>14. SrvTypes'
  BY DEF OtherMessage, TypeOK, SrvTypes, taskVars, stageVars, chanVars, srvVars, eventVars, idleVars, uiVars
<1>15. EventTypes'
  BY DEF OtherMessage, TypeOK, EventTypes, taskVars, stageVars, chanVars, srvVars, eventVars, idleVars, uiVars
<1>16. UiTypes'
  BY DEF OtherMessage, TypeOK, UiTypes, taskVars, stageVars, chanVars, srvVars, eventVars, idleVars, uiVars
<1> QED
  BY <1>10, <1>11, <1>12, <1>13, <1>14, <1>15, <1>16 DEF TypeOK

LEMMA IdleTimerElapsesType ==
    ASSUME TypeOK, IdleTimerElapses
    PROVE  TypeOK'
<1>10. StageTypes'
  BY DEF IdleTimerElapses, TypeOK, StageTypes, taskVars, stageVars, chanVars, srvVars, eventVars, idleVars, uiVars
<1>11. TaskTypes'
  BY DEF IdleTimerElapses, TypeOK, TaskTypes, taskVars, stageVars, chanVars, srvVars, eventVars, idleVars, uiVars
<1>12. ChanTypes'
  BY DEF IdleTimerElapses, TypeOK, ChanTypes, taskVars, stageVars, chanVars, srvVars, eventVars, idleVars, uiVars
<1>13. SrvTypes'
  BY DEF IdleTimerElapses, TypeOK, SrvTypes, taskVars, stageVars, chanVars, srvVars, eventVars, idleVars, uiVars
<1>14. EventTypes'
  BY DEF IdleTimerElapses, TypeOK, EventTypes, taskVars, stageVars, chanVars, srvVars, eventVars, idleVars, uiVars
<1>15. IdleTypes'
  BY DEF IdleTimerElapses, TypeOK, IdleTypes, taskVars, stageVars, chanVars, srvVars, eventVars, idleVars, uiVars
<1>16. UiTypes'
  BY DEF IdleTimerElapses, TypeOK, UiTypes, taskVars, stageVars, chanVars, srvVars, eventVars, idleVars, uiVars
<1> QED
  BY <1>10, <1>11, <1>12, <1>13, <1>14, <1>15, <1>16 DEF TypeOK

LEMMA HeartbeatIdleType ==
    ASSUME TypeOK, HeartbeatIdle
    PROVE  TypeOK'
<1>1. stage' \in {stage, "Reconnecting"} /\ running' \subseteq Futures
  BY ReconnectFacts DEF HeartbeatIdle
<1>10. StageTypes'
  BY <1>1 DEF HeartbeatIdle, TypeOK, StageTypes, Stages
<1>11. TaskTypes'
  BY <1>1, Zenon DEF HeartbeatIdle, TypeOK, TaskTypes
<1>12. ChanTypes'
  BY DEF HeartbeatIdle, TypeOK, ChanTypes, taskVars, stageVars, chanVars, srvVars, eventVars, idleVars, uiVars
<1>13. SrvTypes'
  BY DEF HeartbeatIdle, TypeOK, SrvTypes, taskVars, stageVars, chanVars, srvVars, eventVars, idleVars, uiVars
<1>14. EventTypes'
  BY DEF HeartbeatIdle, TypeOK, EventTypes, taskVars, stageVars, chanVars, srvVars, eventVars, idleVars, uiVars
<1>15. IdleTypes'
  BY DEF HeartbeatIdle, TypeOK, IdleTypes, taskVars, stageVars, chanVars, srvVars, eventVars, idleVars, uiVars
<1>16. UiTypes'
  BY DEF HeartbeatIdle, TypeOK, UiTypes, taskVars, stageVars, chanVars, srvVars, eventVars, idleVars, uiVars
<1> QED
  BY <1>10, <1>11, <1>12, <1>13, <1>14, <1>15, <1>16 DEF TypeOK

LEMMA PtyBytesReadType ==
    ASSUME TypeOK, PtyBytesRead
    PROVE  TypeOK'
<1>10. EventTypes'
  <2>1. inputs + 1 \in 0..MaxInputs /\ inputs + 1 \in Nat
    BY BoundsAssumption DEF PtyBytesRead, TypeOK, EventTypes
  <2>2. batch' \in Seq(Nat)
    BY <2>1 DEF PtyBytesRead, TypeOK, EventTypes
  <2> QED BY <2>1, <2>2, Zenon DEF PtyBytesRead, TypeOK, EventTypes
<1>11. StageTypes'
  BY DEF PtyBytesRead, TypeOK, StageTypes, taskVars, stageVars, chanVars, srvVars, eventVars, idleVars, uiVars
<1>12. TaskTypes'
  BY DEF PtyBytesRead, TypeOK, TaskTypes, taskVars, stageVars, chanVars, srvVars, eventVars, idleVars, uiVars
<1>13. ChanTypes'
  BY DEF PtyBytesRead, TypeOK, ChanTypes, taskVars, stageVars, chanVars, srvVars, eventVars, idleVars, uiVars
<1>14. SrvTypes'
  BY DEF PtyBytesRead, TypeOK, SrvTypes, taskVars, stageVars, chanVars, srvVars, eventVars, idleVars, uiVars
<1>15. IdleTypes'
  BY DEF PtyBytesRead, TypeOK, IdleTypes, taskVars, stageVars, chanVars, srvVars, eventVars, idleVars, uiVars
<1>16. UiTypes'
  BY DEF PtyBytesRead, TypeOK, UiTypes, taskVars, stageVars, chanVars, srvVars, eventVars, idleVars, uiVars
<1> QED
  BY <1>10, <1>11, <1>12, <1>13, <1>14, <1>15, <1>16 DEF TypeOK

LEMMA OtherTerminalEventType ==
    ASSUME TypeOK, OtherTerminalEvent
    PROVE  TypeOK'
<1>1. PICK ps \in Seq(Seq(Nat)) : SendOrdered(ps)
  <2>1. /\ batch \in Seq(Nat) /\ inputs + 1 \in Nat
    BY DEF TypeOK, EventTypes
  <2>2. <<inputs + 1>> \in Seq(Nat)
    BY <2>1
  <2> DEFINE x == <<inputs + 1>>
  <2>3. SendOrdered(IF batch = <<>> THEN <<x>> ELSE <<batch, x>>)
    BY Zenon DEF OtherTerminalEvent
  <2> HIDE DEF x
  <2>4. <<x>> \in Seq(Seq(Nat)) /\ <<batch, x>> \in Seq(Seq(Nat))
    BY <2>1, <2>2 DEF x
  <2> QED BY <2>3, <2>4, Zenon
<1>2. /\ numBytes' \in Nat /\ events' \in Seq(Seq(Nat)) /\ EventNo' \in Nat /\ EventNo \in Nat
      /\ unacked' = unacked \cup (EventNo..(EventNo' - 1))
      /\ stage' \in {stage, "Finished"} /\ running' \subseteq running
      /\ open' \in [Conduits -> BOOLEAN]
  BY <1>1, SendOrderedFacts, Zenon
<1>3. endAsked' \in BOOLEAN
  BY <1>1, SendOrderedFacts, Zenon
<1>4. chan' \in [Conduits -> Seq(Msgs)]
  <2>1. chan' = chan \/ \E ms : SentFrom(ms, EventNo, EventNo') /\ chan' = Queued(tx, ms)
    BY <1>1, SendOrderedFacts, Zenon
  <2>2. ASSUME NEW ms, SentFrom(ms, EventNo, EventNo'), chan' = Queued(tx, ms)
        PROVE  chan' \in [Conduits -> Seq(Msgs)]
    BY <2>2, QueuedType DEF SentFrom, TypeOK, ChanTypes
  <2> QED BY <2>1, <2>2, Zenon DEF TypeOK, ChanTypes
<1>5. unacked' \subseteq Nat
  <2>1. EventNo..(EventNo' - 1) \subseteq Nat
    BY <1>2, RangeNat, Zenon
  <2> QED BY <1>2, <2>1, Zenon DEF TypeOK, EventTypes
<1>10. StageTypes'
  BY <1>2 DEF OtherTerminalEvent, TypeOK, StageTypes, Stages
<1>11. TaskTypes'
  BY <1>2, Zenon DEF OtherTerminalEvent, TypeOK, TaskTypes
<1>12. ChanTypes'
  BY <1>2, <1>4, Zenon DEF OtherTerminalEvent, TypeOK, ChanTypes
<1>13. EventTypes'
  <2>1. batch' \in Seq(Nat)
    BY DEF OtherTerminalEvent
  <2>2. inputs' \in 0..MaxInputs
    BY BoundsAssumption DEF OtherTerminalEvent, TypeOK, EventTypes
  <2> QED BY <1>2, <1>5, <2>1, <2>2 DEF EventTypes
<1>14. UiTypes'
  BY <1>3, Zenon DEF OtherTerminalEvent, TypeOK, UiTypes
<1>15. SrvTypes'
  BY DEF OtherTerminalEvent, TypeOK, SrvTypes, taskVars, stageVars, chanVars, srvVars, eventVars, idleVars, uiVars
<1>16. IdleTypes'
  BY DEF OtherTerminalEvent, TypeOK, IdleTypes, taskVars, stageVars, chanVars, srvVars, eventVars, idleVars, uiVars
<1> QED
  BY <1>10, <1>11, <1>12, <1>13, <1>14, <1>15, <1>16 DEF TypeOK

LEMMA BatchTimerFiresType ==
    ASSUME TypeOK, BatchTimerFires
    PROVE  TypeOK'
<1>1. PICK ps \in Seq(Seq(Nat)) : SendOrdered(ps)
  <2>1. batch \in Seq(Nat)
    BY DEF TypeOK, EventTypes
  <2>2. <<batch>> \in Seq(Seq(Nat))
    BY <2>1
  <2> QED BY <2>2, Zenon DEF BatchTimerFires
<1>2. /\ numBytes' \in Nat /\ events' \in Seq(Seq(Nat)) /\ EventNo' \in Nat /\ EventNo \in Nat
      /\ unacked' = unacked \cup (EventNo..(EventNo' - 1))
      /\ stage' \in {stage, "Finished"} /\ running' \subseteq running
      /\ open' \in [Conduits -> BOOLEAN]
  BY <1>1, SendOrderedFacts, Zenon
<1>3. endAsked' \in BOOLEAN
  BY <1>1, SendOrderedFacts, Zenon
<1>4. chan' \in [Conduits -> Seq(Msgs)]
  <2>1. chan' = chan \/ \E ms : SentFrom(ms, EventNo, EventNo') /\ chan' = Queued(tx, ms)
    BY <1>1, SendOrderedFacts, Zenon
  <2>2. ASSUME NEW ms, SentFrom(ms, EventNo, EventNo'), chan' = Queued(tx, ms)
        PROVE  chan' \in [Conduits -> Seq(Msgs)]
    BY <2>2, QueuedType DEF SentFrom, TypeOK, ChanTypes
  <2> QED BY <2>1, <2>2, Zenon DEF TypeOK, ChanTypes
<1>5. unacked' \subseteq Nat
  <2>1. EventNo..(EventNo' - 1) \subseteq Nat
    BY <1>2, RangeNat, Zenon
  <2> QED BY <1>2, <2>1, Zenon DEF TypeOK, EventTypes
<1>10. StageTypes'
  BY <1>2 DEF BatchTimerFires, TypeOK, StageTypes, Stages
<1>11. TaskTypes'
  BY <1>2, Zenon DEF BatchTimerFires, TypeOK, TaskTypes
<1>12. ChanTypes'
  BY <1>2, <1>4, Zenon DEF BatchTimerFires, TypeOK, ChanTypes
<1>13. EventTypes'
  <2>1. batch' \in Seq(Nat)
    BY DEF BatchTimerFires
  <2>2. inputs' \in 0..MaxInputs
    BY BoundsAssumption DEF BatchTimerFires, TypeOK, EventTypes
  <2> QED BY <1>2, <1>5, <2>1, <2>2 DEF EventTypes
<1>14. UiTypes'
  BY <1>3, Zenon DEF BatchTimerFires, TypeOK, UiTypes
<1>15. SrvTypes'
  BY DEF BatchTimerFires, TypeOK, SrvTypes, taskVars, stageVars, chanVars, srvVars, eventVars, idleVars, uiVars
<1>16. IdleTypes'
  BY DEF BatchTimerFires, TypeOK, IdleTypes, taskVars, stageVars, chanVars, srvVars, eventVars, idleVars, uiVars
<1> QED
  BY <1>10, <1>11, <1>12, <1>13, <1>14, <1>15, <1>16 DEF TypeOK

LEMMA EndSessionType ==
    ASSUME TypeOK, EndSession
    PROVE  TypeOK'
<1>1. CloseWithoutReconnection
  BY DEF EndSession
<1>2. stage' = "Finished" /\ running' \subseteq running /\ open' \in [Conduits -> BOOLEAN]
  BY <1>1, CloseFacts
<1>10. StageTypes'
  BY <1>2 DEF EndSession, TypeOK, StageTypes, Stages
<1>11. TaskTypes'
  BY <1>2, Zenon DEF EndSession, TypeOK, TaskTypes
<1>12. ChanTypes'
  <2>1. <<Msg("EndSession", 0)>> \in Seq(Msgs)
    BY MsgTypes
  <2>2. chan' \in [Conduits -> Seq(Msgs)]
    BY <2>1, QueuedType DEF EndSession, TypeOK, ChanTypes
  <2> QED BY <1>2, <2>2, Zenon DEF EndSession, TypeOK, ChanTypes
<1>13. SrvTypes'
  BY DEF EndSession, TypeOK, SrvTypes, taskVars, stageVars, chanVars, srvVars, eventVars, idleVars, uiVars
<1>14. EventTypes'
  BY DEF EndSession, TypeOK, EventTypes, taskVars, stageVars, chanVars, srvVars, eventVars, idleVars, uiVars
<1>15. IdleTypes'
  BY DEF EndSession, TypeOK, IdleTypes, taskVars, stageVars, chanVars, srvVars, eventVars, idleVars, uiVars
<1>16. UiTypes'
  BY DEF EndSession, TypeOK, UiTypes, taskVars, stageVars, chanVars, srvVars, eventVars, idleVars, uiVars
<1> QED
  BY <1>10, <1>11, <1>12, <1>13, <1>14, <1>15, <1>16 DEF TypeOK

-----------------------------------------------------------------------------
(* Channels.                                                               *)

LEMMA OrderedMore ==
    ASSUME NEW s, NEW n \in Nat, NEW del, NEW n2 \in Nat, NEW del2, n <= n2, del \subseteq del2,
           s \in Seq(Msgs), Ordered(s, del, n)
    PROVE  Ordered(s, del2, n2)
<1> SUFFICES ASSUME NEW i \in 1..Len(s), s[i].type = "OrderedTerminalEvent"
             PROVE  s[i].no < n2 /\ \A m \in 0..(s[i].no - 1) : Before(m, s, i, del2)
  BY DEF Ordered
<1>1. s[i].no \in Nat
  <2>1. s[i] \in Msgs
    OBVIOUS
  <2> QED BY <2>1 DEF Msgs
<1>2. s[i].no < n /\ \A m \in 0..(s[i].no - 1) : Before(m, s, i, del)
  BY DEF Ordered
<1>3. \A m \in 0..(s[i].no - 1) : Before(m, s, i, del2)
  BY <1>2 DEF Before
<1> QED BY <1>1, <1>2, <1>3

LEMMA NoEventsOrdered ==
    ASSUME NEW s, NEW n, NEW del, NoEvents(s)
    PROVE  Ordered(s, del, n)
BY DEF Ordered, NoEvents

(* A control message is put behind the others. *)
LEMMA ControlAppended ==
    ASSUME NEW s \in Seq(Msgs), NEW m \in Msgs, NEW n \in Nat, NEW del,
           m.type \notin {"OrderedTerminalEvent", "Reconnect"}
    PROVE  /\ Ordered(s, del, n) => Ordered(s \o <<m>>, del, n)
           /\ NoEvents(s) => NoEvents(s \o <<m>>)
           /\ HasReconnect(s \o <<m>>) => HasReconnect(s)
           /\ HasReconnect(Tail(s \o <<m>>)) => HasReconnect(Tail(s))
<1> DEFINE t == s \o <<m>>
<1>1. t \in Seq(Msgs) /\ Len(t) = Len(s) + 1 /\ (\A i \in 1..Len(s) : t[i] = s[i])
      /\ t[Len(s) + 1] = m
  <2>1. <<m>> \in Seq(Msgs) /\ Len(<<m>>) = 1 /\ <<m>>[1] = m
    OBVIOUS
  <2> QED BY <2>1, ConcatFacts
<1>2. \A i \in 1..Len(t) : i \in 1..Len(s) \/ t[i] = m
  BY <1>1
<1> HIDE DEF t
<1>3. Ordered(s, del, n) => Ordered(t, del, n)
  <2> SUFFICES ASSUME Ordered(s, del, n), NEW i \in 1..Len(t),
                      t[i].type = "OrderedTerminalEvent"
               PROVE  t[i].no < n /\ \A k \in 0..(t[i].no - 1) : Before(k, t, i, del)
    BY DEF Ordered
  <2>1. i \in 1..Len(s) /\ t[i] = s[i]
    BY <1>1, <1>2
  <2>2. s[i].no < n /\ \A k \in 0..(s[i].no - 1) : Before(k, s, i, del)
    BY <2>1 DEF Ordered
  <2>3. \A j \in 1..(i - 1) : t[j] = s[j]
    BY <1>1, <2>1
  <2> QED BY <2>1, <2>2, <2>3 DEF Before
<1>4. NoEvents(s) => NoEvents(t)
  BY <1>1, <1>2 DEF NoEvents
<1>5. HasReconnect(t) => HasReconnect(s)
  BY <1>1, <1>2 DEF HasReconnect
<1>6. HasReconnect(Tail(t)) => HasReconnect(Tail(s))
  <2> SUFFICES ASSUME NEW i \in 1..Len(Tail(t)), Tail(t)[i].type = "Reconnect"
               PROVE  HasReconnect(Tail(s))
    BY DEF HasReconnect
  <2>1. i + 1 \in 1..Len(t) /\ Tail(t)[i] = t[i + 1]
    BY <1>1
  <2>2. i + 1 \in 1..Len(s) /\ t[i + 1] = s[i + 1]
    BY <1>1, <1>2, <2>1
  <2>3. i \in 1..Len(Tail(s)) /\ Tail(s)[i] = s[i + 1]
    BY <2>2
  <2> QED BY <2>1, <2>2, <2>3 DEF HasReconnect
<1> QED BY <1>3, <1>4, <1>5, <1>6 DEF t

(* Events from..to - 1 are put behind the others. *)
LEMMA EventsAppended ==
    ASSUME NEW s \in Seq(Msgs), NEW ms, NEW from \in Nat, NEW to \in Nat, NEW n \in Nat, NEW del,
           SentFrom(ms, from, to), from <= to, n <= to, Ordered(s, del, n),
           \A k \in 0..(from - 1) : Before(k, s, Len(s) + 1, del)
    PROVE  /\ Ordered(s \o ms, del, to)
           /\ Complete(s \o ms, del, to)
           /\ HasReconnect(s \o ms) => HasReconnect(s)
           /\ HasReconnect(Tail(s \o ms)) => HasReconnect(Tail(s))
<1> DEFINE t == s \o ms
<1>1. ms \in Seq(Msgs) /\ Len(ms) \in Nat /\ Len(s) \in Nat
  BY DEF SentFrom
<1>2. t \in Seq(Msgs) /\ Len(t) = Len(s) + Len(ms) /\ (\A i \in 1..Len(s) : t[i] = s[i])
      /\ (\A i \in 1..Len(ms) : t[Len(s) + i] = ms[i])
  BY <1>1, ConcatFacts
<1> HIDE DEF t
<1>3. \A i \in 1..Len(t) : (i \in 1..Len(s)) \/ (i - Len(s) \in 1..Len(ms) /\ t[i] = ms[i - Len(s)])
  <2> TAKE i \in 1..Len(t)
  <2>0. i \in Nat /\ i >= 1 /\ i <= Len(s) + Len(ms)
    BY <1>1, <1>2
  <2>1. CASE i <= Len(s)
    BY <1>1, <2>0, <2>1
  <2>2. CASE i > Len(s)
    <3>1. i - Len(s) \in 1..Len(ms) /\ Len(s) + (i - Len(s)) = i
      BY <1>1, <2>0, <2>2
    <3> QED BY <1>2, <3>1
  <2> QED BY <1>1, <2>0, <2>1, <2>2
<1>4. \A i \in 1..Len(ms) : /\ i <= to - from => ms[i] = Event(from + i - 1)
                            /\ i > to - from => ms[i].type = "EndSession"
  BY <1>1 DEF SentFrom
<1>5. \A k \in Nat : Event(k).type = "OrderedTerminalEvent" /\ Event(k).no = k
  BY DEF Event, Msg
<1>6. ASSUME NEW i \in 1..(Len(s) + (to - from) + 1), i > Len(s), NEW k \in 0..(from + (i - Len(s) - 1) - 1)
      PROVE  Before(k, t, i, del)
  <2>1. CASE k < from
    <3>1. Before(k, s, Len(s) + 1, del)
      BY <2>1
    <3>2. i \in Int /\ i - 1 >= Len(s) /\ Len(s) + 1 - 1 = Len(s)
      BY <1>1, <1>6
    <3>3. \A j \in 1..(Len(s) + 1 - 1) : t[j] = s[j] /\ j \in 1..(i - 1)
      BY <1>1, <1>2, <3>2
    <3> QED BY <3>1, <3>3 DEF Before
  <2>2. CASE k >= from
    <3>1. k - from + 1 \in 1..Len(ms) /\ k - from + 1 <= to - from
      BY <1>1, <1>6, <2>2, SMTT(30) DEF SentFrom
    <3>2. t[Len(s) + (k - from + 1)] = Event(from + (k - from + 1) - 1)
      BY <1>2, <1>4, <3>1
    <3>3. from + (k - from + 1) - 1 = k /\ Len(s) + (k - from + 1) \in 1..(i - 1)
      BY <1>1, <1>6, <2>2
    <3> QED BY <3>2, <3>3 DEF Before
  <2> QED BY <2>1, <2>2
<1>7. Ordered(t, del, to)
  <2> SUFFICES ASSUME NEW i \in 1..Len(t), t[i].type = "OrderedTerminalEvent"
               PROVE  t[i].no < to /\ \A k \in 0..(t[i].no - 1) : Before(k, t, i, del)
    BY DEF Ordered
  <2>1. CASE i \in 1..Len(s)
    <3>0. s[i] \in Msgs
      BY <2>1
    <3>1. t[i] = s[i] /\ s[i].no \in Nat
      BY <1>2, <2>1, <3>0 DEF Msgs
    <3>2. s[i].no < n /\ \A k \in 0..(s[i].no - 1) : Before(k, s, i, del)
      BY <2>1, <3>1 DEF Ordered
    <3>3. \A j \in 1..(i - 1) : t[j] = s[j]
      <4>1. \A j \in 1..(i - 1) : j \in 1..Len(s)
        BY <1>1, <2>1
      <4> QED BY <1>2, <4>1
    <3>4. \A k \in 0..(s[i].no - 1) : Before(k, t, i, del)
      BY <3>2, <3>3 DEF Before
    <3> QED BY <3>1, <3>2, <3>4
  <2>2. CASE i \notin 1..Len(s)
    <3>1. i - Len(s) \in 1..Len(ms) /\ t[i] = ms[i - Len(s)]
      BY <1>3, <2>2
    <3>2. i - Len(s) <= to - from
      <4>1. t[i].type # "EndSession"
        OBVIOUS
      <4>2. i - Len(s) \in Int /\ to - from \in Int
        BY <1>1
      <4> QED BY <1>4, <3>1, <4>1, <4>2, SMTT(30)
    <3>3. t[i] = Event(from + (i - Len(s)) - 1)
      BY <1>4, <3>1, <3>2
    <3>4. from + (i - Len(s)) - 1 \in Nat /\ t[i].no = from + (i - Len(s)) - 1
      BY <1>1, <1>5, <3>1, <3>3
    <3>5. i \in 1..(Len(s) + (to - from) + 1) /\ i > Len(s)
      BY <1>1, <2>2, <3>1, <3>2
    <3>6. \A k \in 0..(from + (i - Len(s) - 1) - 1) : Before(k, t, i, del)
      BY <1>6, <3>5
    <3> QED BY <1>1, <3>1, <3>2, <3>4, <3>6
  <2> QED BY <2>1, <2>2
<1>8. Complete(t, del, to)
  <2> SUFFICES ASSUME NEW k \in 0..(to - 1) PROVE Before(k, t, Len(t) + 1, del)
    BY DEF Complete
  <2> DEFINE i == Len(s) + (to - from) + 1
  <2>1. i \in 1..(Len(s) + (to - from) + 1) /\ i > Len(s) /\ i <= Len(t) + 1
        /\ k \in 0..(from + (i - Len(s) - 1) - 1)
    BY <1>1, <1>2 DEF SentFrom
  <2>2. Before(k, t, i, del)
    <3> HIDE DEF i
    <3> QED BY <1>6, <2>1
  <2>3. \A j \in 1..(i - 1) : j \in 1..(Len(t) + 1 - 1)
    BY <1>1, <1>2, <2>1
  <2> HIDE DEF i
  <2> QED BY <2>2, <2>3 DEF Before
<1>9. \A i \in 1..Len(t) : t[i].type = "Reconnect" => i \in 1..Len(s) /\ t[i] = s[i]
  <2> SUFFICES ASSUME NEW i \in 1..Len(t), i \notin 1..Len(s) PROVE t[i].type # "Reconnect"
    BY <1>2
  <2>1. i - Len(s) \in 1..Len(ms) /\ t[i] = ms[i - Len(s)]
    BY <1>3
  <2>2. CASE i - Len(s) <= to - from
    <3>1. t[i] = Event(from + (i - Len(s)) - 1) /\ from + (i - Len(s)) - 1 \in Nat
      BY <1>1, <1>4, <2>1, <2>2
    <3> QED BY <1>5, <3>1
  <2>3. CASE i - Len(s) > to - from
    BY <1>4, <2>1, <2>3
  <2> QED BY <1>1, <2>1, <2>2, <2>3
<1>10. HasReconnect(t) => HasReconnect(s)
  BY <1>9 DEF HasReconnect
<1>11. HasReconnect(Tail(t)) => HasReconnect(Tail(s))
  <2> SUFFICES ASSUME NEW i \in 1..Len(Tail(t)), Tail(t)[i].type = "Reconnect"
               PROVE  HasReconnect(Tail(s))
    BY DEF HasReconnect
  <2>1. i + 1 \in 1..Len(t) /\ Tail(t)[i] = t[i + 1]
    BY <1>2
  <2>2. i + 1 \in 1..Len(s) /\ t[i + 1] = s[i + 1]
    BY <1>9, <2>1
  <2>3. i \in 1..Len(Tail(s)) /\ Tail(s)[i] = s[i + 1]
    BY <2>2
  <2> QED BY <2>1, <2>2, <2>3 DEF HasReconnect
<1> QED BY <1>7, <1>8, <1>10, <1>11 DEF t

(* The head of a channel is delivered. *)
LEMMA HeadTaken ==
    ASSUME NEW s \in Seq(Msgs), s # <<>>, NEW n \in Nat, NEW del, NEW del2, del \subseteq del2,
           Head(s).type = "OrderedTerminalEvent" => Head(s).no \in del2
    PROVE  /\ Ordered(s, del, n) => Ordered(Tail(s), del2, n)
           /\ Complete(s, del, n) => Complete(Tail(s), del2, n)
           /\ NoEvents(s) => NoEvents(Tail(s))
           /\ HasReconnect(Tail(s)) => HasReconnect(s)
<1> DEFINE t == Tail(s)
<1>1. t \in Seq(Msgs) /\ Len(t) = Len(s) - 1 /\ Len(s) \in Nat /\ Len(s) > 0
      /\ (\A i \in 1..Len(t) : t[i] = s[i + 1] /\ i + 1 \in 1..Len(s)) /\ Head(s) = s[1]
  OBVIOUS
<1> HIDE DEF t
<1>2. ASSUME NEW k \in Nat, NEW i \in 1..(Len(t) + 1), Before(k, s, i + 1, del)
      PROVE  Before(k, t, i, del2)
  <2>1. CASE k \in del
    BY <2>1 DEF Before
  <2>2. ASSUME NEW j \in 1..(i + 1 - 1), s[j] = Event(k)
        PROVE  Before(k, t, i, del2)
    <3>1. CASE j = 1
      <4>1. Head(s).type = "OrderedTerminalEvent" /\ Head(s).no = k
        BY <1>1, <2>2, <3>1 DEF Event, Msg
      <4> QED BY <4>1 DEF Before
    <3>2. CASE j # 1
      <4>1. j - 1 \in 1..(i - 1) /\ j - 1 \in 1..Len(t) /\ (j - 1) + 1 = j
        BY <1>1, <3>2
      <4>2. t[j - 1] = Event(k)
        BY <1>1, <2>2, <4>1
      <4> QED BY <4>1, <4>2 DEF Before
    <3> QED BY <3>1, <3>2
  <2> QED BY <1>2, <2>1, <2>2 DEF Before
<1>3. Ordered(s, del, n) => Ordered(t, del2, n)
  <2> SUFFICES ASSUME Ordered(s, del, n), NEW i \in 1..Len(t), t[i].type = "OrderedTerminalEvent"
               PROVE  t[i].no < n /\ \A k \in 0..(t[i].no - 1) : Before(k, t, i, del2)
    BY DEF Ordered
  <2>1. t[i] = s[i + 1] /\ i + 1 \in 1..Len(s) /\ i \in 1..(Len(t) + 1)
    BY <1>1
  <2>2. t[i].no < n /\ \A k \in 0..(t[i].no - 1) : Before(k, s, i + 1, del)
    BY <2>1 DEF Ordered
  <2> QED BY <1>2, <2>1, <2>2
<1>4. Complete(s, del, n) => Complete(t, del2, n)
  <2> SUFFICES ASSUME Complete(s, del, n), NEW k \in 0..(n - 1)
               PROVE  Before(k, t, Len(t) + 1, del2)
    BY DEF Complete
  <2>1. Before(k, s, Len(s) + 1, del)
    BY DEF Complete
  <2>2. Len(s) + 1 = (Len(t) + 1) + 1 /\ Len(t) + 1 \in 1..(Len(t) + 1) /\ k \in Nat
    BY <1>1
  <2> QED BY <1>2, <2>1, <2>2
<1>5. NoEvents(s) => NoEvents(t)
  BY <1>1 DEF NoEvents
<1>6. HasReconnect(t) => HasReconnect(s)
  BY <1>1 DEF HasReconnect
<1> QED BY <1>3, <1>4, <1>5, <1>6 DEF t

(* What try_send does to each channel. *)
Works(c) == open[c] /\ sock[c] \in {"none", "open"}
LEMMA QueuedFacts ==
    ASSUME chan \in [Conduits -> Seq(Msgs)], NEW c \in Conduits, NEW ms
    PROVE  \A d \in Conduits :
                Queued(c, ms)[d] = IF d = c /\ Works(c) THEN chan[d] \o ms ELSE chan[d]
BY DEF Queued, Works

-----------------------------------------------------------------------------
(* Steps that only take things away: messages of a channel that is given   *)
(* up, answers that were read, futures.                                    *)

Quiet ==
    /\ UNCHANGED <<events, unacked, srvEvents, resume, reconnects>>
    /\ \A c \in Conduits : chan'[c] = chan[c] \/ chan'[c] = <<>>
    /\ \A c \in Conduits :
        reply'[c] = reply[c] \/ (reply[c] # "none" /\ reply'[c] \notin {"none", "reconnected"})
    /\ \A c \in Conduits : srvOpen'[c] => srvOpen[c]
    /\ \A c \in Conduits : sock'[c] = sock[c] \/ sock[c] # "none"
    /\ \A r \in resolved' : IsChain(r.future) => r \in resolved

Harmless ==
    /\ Quiet
    /\ stage' \in {stage, "Finished"}
    /\ tx' = tx \/ (stage = "BeforeStarted" /\ tx' \in Attempts)
    /\ \A f \in running' : IsChain(f) => f \in running
    /\ stage' = "StartedSuccessfully" /\ open'[tx'] /\ sock'[tx'] \in {"none", "open"} =>
            open[tx] /\ sock[tx] \in {"none", "open"} /\ chan'[tx] = chan[tx] /\ tx' = tx

(* A reconnection begins: the chain is the only one. *)
Begins ==
    /\ Quiet
    /\ stage \notin {"Finished", "Reconnecting"}
    /\ stage' = "Reconnecting"
    /\ tx' = tx
    /\ running' = running \cup {Retry(MaxRetries)}

LEMMA EmptyFacts ==
    /\ NoEvents(<<>>) /\ ~HasReconnect(<<>>)
    /\ \A del, n : Ordered(<<>>, del, n)
BY DEF NoEvents, HasReconnect, Ordered

LEMMA LogUnchanged ==
    ASSUME LogInv, UNCHANGED <<events, unacked, srvEvents>>
    PROVE  LogInv' /\ EventNo' = EventNo
<1>1. EventNo' = EventNo
  BY DEF EventNo
<1>2. PICK lo, k \in 0..EventNo : LogShape(lo, k)
  BY DEF LogInv
<1>3. LogShape(lo, k)'
  BY <1>1, <1>2 DEF LogShape
<1> QED BY <1>1, <1>2, <1>3 DEF LogInv

LEMMA QuietKeeps ==
    ASSUME IInv, Quiet, TypeOK'
    PROVE  /\ LogInv' /\ ChanInv'
           /\ \A c \in Conduits : NoEvents(chan[c]) => NoEvents(chan'[c])
           /\ \A c \in Conduits : HasReconnect(chan'[c]) => chan'[c] = chan[c]
           /\ \A c \in Conduits : Pending(c)' => Pending(c)
           /\ \A c \in Conduits : c > MaxAttempts + reconnects =>
                    chan'[c] = <<>> /\ reply'[c] = "none" /\ sock'[c] = "none"
           /\ \A c \in Conduits : HasReconnect(chan'[c]) =>
                    reply'[c] = "none" /\ ~HasReconnect(Tail(chan'[c]))
<1>1. LogInv' /\ EventNo' = EventNo
  BY LogUnchanged, Zenon DEF IInv, Quiet
<1>2. ChanInv'
  <2> SUFFICES ASSUME NEW c \in Conduits PROVE Ordered(chan'[c], srvEvents', EventNo')
    BY DEF ChanInv
  <2>1. Ordered(chan[c], srvEvents, EventNo)
    BY DEF IInv, ChanInv
  <2> QED BY <1>1, <2>1, EmptyFacts, Zenon DEF Quiet
<1>3. \A c \in Conduits : NoEvents(chan[c]) => NoEvents(chan'[c])
  BY EmptyFacts, Zenon DEF Quiet
<1>4. \A c \in Conduits : HasReconnect(chan'[c]) => chan'[c] = chan[c]
  BY EmptyFacts, Zenon DEF Quiet
<1>5. \A c \in Conduits : Pending(c)' => Pending(c)
  <2> SUFFICES ASSUME NEW c \in Conduits, reply'[c] = "reconnected" \/ HasReconnect(chan'[c])
               PROVE  reply[c] = "reconnected" \/ HasReconnect(chan[c])
    BY DEF Pending
  <2>1. CASE reply'[c] = "reconnected"
    BY <2>1, Zenon DEF Quiet
  <2>2. CASE HasReconnect(chan'[c])
    BY <1>4, <2>2, Zenon
  <2> QED BY <2>1, <2>2
<1>6. ASSUME NEW c \in Conduits, c > MaxAttempts + reconnects
      PROVE  chan'[c] = <<>> /\ reply'[c] = "none" /\ sock'[c] = "none"
  <2>1. chan[c] = <<>> /\ reply[c] = "none" /\ sock[c] = "none"
    BY <1>6 DEF IInv, FreshInv
  <2> QED BY <2>1, Zenon DEF Quiet
<1>7. ASSUME NEW c \in Conduits, HasReconnect(chan'[c])
      PROVE  reply'[c] = "none" /\ ~HasReconnect(Tail(chan'[c]))
  <2>1. chan'[c] = chan[c]
    BY <1>4, <1>7
  <2>2. reply[c] = "none" /\ ~HasReconnect(Tail(chan[c]))
    BY <1>7, <2>1, Zenon DEF IInv, FreshInv
  <2> QED BY <2>1, <2>2, Zenon DEF Quiet
<1> QED
  BY <1>1, <1>2, <1>3, <1>4, <1>5, <1>6, <1>7

LEMMA HarmlessStep ==
    ASSUME IInv, Harmless, TypeOK'
    PROVE  IInv'
<1> Quiet
  BY DEF Harmless
<1>1. LogInv' /\ ChanInv'
  BY QuietKeeps, Zenon
<1>2. EventNo' = EventNo
  BY LogUnchanged, Zenon DEF IInv, Quiet
<1>3. LiveInv'
  <2> SUFFICES ASSUME stage' = "StartedSuccessfully", open'[tx'], sock'[tx'] \in {"none", "open"}
               PROVE  Complete(chan'[tx'], srvEvents', EventNo')
    BY DEF LiveInv
  <2>1. /\ stage = "StartedSuccessfully" /\ open[tx] /\ sock[tx] \in {"none", "open"}
        /\ chan'[tx] = chan[tx] /\ tx' = tx /\ srvEvents' = srvEvents
    BY DEF Harmless, Quiet
  <2>2. Complete(chan[tx], srvEvents, EventNo)
    BY <2>1 DEF IInv, LiveInv
  <2> QED BY <1>2, <2>1, <2>2
<1>4. StartInv'
  <2> SUFFICES ASSUME stage' = "BeforeStarted"
               PROVE  srvEvents' = {} /\ \A c \in Conduits : NoEvents(chan'[c])
    BY DEF StartInv
  <2>1. stage = "BeforeStarted" /\ srvEvents' = srvEvents
    BY DEF Harmless, Quiet
  <2>2. srvEvents = {} /\ \A c \in Conduits : NoEvents(chan[c])
    BY <2>1 DEF IInv, StartInv
  <2> QED BY <2>1, <2>2, QuietKeeps, Zenon
<1>5. ReconnectInv'
  <2> SUFFICES ASSUME stage' # "Finished" PROVE ReconnectInv'
    BY DEF ReconnectInv
  <2>0. stage' = stage /\ stage # "Finished"
    BY DEF Harmless
  <2>1. /\ NoChain => NoChain'
        /\ OneChain => OneChain'
    BY Zenon DEF Harmless, Quiet, NoChain, OneChain
  <2>2. stage' # "Reconnecting" => NoChain' /\ \A c \in Conduits : ~Pending(c)'
    <3> HAVE stage' # "Reconnecting"
    <3>1. NoChain /\ \A c \in Conduits : ~Pending(c)
      BY <2>0 DEF IInv, ReconnectInv
    <3> QED BY <2>1, <3>1, QuietKeeps, Zenon
  <2>3. OneChain'
    BY <2>0, <2>1 DEF IInv, ReconnectInv
  <2>4. ASSUME NEW c \in Conduits, Pending(c)'
        PROVE  c = tx' /\ NoChain' /\ NoEvents(chan'[c])
    <3>1. Pending(c)
      BY <2>4, QuietKeeps, Zenon
    <3>2. c = tx /\ NoChain /\ NoEvents(chan[c])
      BY <2>0, <3>1 DEF IInv, ReconnectInv
    <3>3. stage = "Reconnecting"
      BY <2>0, <3>1 DEF IInv, ReconnectInv
    <3>4. tx' = tx
      BY <3>3 DEF Harmless
    <3> QED BY <2>1, <3>2, <3>4, QuietKeeps, Zenon
  <2> QED BY <2>2, <2>3, <2>4 DEF ReconnectInv
<1>6. FreshInv'
  <2>1. tx' <= MaxAttempts + reconnects' /\ reconnects' = reconnects
    <3>1. reconnects \in Nat
      BY BoundsAssumption DEF IInv, TypeOK, UiTypes
    <3> QED BY <3>1, AttemptsAssumption DEF Harmless, Quiet, IInv, FreshInv, Attempts
  <2>2. \A c \in Conduits : c > MaxAttempts + reconnects' =>
            chan'[c] = <<>> /\ reply'[c] = "none" /\ sock'[c] = "none"
    BY <2>1, QuietKeeps, Zenon
  <2>3. \A c \in Conduits : HasReconnect(chan'[c]) =>
            reply'[c] = "none" /\ ~HasReconnect(Tail(chan'[c]))
    BY QuietKeeps, Zenon
  <2> QED BY <2>1, <2>2, <2>3 DEF FreshInv
<1>7. ResumeInv'
  <2> SUFFICES ASSUME stage' = "Reconnecting", NEW c \in Conduits, reply'[c] = "reconnected"
               PROVE  /\ resume'[c] <= EventNo'
                      /\ srvEvents' = 0..(resume'[c] - 1)
                      /\ \A d \in Conduits \ {c} : ~srvOpen'[d]
    BY DEF ResumeInv
  <2>1. stage = "Reconnecting" /\ reply[c] = "reconnected"
    BY DEF Harmless, Quiet
  <2>2. /\ resume[c] <= EventNo /\ srvEvents = 0..(resume[c] - 1)
        /\ \A d \in Conduits \ {c} : ~srvOpen[d]
    BY <2>1 DEF IInv, ResumeInv
  <2>3. resume' = resume /\ srvEvents' = srvEvents
    BY DEF Quiet
  <2>4. \A d \in Conduits \ {c} : ~srvOpen'[d]
    BY <2>2, Zenon DEF Quiet
  <2> QED BY <1>2, <2>2, <2>3, <2>4
<1> QED
  BY <1>1, <1>3, <1>4, <1>5, <1>6, <1>7 DEF IInv

LEMMA BeginsStep ==
    ASSUME IInv, Begins, TypeOK'
    PROVE  IInv'
<1> Quiet
  BY DEF Begins
<1>1. LogInv' /\ ChanInv'
  BY QuietKeeps, Zenon
<1>2. stage' = "Reconnecting" /\ tx' = tx
  BY DEF Begins
<1>3. NoChain /\ \A c \in Conduits : ~Pending(c)
  BY DEF Begins, IInv, ReconnectInv
<1>4. \A c \in Conduits : ~Pending(c)'
  BY <1>3, QuietKeeps, Zenon
<1>5. OneChain'
  <2>1. \A f \in running' : IsChain(f) => f = Retry(MaxRetries)
    BY <1>3, Zenon DEF Begins, NoChain
  <2>2. \A r \in resolved' : ~IsChain(r.future)
    BY <1>3, Zenon DEF Quiet, NoChain
  <2> QED BY <2>1, <2>2, Zenon DEF OneChain
<1>6. ReconnectInv'
  BY <1>2, <1>4, <1>5 DEF ReconnectInv
<1>7. FreshInv'
  <2>1. tx' <= MaxAttempts + reconnects' /\ reconnects' = reconnects
    BY <1>2 DEF Quiet, IInv, FreshInv
  <2>2. \A c \in Conduits : c > MaxAttempts + reconnects' =>
            chan'[c] = <<>> /\ reply'[c] = "none" /\ sock'[c] = "none"
    BY <2>1, QuietKeeps, Zenon
  <2>3. \A c \in Conduits : HasReconnect(chan'[c]) =>
            reply'[c] = "none" /\ ~HasReconnect(Tail(chan'[c]))
    BY QuietKeeps, Zenon
  <2> QED BY <2>1, <2>2, <2>3 DEF FreshInv
<1>8. LiveInv' /\ StartInv'
  BY <1>2 DEF LiveInv, StartInv
<1>9. ResumeInv'
  BY <1>4 DEF ResumeInv, Pending
<1> QED
  BY <1>1, <1>6, <1>7, <1>8, <1>9 DEF IInv

(* Steps that only move futures. *)
LEMMA TaskStep ==
    ASSUME IInv, TypeOK', NoChain => NoChain', OneChain => OneChain',
           UNCHANGED <<stageVars, chanVars, srvVars, eventVars, reconnects>>
    PROVE  IInv'
<1>1. LogInv' /\ EventNo' = EventNo
  BY LogUnchanged, Zenon DEF IInv, eventVars, srvVars
<1>2. ChanInv' /\ LiveInv' /\ StartInv'
  BY <1>1 DEF IInv, ChanInv, LiveInv, StartInv, stageVars, chanVars, srvVars
<1>3. \A c \in Conduits : Pending(c)' <=> Pending(c)
  BY DEF Pending, chanVars, srvVars
<1>4. ReconnectInv'
  BY <1>3, Zenon DEF IInv, ReconnectInv, stageVars, chanVars
<1>5. FreshInv' /\ ResumeInv'
  BY <1>1 DEF IInv, FreshInv, ResumeInv, stageVars, chanVars, srvVars
<1> QED
  BY <1>1, <1>2, <1>4, <1>5 DEF IInv

-----------------------------------------------------------------------------
(* The steps that are harmless.                                            *)

LEMMA StartupTail ==
    ASSUME TypeOK, NEW b,
           (stage = "BeforeStarted" /\ StartupFailure(b)) \/ UNCHANGED startupVars
    PROVE  /\ stage' \in {stage, "Finished"}
           /\ tx' = tx \/ (stage = "BeforeStarted" /\ tx' \in Attempts)
           /\ \A f \in running' : IsChain(f) => f \in running
           /\ stage' = "StartedSuccessfully" => tx' = tx /\ open' = open
<1>1. CASE stage = "BeforeStarted" /\ StartupFailure(b)
  <2>1. /\ stage' \in {stage, "Finished"} /\ (tx' = tx \/ tx' \in Attempts)
        /\ \A f \in running' : IsChain(f) => f \in running
    BY <1>1, StartupFailureFacts, Zenon
  <2> QED BY <1>1, <2>1
<1>2. CASE UNCHANGED startupVars
  BY <1>2, Zenon DEF startupVars
<1> QED BY <1>1, <1>2

(* A failure of the startup, or nothing, and no socket is touched. *)
LEMMA StartupStep ==
    ASSUME IInv, TypeOK', NEW b,
           (stage = "BeforeStarted" /\ StartupFailure(b)) \/ UNCHANGED startupVars,
           UNCHANGED <<events, unacked, srvEvents, resume, reconnects, chan, srvOpen, sock>>,
           \A c \in Conduits :
                reply'[c] = reply[c] \/ (reply[c] # "none" /\ reply'[c] \notin {"none", "reconnected"}),
           \A r \in resolved' : r \in resolved
    PROVE  IInv'
<1>1. Quiet
  BY Zenon DEF Quiet
<1>2. /\ stage' \in {stage, "Finished"}
      /\ tx' = tx \/ (stage = "BeforeStarted" /\ tx' \in Attempts)
      /\ \A f \in running' : IsChain(f) => f \in running
      /\ stage' = "StartedSuccessfully" => tx' = tx /\ open' = open
  BY StartupTail, Zenon DEF IInv
<1>3. Harmless
  BY <1>1, <1>2 DEF Harmless
<1> QED BY <1>3, HarmlessStep

(* The session is closed for good. *)
LEMMA CloseStep ==
    ASSUME IInv, TypeOK', CloseWithoutReconnection,
           UNCHANGED <<events, unacked, srvEvents, resume, reconnects, chan, srvOpen, sock, tx>>,
           \A c \in Conduits :
                reply'[c] = reply[c] \/ (reply[c] # "none" /\ reply'[c] \notin {"none", "reconnected"}),
           \A r \in resolved' : r \in resolved
    PROVE  IInv'
<1>1. Quiet
  BY Zenon DEF Quiet
<1>2. stage' = "Finished" /\ running' \subseteq running
  BY CloseFacts, Zenon DEF IInv
<1>3. Harmless
  BY <1>1, <1>2 DEF Harmless
<1> QED BY <1>3, HarmlessStep

LEMMA ConnectFailedStep ==
    ASSUME IInv, NEW a \in Attempts, ConnectFailed(a)
    PROVE  IInv'
<1>1. TypeOK'
  BY ConnectFailedType, Zenon DEF IInv
<1>2. (stage = "BeforeStarted" /\ StartupFailure(TRUE)) \/ UNCHANGED startupVars
  BY Zenon DEF ConnectFailed, IsActive
<1> QED
  BY <1>1, <1>2, StartupStep, Zenon DEF ConnectFailed, srvVars, eventVars

LEMMA AttemptTimedOutStep ==
    ASSUME IInv, NEW a \in Attempts, AttemptTimedOut(a)
    PROVE  IInv'
<1>1. TypeOK'
  BY AttemptTimedOutType, Zenon DEF IInv
<1>2. (stage = "BeforeStarted" /\ StartupFailure(TRUE)) \/ UNCHANGED startupVars
  BY Zenon DEF AttemptTimedOut, IsActive
<1> QED
  BY <1>1, <1>2, StartupStep, Zenon DEF AttemptTimedOut, srvVars, eventVars

LEMMA SendTaskFailureReportedStep ==
    ASSUME IInv, NEW c \in Conduits, SendTaskFailureReported(c)
    PROVE  IInv'
<1>1. TypeOK'
  BY SendTaskFailureReportedType, Zenon DEF IInv
<1>2. (stage = "BeforeStarted" /\ StartupFailure(TRUE)) \/ UNCHANGED startupVars
  BY Zenon DEF SendTaskFailureReported
<1> QED
  BY <1>1, <1>2, StartupStep, Zenon DEF SendTaskFailureReported, srvVars, eventVars

LEMMA StreamErrorStep ==
    ASSUME IInv, NEW c \in Conduits, StreamError(c)
    PROVE  IInv'
<1>1. TypeOK'
  BY StreamErrorType, Zenon DEF IInv
<1>2. (stage = "BeforeStarted" /\ StartupFailure(TRUE)) \/ UNCHANGED startupVars
  BY Zenon DEF StreamError
<1> QED
  BY <1>1, <1>2, StartupStep, Zenon DEF StreamError, srvVars, eventVars

(* Reading an answer. *)
LEMMA ConsumeFacts ==
    ASSUME TypeOK, NEW c \in Conduits, reply[c] # "none", NEW as, as \notin {"none", "reconnected"},
           Consume(c, as)
    PROVE  \A d \in Conduits : IF d = c THEN reply'[d] = as ELSE reply'[d] = reply[d]
BY DEF Consume, TypeOK, SrvTypes

LEMMA FailedToInitializeStep ==
    ASSUME IInv, NEW c \in Conduits, FailedToInitialize(c)
    PROVE  IInv'
<1>1. TypeOK'
  BY FailedToInitializeType, Zenon DEF IInv
<1>2. \A d \in Conduits :
        reply'[d] = reply[d] \/ (reply[d] # "none" /\ reply'[d] \notin {"none", "reconnected"})
  BY ConsumeFacts DEF FailedToInitialize, IInv
<1>3. UNCHANGED <<events, unacked, srvEvents, resume, reconnects, chan, srvOpen, sock, resolved>>
  BY DEF FailedToInitialize, eventVars
<1>4. CASE stage = "BeforeStarted" /\ StartupFailure(reply[c] = "busy")
  BY <1>1, <1>2, <1>3, <1>4, StartupStep, Zenon
<1>5. CASE UNCHANGED <<stage, attempt, tx, open, running, outcomes>>
  <2>1. Harmless
    BY <1>2, <1>3, <1>5, Zenon DEF Harmless, Quiet
  <2> QED BY <1>1, <2>1, HarmlessStep
<1> QED BY <1>4, <1>5, Zenon DEF FailedToInitialize

LEMMA FailedToReconnectStep ==
    ASSUME IInv, NEW c \in Conduits, FailedToReconnect(c)
    PROVE  IInv'
<1>1. TypeOK'
  BY FailedToReconnectType, Zenon DEF IInv
<1>2. \A d \in Conduits :
        reply'[d] = reply[d] \/ (reply[d] # "none" /\ reply'[d] \notin {"none", "reconnected"})
  BY ConsumeFacts DEF FailedToReconnect, IInv
<1> QED
  BY <1>1, <1>2, CloseStep, Zenon DEF FailedToReconnect, eventVars, uiVars

LEMMA SessionTerminatedStep ==
    ASSUME IInv, NEW c \in Conduits, SessionTerminated(c)
    PROVE  IInv'
<1>1. TypeOK'
  BY SessionTerminatedType, Zenon DEF IInv
<1>2. /\ UNCHANGED <<events, unacked, srvEvents, resume, reconnects, chan, srvOpen, sock, tx>>
      /\ UNCHANGED <<reply, resolved>>
  BY DEF SessionTerminated, eventVars, srvVars, uiVars
<1>3. CASE CloseWithoutReconnection
  BY <1>1, <1>2, <1>3, CloseStep, Zenon
<1>4. CASE UNCHANGED <<stage, open, running>>
  <2>1. Harmless
    BY <1>2, <1>4, Zenon DEF Harmless, Quiet
  <2> QED BY <1>1, <2>1, HarmlessStep
<1> QED BY <1>3, <1>4, Zenon DEF SessionTerminated

LEMMA RetriesExhaustedStep ==
    ASSUME IInv, RetriesExhausted
    PROVE  IInv'
<1>1. TypeOK'
  BY RetriesExhaustedType, Zenon DEF IInv
<1> QED
  BY <1>1, CloseStep, Zenon DEF RetriesExhausted, srvVars, eventVars, uiVars

LEMMA SendTaskEndsStep ==
    ASSUME IInv, NEW c \in Conduits, SendTaskEnds(c)
    PROVE  IInv'
<1>1. TypeOK'
  BY SendTaskEndsType, Zenon DEF IInv
<1>2. \A d \in Conduits : sock'[d] = sock[d] \/ (sock[d] = "open" /\ sock'[d] = "closing")
  BY DEF SendTaskEnds, IInv, TypeOK, ChanTypes
<1>3. /\ UNCHANGED <<events, unacked, srvEvents, resume, reconnects, chan, srvOpen, open, tx>>
      /\ UNCHANGED <<reply, resolved, running, stage>>
  BY DEF SendTaskEnds, taskVars, stageVars, eventVars, srvVars, uiVars
<1>4. Harmless
  BY <1>2, <1>3, ConduitFacts DEF Harmless, Quiet, IInv, TypeOK, ChanTypes
<1> QED BY <1>1, <1>4, HarmlessStep

LEMMA SendTaskFailsStep ==
    ASSUME IInv, NEW c \in Conduits, SendTaskFails(c)
    PROVE  IInv'
<1>1. TypeOK'
  BY SendTaskFailsType, Zenon DEF IInv
<1>2. \A d \in Conduits :
        IF d = c THEN sock[d] = "open" /\ sock'[d] = "closing" /\ chan'[d] = <<>>
        ELSE sock'[d] = sock[d] /\ chan'[d] = chan[d]
  BY DEF SendTaskFails, IInv, TypeOK, ChanTypes
<1>3. /\ UNCHANGED <<events, unacked, srvEvents, resume, reconnects, srvOpen, open, tx>>
      /\ UNCHANGED <<reply, running, stage>>
  BY DEF SendTaskFails, taskVars, stageVars, eventVars, srvVars, uiVars
<1>4. \A r \in resolved' : IsChain(r.future) => r \in resolved
  <2>1. ~IsChain(Result(SendTask(c), FALSE).future)
    BY DEF IsChain, Result, SendTask, Future
  <2> QED BY <2>1, Zenon DEF SendTaskFails
<1>5. Harmless
  BY <1>2, <1>3, <1>4 DEF Harmless, Quiet, IInv, TypeOK, ChanTypes
<1> QED BY <1>1, <1>5, HarmlessStep

LEMMA ServerClosesStep ==
    ASSUME IInv, NEW c \in Conduits, ServerCloses(c)
    PROVE  IInv'
<1>1. TypeOK'
  BY ServerClosesType, Zenon DEF IInv
<1>2. \A d \in Conduits : srvOpen'[d] => srvOpen[d]
  BY Zenon DEF ServerCloses, IInv, TypeOK, SrvTypes
<1>3. /\ UNCHANGED <<events, unacked, srvEvents, resume, reconnects, chan, sock, open, tx>>
      /\ UNCHANGED <<reply, resolved, running, stage>>
  BY DEF ServerCloses, taskVars, stageVars, chanVars, eventVars, uiVars
<1>4. Harmless
  BY <1>2, <1>3, Zenon DEF Harmless, Quiet
<1> QED BY <1>1, <1>4, HarmlessStep

LEMMA StreamEndsStep ==
    ASSUME IInv, NEW c \in Conduits, StreamEnds(c)
    PROVE  IInv'
<1>1. TypeOK'
  BY StreamEndsType, Zenon DEF IInv
<1>2. \A d \in Conduits :
        IF d = c THEN sock[d] # "none" /\ sock'[d] = "ended" /\ chan'[d] = <<>>
        ELSE sock'[d] = sock[d] /\ chan'[d] = chan[d]
  BY DEF StreamEnds, Readable, IInv, TypeOK, ChanTypes
<1>3. /\ UNCHANGED <<events, unacked, srvEvents, resume, reconnects>>
      /\ UNCHANGED <<srvOpen, reply, resolved>>
  BY DEF StreamEnds, eventVars, srvVars
<1>4. Quiet
  BY <1>2, <1>3, Zenon DEF Quiet
<1>5. TypeOK /\ tx \in Conduits
  BY DEF IInv, TypeOK, ChanTypes
<1>6. CASE (stage = "BeforeStarted" /\ StartupFailure(TRUE)) \/ UNCHANGED startupVars
  <2>1. /\ stage' \in {stage, "Finished"}
        /\ tx' = tx \/ (stage = "BeforeStarted" /\ tx' \in Attempts)
        /\ \A f \in running' : IsChain(f) => f \in running
        /\ stage' = "StartedSuccessfully" => tx' = tx /\ open' = open
    BY <1>5, <1>6, StartupTail, Zenon
  <2>2. Harmless
    BY <1>2, <1>4, <1>5, <2>1 DEF Harmless
  <2> QED BY <1>1, <2>2, HarmlessStep
<1>7. CASE stage = "StartedSuccessfully" /\ open' = Closed(tx) /\ ReconnectWebsocket
           /\ UNCHANGED <<attempt, tx, idleArmed, outcomes>>
  <2>1. CASE stage \notin {"Finished", "Reconnecting"} /\ hasToken
    <3>1. Begins
      BY <1>4, <1>7, <2>1 DEF Begins, ReconnectWebsocket
    <3> QED BY <1>1, <3>1, BeginsStep
  <2>2. CASE ~(stage \notin {"Finished", "Reconnecting"} /\ hasToken)
    <3>1. UNCHANGED <<stage, running, tx>> /\ ~open'[tx]
      BY <1>5, <1>7, <2>2 DEF ReconnectWebsocket, Closed, TypeOK, ChanTypes
    <3>2. Harmless
      BY <1>4, <3>1 DEF Harmless
    <3> QED BY <1>1, <3>2, HarmlessStep
  <2> QED BY <2>1, <2>2
<1>8. CASE stage \notin {"StartedSuccessfully", "BeforeStarted"} /\ open' = Closed(tx)
           /\ running' = RunningAfterClose /\ UNCHANGED <<stage, attempt, tx, idleArmed, outcomes>>
  <2>1. running' \subseteq running
    BY <1>8 DEF RunningAfterClose
  <2>2. Harmless
    BY <1>4, <1>8, <2>1 DEF Harmless
  <2> QED BY <1>1, <2>2, HarmlessStep
<1> QED
  BY <1>6, <1>7, <1>8 DEF StreamEnds

LEMMA OtherMessageStep ==
    ASSUME IInv, NEW c \in Conduits, OtherMessage(c)
    PROVE  IInv'
<1>1. TypeOK'
  BY OtherMessageType, Zenon DEF IInv
<1>2. NoChain' = NoChain /\ OneChain' = OneChain
  BY DEF OtherMessage, taskVars, NoChain, OneChain
<1> QED BY <1>1, <1>2, TaskStep, Zenon DEF OtherMessage, uiVars

LEMMA IdleTimerElapsesStep ==
    ASSUME IInv, IdleTimerElapses
    PROVE  IInv'
<1>1. TypeOK'
  BY IdleTimerElapsesType, Zenon DEF IInv
<1>2. NoChain' = NoChain /\ OneChain' = OneChain
  BY DEF IdleTimerElapses, taskVars, NoChain, OneChain
<1> QED BY <1>1, <1>2, TaskStep, Zenon DEF IdleTimerElapses, uiVars

LEMMA HeartbeatIdleStep ==
    ASSUME IInv, HeartbeatIdle
    PROVE  IInv'
<1>1. TypeOK'
  BY HeartbeatIdleType, Zenon DEF IInv
<1>2. UNCHANGED <<events, unacked, srvEvents, resume, reconnects, chan, srvOpen, sock, tx, open,
                  reply, resolved>>
  BY DEF HeartbeatIdle, srvVars, eventVars, chanVars, uiVars
<1>3. Quiet
  BY <1>2, Zenon DEF Quiet
<1>4. CASE stage \notin {"Finished", "Reconnecting"} /\ hasToken
  <2>1. Begins
    BY <1>2, <1>3, <1>4 DEF Begins, HeartbeatIdle, ReconnectWebsocket
  <2> QED BY <1>1, <2>1, BeginsStep
<1>5. CASE ~(stage \notin {"Finished", "Reconnecting"} /\ hasToken)
  <2>1. UNCHANGED <<stage, running>>
    BY <1>5 DEF HeartbeatIdle, ReconnectWebsocket
  <2>2. Harmless
    BY <1>2, <1>3, <2>1, Zenon DEF Harmless
  <2> QED BY <1>1, <2>2, HarmlessStep
<1> QED BY <1>4, <1>5

LEMMA PtyBytesReadStep ==
    ASSUME IInv, PtyBytesRead
    PROVE  IInv'
<1>1. TypeOK'
  BY PtyBytesReadType, Zenon DEF IInv
<1>2. UNCHANGED <<events, unacked, srvEvents, resume, reconnects, chan, srvOpen, sock, tx, open,
                  reply, resolved, stage, running>>
  BY DEF PtyBytesRead, srvVars, chanVars, uiVars, taskVars, stageVars
<1>3. Harmless
  BY <1>2, Zenon DEF Harmless, Quiet
<1> QED BY <1>1, <1>3, HarmlessStep

-----------------------------------------------------------------------------
(* Steps that move futures.                                                *)

LEMMA ChainKinds ==
    /\ \A r : IsChain(Retry(r)) /\ IsChain(Backoff(r))
    /\ \A f, ok : Result(f, ok).future = f
BY DEF IsChain, Retry, Backoff, Future, Result

LEMMA ResolveStep ==
    ASSUME IInv, NEW f \in running, NEW ok \in BOOLEAN, Resolve(f, ok)
    PROVE  IInv'
<1>1. TypeOK'
  BY ResolveType, Zenon DEF IInv
<1>2. running' = running \ {f} /\ resolved' = resolved \cup {Result(f, ok)}
  BY DEF Resolve
<1>3. NoChain => NoChain'
  BY <1>2, ChainKinds, Zenon DEF NoChain
<1>4. OneChain => OneChain'
  <2> SUFFICES ASSUME OneChain PROVE OneChain'
    OBVIOUS
  <2>1. \A g, h \in running' : IsChain(g) /\ IsChain(h) => g = h
    BY <1>2, Zenon DEF OneChain
  <2>2. \A r \in resolved' : IsChain(r.future) => (r = Result(f, ok) \/ (r \in resolved /\ ~IsChain(f)))
    BY <1>2, Zenon DEF OneChain
  <2>3. \A r \in resolved' : r = Result(f, ok) => r.future = f
    BY ChainKinds, Zenon
  <2>4. \A r, q \in resolved' : IsChain(r.future) /\ IsChain(q.future) => r = q
    <3> TAKE r, q \in resolved'
    <3> HAVE IsChain(r.future) /\ IsChain(q.future)
    <3>1. CASE IsChain(f)
      BY <2>2, <3>1, Zenon
    <3>2. CASE ~IsChain(f)
      BY <2>2, <2>3, <3>2, Zenon DEF OneChain
    <3> QED BY <3>1, <3>2
  <2>5. \A g \in running', r \in resolved' : ~(IsChain(g) /\ IsChain(r.future))
    <3> TAKE g \in running', r \in resolved'
    <3>1. g \in running /\ g # f
      BY <1>2, Zenon
    <3>2. CASE r = Result(f, ok)
      BY <2>3, <3>1, <3>2, Zenon DEF OneChain
    <3>3. CASE r # Result(f, ok)
      BY <1>2, <3>1, <3>3, Zenon DEF OneChain
    <3> QED BY <3>2, <3>3
  <2> QED BY <2>1, <2>4, <2>5, Zenon DEF OneChain
<1> QED BY <1>1, <1>3, <1>4, TaskStep, Zenon DEF Resolve, uiVars

(* The chain goes on: its resolved future is taken, the next one spawned. *)
LEMMA ChainGoesOn ==
    ASSUME NEW r \in resolved, IsChain(r.future), NEW f,
           resolved' = resolved \ {r}, running' = running \cup {f}
    PROVE  (NoChain => NoChain') /\ (OneChain => OneChain')
<1>1. ~NoChain
  BY Zenon DEF NoChain
<1>2. ASSUME OneChain PROVE OneChain'
  <2>1. (\A q \in resolved' : ~IsChain(q.future)) /\ (\A g \in running : ~IsChain(g))
    BY <1>2, Zenon DEF OneChain
  <2>2. \A g \in running' : IsChain(g) => g = f
    BY <2>1, Zenon
  <2> QED BY <2>1, <2>2, Zenon DEF OneChain
<1> QED BY <1>1, <1>2

LEMMA RetryFailedStep ==
    ASSUME IInv, NEW r \in 0..MaxRetries, RetryFailed(r)
    PROVE  IInv'
<1>1. TypeOK'
  BY RetryFailedType, Zenon DEF IInv
<1>2. (NoChain => NoChain') /\ (OneChain => OneChain')
  <2>1. IsChain(Result(Retry(r), FALSE).future)
    BY ChainKinds, Zenon
  <2> QED BY <2>1, ChainGoesOn, Zenon DEF RetryFailed
<1> QED BY <1>1, <1>2, TaskStep, Zenon DEF RetryFailed, uiVars

LEMMA BackoffElapsedStep ==
    ASSUME IInv, NEW r \in 0..MaxRetries, BackoffElapsed(r)
    PROVE  IInv'
<1>1. TypeOK'
  BY BackoffElapsedType, Zenon DEF IInv
<1>2. (NoChain => NoChain') /\ (OneChain => OneChain')
  <2>1. IsChain(Result(Backoff(r), TRUE).future)
    BY ChainKinds, Zenon
  <2> QED BY <2>1, ChainGoesOn, Zenon DEF BackoffElapsed
<1> QED BY <1>1, <1>2, TaskStep, Zenon DEF BackoffElapsed, uiVars

-----------------------------------------------------------------------------
(* Steps that write to a channel.                                          *)

LEMMA ConnectSucceededStep ==
    ASSUME IInv, NEW a \in Attempts, ConnectSucceeded(a)
    PROVE  IInv'
<1>1. TypeOK'
  BY ConnectSucceededType, Zenon DEF IInv
<1>2. UNCHANGED <<stage, tx, running, open, reply, resume, srvEvents, events, unacked, reconnects>>
      /\ resolved' \subseteq resolved
  BY DEF ConnectSucceeded, stageVars, eventVars, uiVars
<1>3. CASE ~IsActive(a)
  <2>1. UNCHANGED <<chan, sock, srvOpen>>
    BY <1>3 DEF ConnectSucceeded
  <2>2. Harmless
    BY <1>2, <2>1, Zenon DEF Harmless, Quiet
  <2> QED BY <1>1, <2>2, HarmlessStep
<1>4. CASE IsActive(a)
  <2> DEFINE m == Msg("Initialize", 0)
  <2>1. stage = "BeforeStarted" /\ stage' = "BeforeStarted"
    BY <1>2, <1>4 DEF IsActive
  <2>2. m \in Msgs /\ m.type \notin {"OrderedTerminalEvent", "Reconnect"}
    BY MsgTypes DEF Msg
  <2>3. chan' = Queued(tx, <<m>>) /\ sock' = [sock EXCEPT ![a] = "open"]
    BY <1>4 DEF ConnectSucceeded
  <2> HIDE DEF m
  <2>4. chan \in [Conduits -> Seq(Msgs)] /\ tx \in Conduits /\ sock \in [Conduits -> Socks]
    BY DEF IInv, TypeOK, ChanTypes
  <2>5. \A d \in Conduits :
            chan'[d] = IF d = tx /\ Works(tx) THEN chan[d] \o <<m>> ELSE chan[d]
    BY <2>3, <2>4, QueuedFacts
  <2>6. LogInv' /\ EventNo' = EventNo /\ EventNo \in Nat
    BY <1>2, LogUnchanged DEF IInv, TypeOK, EventTypes, EventNo
  <2>7. ASSUME NEW d \in Conduits
        PROVE  /\ Ordered(chan'[d], srvEvents, EventNo)
               /\ NoEvents(chan'[d])
               /\ HasReconnect(chan'[d]) => HasReconnect(chan[d])
    <3>1. Ordered(chan[d], srvEvents, EventNo) /\ NoEvents(chan[d]) /\ chan[d] \in Seq(Msgs)
      BY <2>1, <2>4 DEF IInv, ChanInv, StartInv
    <3>2. CASE chan'[d] = chan[d]
      BY <3>1, <3>2, Zenon
    <3>3. CASE chan'[d] = chan[d] \o <<m>>
      BY <2>2, <2>6, <3>1, <3>3, ControlAppended
    <3> QED BY <2>5, <3>2, <3>3
  <2>8. NoChain /\ \A d \in Conduits : ~Pending(d)
    BY <2>1 DEF IInv, ReconnectInv
  <2>9. \A d \in Conduits : ~HasReconnect(chan'[d])
    BY <2>7, <2>8 DEF Pending
  <2>10. ChanInv'
    BY <1>2, <2>6, <2>7 DEF ChanInv
  <2>11. StartInv'
    BY <1>2, <2>1, <2>7 DEF IInv, StartInv
  <2>12. LiveInv' /\ ResumeInv'
    BY <2>1 DEF LiveInv, ResumeInv
  <2>13. NoChain' /\ OneChain'
    <3>1. NoChain'
      BY <1>2, <2>8, Zenon DEF NoChain
    <3> QED BY <3>1, Zenon DEF NoChain, OneChain
  <2>14. \A d \in Conduits : ~Pending(d)'
    BY <1>2, <2>8, <2>9 DEF Pending
  <2>15. ReconnectInv'
    BY <2>13, <2>14, Zenon DEF ReconnectInv
  <2>16. FreshInv'
    <3>1. a <= MaxAttempts + reconnects /\ tx <= MaxAttempts + reconnects
      <4>1. reconnects \in Nat
        BY BoundsAssumption DEF IInv, TypeOK, UiTypes
      <4> QED BY <4>1, AttemptsAssumption DEF IInv, FreshInv, Attempts
    <3>2. ASSUME NEW d \in Conduits, d > MaxAttempts + reconnects
          PROVE  chan'[d] = <<>> /\ reply'[d] = "none" /\ sock'[d] = "none"
      <4>1. d # a /\ d # tx
        <5>1. d \in Nat /\ a \in Nat /\ tx \in Nat /\ MaxAttempts \in Nat /\ reconnects \in Nat
          BY <2>4, BoundsAssumption, AttemptsAssumption, ConduitFacts DEF IInv, TypeOK, UiTypes
        <5> QED BY <3>1, <3>2, <5>1
      <4>2. chan[d] = <<>> /\ reply[d] = "none" /\ sock[d] = "none"
        BY <3>2 DEF IInv, FreshInv
      <4> QED BY <1>2, <2>3, <2>4, <2>5, <4>1, <4>2
    <3> QED BY <1>2, <2>9, <3>1, <3>2 DEF FreshInv
  <2> QED
    BY <1>1, <2>6, <2>10, <2>11, <2>12, <2>15, <2>16 DEF IInv
<1> QED BY <1>3, <1>4

(* Once the session is finished only the log, the channels and the fresh   *)
(* conduits matter.                                                        *)
LEMMA FinishedStep ==
    ASSUME TypeOK', LogInv', ChanInv', FreshInv', stage' = "Finished"
    PROVE  IInv'
BY DEF IInv, LiveInv, StartInv, ReconnectInv, ResumeInv

LEMMA EndSessionStep ==
    ASSUME IInv, EndSession
    PROVE  IInv'
<1>1. TypeOK'
  BY EndSessionType, Zenon DEF IInv
<1>2. UNCHANGED <<tx, reply, srvEvents, events, unacked, reconnects, sock>>
      /\ stage' = "Finished"
  BY DEF EndSession, CloseWithoutReconnection, srvVars, eventVars
<1> DEFINE m == Msg("EndSession", 0)
<1>3. m \in Msgs /\ m.type \notin {"OrderedTerminalEvent", "Reconnect"}
  BY MsgTypes DEF Msg
<1>4. chan' = chan \/ chan' = Queued(tx, <<m>>)
  BY DEF EndSession
<1> HIDE DEF m
<1>5. chan \in [Conduits -> Seq(Msgs)] /\ tx \in Conduits
  BY DEF IInv, TypeOK, ChanTypes
<1>6. \A d \in Conduits : chan'[d] = chan[d] \/ (d = tx /\ chan'[d] = chan[d] \o <<m>>)
  <2>1. CASE chan' = Queued(tx, <<m>>)
    BY <1>5, <2>1, QueuedFacts, Zenon
  <2> QED BY <1>4, <2>1, Zenon
<1>7. LogInv' /\ EventNo' = EventNo /\ EventNo \in Nat
  BY <1>2, LogUnchanged DEF IInv, TypeOK, EventTypes, EventNo
<1>8. ASSUME NEW d \in Conduits
      PROVE  /\ Ordered(chan'[d], srvEvents, EventNo)
             /\ HasReconnect(chan'[d]) => HasReconnect(chan[d])
             /\ HasReconnect(Tail(chan'[d])) => HasReconnect(Tail(chan[d]))
  <2>1. Ordered(chan[d], srvEvents, EventNo) /\ chan[d] \in Seq(Msgs)
    BY <1>5 DEF IInv, ChanInv
  <2>2. CASE chan'[d] = chan[d] \o <<m>>
    BY <1>3, <1>7, <2>1, <2>2, ControlAppended
  <2> QED BY <1>6, <2>1, <2>2
<1>9. ChanInv'
  BY <1>2, <1>7, <1>8 DEF ChanInv
<1>10. FreshInv'
  <2>1. ASSUME NEW d \in Conduits, d > MaxAttempts + reconnects
        PROVE  chan'[d] = <<>> /\ reply'[d] = "none" /\ sock'[d] = "none"
    <3>1. d # tx
      <4>1. tx <= MaxAttempts + reconnects
        BY DEF IInv, FreshInv
      <4>2. reconnects \in Nat /\ MaxAttempts \in Nat /\ d \in Nat /\ tx \in Nat
        BY <1>5, BoundsAssumption, AttemptsAssumption, ConduitFacts DEF IInv, TypeOK, UiTypes
      <4> QED BY <2>1, <4>1, <4>2
    <3>2. chan[d] = <<>> /\ reply[d] = "none" /\ sock[d] = "none"
      BY <2>1 DEF IInv, FreshInv
    <3> QED BY <1>2, <1>6, <3>1, <3>2
  <2>2. ASSUME NEW d \in Conduits, HasReconnect(chan'[d])
        PROVE  reply'[d] = "none" /\ ~HasReconnect(Tail(chan'[d]))
    <3>1. reply[d] = "none" /\ ~HasReconnect(Tail(chan[d]))
      BY <1>8, <2>2 DEF IInv, FreshInv
    <3> QED BY <1>2, <1>8, <3>1
  <2> QED BY <1>2, <2>1, <2>2 DEF FreshInv, IInv
<1> QED
  BY <1>1, <1>2, <1>7, <1>9, <1>10, FinishedStep

(* A reconnection's socket is opened: everything about it is fresh. *)
LEMMA RetrySucceededStep ==
    ASSUME IInv, NEW r \in 0..MaxRetries, RetrySucceeded(r)
    PROVE  IInv'
<1> DEFINE c == MaxAttempts + reconnects + 1
           m == Msg("Reconnect", 0)
<1>1. TypeOK'
  BY RetrySucceededType, Zenon DEF IInv
<1>2. UNCHANGED <<stage, running, reply, resume, srvEvents, events, unacked>>
      /\ reconnects' = reconnects + 1 /\ tx' = c
  BY DEF RetrySucceeded, stageVars, eventVars, uiVars
<1>3. chan' = [chan EXCEPT ![c] = <<m>>] /\ sock' = [sock EXCEPT ![c] = "open"]
  BY DEF RetrySucceeded
<1>4. reconnects \in Nat /\ MaxAttempts \in Nat /\ c \in Conduits /\ c > MaxAttempts + reconnects
  BY BoundsAssumption, AttemptsAssumption DEF IInv, TypeOK, UiTypes, Conduits, RetrySucceeded
<1> HIDE DEF c
<1>5. chan \in [Conduits -> Seq(Msgs)] /\ sock \in [Conduits -> Socks] /\ tx \in Conduits
  BY DEF IInv, TypeOK, ChanTypes
<1>6. chan[c] = <<>> /\ reply[c] = "none"
  BY <1>4 DEF IInv, FreshInv
<1>7. m.type = "Reconnect"
  BY DEF Msg
<1> HIDE DEF m
<1>8. \A d \in Conduits : chan'[d] = IF d = c THEN <<m>> ELSE chan[d]
  BY <1>3, <1>5
<1>9. NoEvents(<<m>>) /\ ~HasReconnect(Tail(<<m>>))
  BY <1>7 DEF NoEvents, HasReconnect
<1>10. LogInv' /\ EventNo' = EventNo
  BY <1>2, LogUnchanged DEF IInv
<1>11. ChanInv'
  <2> SUFFICES ASSUME NEW d \in Conduits PROVE Ordered(chan'[d], srvEvents, EventNo)
    BY <1>2, <1>10 DEF ChanInv
  <2>1. CASE d = c
    BY <1>8, <1>9, <2>1, NoEventsOrdered
  <2>2. CASE d # c
    BY <1>8, <2>2 DEF IInv, ChanInv
  <2> QED BY <2>1, <2>2
<1>12. FreshInv'
  <2>1. ASSUME NEW d \in Conduits, d > MaxAttempts + reconnects'
        PROVE  chan'[d] = <<>> /\ reply'[d] = "none" /\ sock'[d] = "none"
    <3>1. d # c /\ d > MaxAttempts + reconnects
      BY <1>2, <1>4, <2>1, ConduitFacts DEF c
    <3>2. chan[d] = <<>> /\ reply[d] = "none" /\ sock[d] = "none"
      BY <3>1 DEF IInv, FreshInv
    <3> QED BY <1>2, <1>3, <1>5, <1>8, <3>1, <3>2
  <2>2. ASSUME NEW d \in Conduits, HasReconnect(chan'[d])
        PROVE  reply'[d] = "none" /\ ~HasReconnect(Tail(chan'[d]))
    <3>1. CASE d = c
      BY <1>2, <1>6, <1>8, <1>9, <3>1
    <3>2. CASE d # c
      BY <1>2, <1>8, <2>2, <3>2 DEF IInv, FreshInv
    <3> QED BY <3>1, <3>2
  <2>3. tx' <= MaxAttempts + reconnects'
    BY <1>2, <1>4 DEF c
  <2> QED BY <2>1, <2>2, <2>3 DEF FreshInv
<1>13. CASE stage = "Finished"
  BY <1>1, <1>2, <1>10, <1>11, <1>12, <1>13, FinishedStep
<1>14. CASE stage # "Finished"
  <2> DEFINE res == Result(Retry(r), TRUE)
  <2>1. res \in resolved /\ IsChain(res.future) /\ resolved' = resolved \ {res}
    BY ChainKinds DEF RetrySucceeded
  <2> HIDE DEF res
  <2>2. ~NoChain
    BY <2>1, Zenon DEF NoChain
  <2>3. stage = "Reconnecting" /\ OneChain /\ \A d \in Conduits : ~Pending(d)
    BY <1>14, <2>2 DEF IInv, ReconnectInv
  <2>4. NoChain'
    BY <1>2, <2>1, <2>3, Zenon DEF OneChain, NoChain
  <2>5. OneChain'
    BY <2>4, Zenon DEF OneChain, NoChain
  <2>6. ASSUME NEW d \in Conduits, Pending(d)'
        PROVE  d = tx' /\ NoChain' /\ NoEvents(chan'[d])
    <3>1. reply[d] # "reconnected" /\ ~HasReconnect(chan[d])
      BY <2>3 DEF Pending
    <3>2. reply'[d] = "reconnected" \/ HasReconnect(chan'[d])
      BY <2>6 DEF Pending
    <3>3. d = c
      BY <1>2, <1>8, <3>1, <3>2
    <3> QED BY <1>2, <1>8, <1>9, <2>4, <3>3
  <2>7. ReconnectInv'
    BY <1>2, <2>3, <2>5, <2>6 DEF ReconnectInv
  <2>8. LiveInv' /\ StartInv'
    BY <1>2, <2>3 DEF LiveInv, StartInv
  <2>9. ResumeInv'
    BY <1>2, <2>3 DEF ResumeInv, Pending
  <2> QED BY <1>1, <1>10, <1>11, <1>12, <2>7, <2>8, <2>9 DEF IInv
<1> QED BY <1>13, <1>14

-----------------------------------------------------------------------------
(* The log.                                                                *)

(* An acknowledgement. *)
LEMMA EventsProcessedAckStep ==
    ASSUME IInv, NEW c \in Conduits, NEW n \in srvEvents, EventsProcessedAck(c, n)
    PROVE  IInv'
<1>1. TypeOK'
  BY EventsProcessedAckType, Zenon DEF IInv
<1>2. UNCHANGED <<events, srvEvents, stage, running, resolved, tx, chan, open, sock, srvOpen,
                  reply, resume, reconnects>>
  BY DEF EventsProcessedAck, taskVars, stageVars, chanVars, srvVars, uiVars
<1>3. EventNo' = EventNo /\ EventNo \in Nat
  BY <1>2 DEF IInv, TypeOK, EventTypes, EventNo
<1>4. LogInv'
  <2>1. PICK lo, k \in 0..EventNo : LogShape(lo, k)
    BY DEF IInv, LogInv
  <2>2. /\ lo \in 0..EventNo /\ k \in 0..EventNo /\ lo <= k
        /\ unacked = lo..(EventNo - 1) /\ srvEvents = 0..(k - 1)
    BY <2>1 DEF LogShape
  <2>3. n \in 0..(EventNo - 1) /\ n < k
    BY <1>3, <2>2
  <2> DEFINE new == IF n < lo THEN lo ELSE n + 1
  <2>4. new \in 0..EventNo /\ new <= k
    BY <1>3, <2>2, <2>3
  <2>5. unacked \ AckedBy(n) = new..(EventNo - 1)
    BY <1>3, <2>2, <2>3, AckPrefix
  <2> HIDE DEF new
  <2>6. unacked' = lo..(EventNo - 1) \/ unacked' = new..(EventNo - 1)
    BY <2>2, <2>5 DEF EventsProcessedAck
  <2>7. LogShape(lo, k)' \/ LogShape(new, k)'
    BY <1>2, <1>3, <2>2, <2>4, <2>6 DEF LogShape
  <2> QED BY <1>3, <2>2, <2>4, <2>7 DEF LogInv
<1>5. ChanInv' /\ LiveInv' /\ StartInv' /\ ResumeInv'
  BY <1>2, <1>3 DEF IInv, ChanInv, LiveInv, StartInv, ResumeInv
<1>6. FreshInv'
  BY <1>2 DEF IInv, FreshInv
<1>7. ReconnectInv'
  <2>1. /\ NoChain' <=> NoChain
        /\ OneChain' <=> OneChain
        /\ \A d \in Conduits : Pending(d)' <=> Pending(d)
    BY <1>2 DEF NoChain, OneChain, Pending
  <2> QED BY <1>2, <2>1, Zenon DEF IInv, ReconnectInv
<1> QED
  BY <1>1, <1>4, <1>5, <1>6, <1>7 DEF IInv

(* New ordered events: numbered on, stored, and while the session is live  *)
(* queued behind everything that came before them.                         *)
LEMMA SendOrderedStep ==
    ASSUME IInv, TypeOK', NEW ps \in Seq(Seq(Nat)), SendOrdered(ps),
           UNCHANGED <<srvEvents, resolved, tx, sock, srvOpen, reply, resume, reconnects>>
    PROVE  IInv'
<1>1. /\ EventNo \in Nat /\ EventNo' \in Nat /\ EventNo <= EventNo'
      /\ unacked' = unacked \cup (EventNo..(EventNo' - 1))
      /\ stage' \in {stage, "Finished"} /\ running' \subseteq running
      /\ stage' = "Finished" \/ UNCHANGED <<running, open, stage>>
      /\ IF stage = "StartedSuccessfully"
         THEN \E ms : SentFrom(ms, EventNo, EventNo') /\ chan' = Queued(tx, ms)
         ELSE chan' = chan
  BY SendOrderedFacts, Zenon DEF IInv
<1>2. chan \in [Conduits -> Seq(Msgs)] /\ tx \in Conduits
  BY DEF IInv, TypeOK, ChanTypes
<1> DEFINE n == EventNo
           n2 == EventNo'
<1>3. LogInv'
  <2>1. PICK lo, k \in 0..EventNo : LogShape(lo, k)
    BY DEF IInv, LogInv
  <2>2. /\ lo \in 0..EventNo' /\ k \in 0..EventNo' /\ lo <= k
        /\ unacked' = lo..(EventNo' - 1) /\ srvEvents' = 0..(k - 1)
    BY <1>1, <2>1 DEF LogShape
  <2> QED BY <2>2 DEF LogInv, LogShape
<1>4. \A d \in Conduits : Ordered(chan[d], srvEvents, n2)
  BY <1>1, <1>2, OrderedMore DEF IInv, ChanInv
<1>5. CASE stage # "StartedSuccessfully" \/ ~Works(tx)
  <2>1. chan' = chan
    <3>1. CASE stage # "StartedSuccessfully"
      BY <1>1, <3>1
    <3>2. CASE stage = "StartedSuccessfully" /\ ~Works(tx)
      BY <1>1, <3>2, Zenon DEF Queued, Works
    <3> QED BY <1>5, <3>1, <3>2
  <2>2. ChanInv'
    BY <1>4, <2>1 DEF ChanInv
  <2>3. FreshInv'
    BY <2>1 DEF IInv, FreshInv
  <2>4. CASE stage' = "Finished"
    BY <1>3, <2>2, <2>3, <2>4, FinishedStep
  <2>5. CASE stage' # "Finished"
    <3>1. UNCHANGED <<running, open, stage>>
      BY <1>1, <2>5
    <3>2. LiveInv'
      BY <1>5, <2>1, <3>1 DEF LiveInv, Works
    <3>3. StartInv'
      BY <2>1, <3>1 DEF IInv, StartInv
    <3>4. /\ NoChain' <=> NoChain
          /\ OneChain' <=> OneChain
          /\ \A d \in Conduits : Pending(d)' <=> Pending(d)
      BY <2>1, <3>1 DEF NoChain, OneChain, Pending
    <3>5. ReconnectInv'
      BY <2>1, <3>1, <3>4, Zenon DEF IInv, ReconnectInv
    <3>6. ResumeInv'
      <4> SUFFICES ASSUME stage = "Reconnecting", NEW d \in Conduits, reply[d] = "reconnected"
                   PROVE  /\ resume[d] <= EventNo'
                          /\ srvEvents = 0..(resume[d] - 1)
                          /\ \A e \in Conduits \ {d} : ~srvOpen[e]
        BY <3>1 DEF ResumeInv
      <4>1. /\ resume[d] <= EventNo /\ srvEvents = 0..(resume[d] - 1)
            /\ \A e \in Conduits \ {d} : ~srvOpen[e]
        BY DEF IInv, ResumeInv
      <4>2. resume[d] \in Nat
        BY DEF IInv, TypeOK, SrvTypes
      <4> QED BY <1>1, <4>1, <4>2
    <3> QED BY <1>3, <2>2, <2>3, <3>2, <3>3, <3>5, <3>6 DEF IInv
  <2> QED BY <2>4, <2>5
<1>6. CASE stage = "StartedSuccessfully" /\ Works(tx)
  <2>1. PICK ms : SentFrom(ms, n, n2) /\ chan' = Queued(tx, ms)
    BY <1>1, <1>6
  <2>2. \A d \in Conduits : chan'[d] = IF d = tx THEN chan[d] \o ms ELSE chan[d]
    BY <1>2, <1>6, <2>1, QueuedFacts, Zenon
  <2>3. Complete(chan[tx], srvEvents, n)
    BY <1>6 DEF Works, IInv, LiveInv
  <2>4. /\ Ordered(chan'[tx], srvEvents, n2) /\ Complete(chan'[tx], srvEvents, n2)
        /\ HasReconnect(chan'[tx]) => HasReconnect(chan[tx])
        /\ HasReconnect(Tail(chan'[tx])) => HasReconnect(Tail(chan[tx]))
    <3>1. chan[tx] \in Seq(Msgs) /\ Ordered(chan[tx], srvEvents, n)
      BY <1>2 DEF IInv, ChanInv
    <3>2. \A k \in 0..(n - 1) : Before(k, chan[tx], Len(chan[tx]) + 1, srvEvents)
      BY <2>3 DEF Complete
    <3>3. n \in Nat /\ n2 \in Nat /\ n <= n2 /\ SentFrom(ms, n, n2)
      BY <1>1, <2>1
    <3> HIDE DEF n, n2
    <3>4. chan'[tx] = chan[tx] \o ms
      BY <1>2, <2>2
    <3> QED BY <3>1, <3>2, <3>3, <3>4, EventsAppended
  <2>5. ChanInv'
    BY <1>4, <2>2, <2>4 DEF ChanInv
  <2>6. \A d \in Conduits : HasReconnect(chan'[d]) => HasReconnect(chan[d])
    BY <2>2, <2>4, Zenon
  <2>7. FreshInv'
    <3>1. ASSUME NEW d \in Conduits, d > MaxAttempts + reconnects
          PROVE  chan'[d] = <<>> /\ reply'[d] = "none" /\ sock'[d] = "none"
      <4>1. d # tx
        <5>1. tx <= MaxAttempts + reconnects
          BY DEF IInv, FreshInv
        <5>2. reconnects \in Nat /\ MaxAttempts \in Nat /\ d \in Nat /\ tx \in Nat
          BY <1>2, BoundsAssumption, AttemptsAssumption, ConduitFacts DEF IInv, TypeOK, UiTypes
        <5> QED BY <3>1, <5>1, <5>2
      <4>2. chan[d] = <<>> /\ reply[d] = "none" /\ sock[d] = "none"
        BY <3>1 DEF IInv, FreshInv
      <4> QED BY <2>2, <4>1, <4>2
    <3>2. ASSUME NEW d \in Conduits, HasReconnect(chan'[d])
          PROVE  reply'[d] = "none" /\ ~HasReconnect(Tail(chan'[d]))
      <4>1. reply[d] = "none" /\ ~HasReconnect(Tail(chan[d]))
        BY <2>6, <3>2 DEF IInv, FreshInv
      <4> QED BY <2>2, <2>4, <4>1, Zenon
    <3> QED BY <3>1, <3>2 DEF FreshInv, IInv
  <2>8. CASE stage' = "Finished"
    BY <1>3, <2>5, <2>7, <2>8, FinishedStep
  <2>9. CASE stage' # "Finished"
    <3>1. UNCHANGED <<running, open, stage>>
      BY <1>1, <2>9
    <3>2. LiveInv' /\ StartInv' /\ ResumeInv'
      BY <1>6, <2>4, <3>1 DEF LiveInv, StartInv, ResumeInv
    <3>3. NoChain /\ OneChain /\ \A d \in Conduits : ~Pending(d)
      BY <1>6 DEF IInv, ReconnectInv
    <3>4. NoChain' /\ OneChain'
      BY <3>1, <3>3 DEF NoChain, OneChain
    <3>5. \A d \in Conduits : ~Pending(d)'
      BY <2>6, <3>3 DEF Pending
    <3>6. ReconnectInv'
      BY <3>4, <3>5, Zenon DEF ReconnectInv
    <3> QED BY <1>3, <2>5, <2>7, <3>2, <3>6 DEF IInv
  <2> QED BY <2>8, <2>9
<1> QED BY <1>5, <1>6

LEMMA OtherTerminalEventStep ==
    ASSUME IInv, OtherTerminalEvent
    PROVE  IInv'
<1>1. TypeOK'
  BY OtherTerminalEventType, Zenon DEF IInv
<1>2. PICK ps \in Seq(Seq(Nat)) : SendOrdered(ps)
  <2>1. /\ batch \in Seq(Nat) /\ inputs + 1 \in Nat
    BY DEF IInv, TypeOK, EventTypes
  <2> DEFINE x == <<inputs + 1>>
  <2>2. x \in Seq(Nat)
    BY <2>1
  <2>3. SendOrdered(IF batch = <<>> THEN <<x>> ELSE <<batch, x>>)
    BY Zenon DEF OtherTerminalEvent
  <2> HIDE DEF x
  <2>4. <<x>> \in Seq(Seq(Nat)) /\ <<batch, x>> \in Seq(Seq(Nat))
    BY <2>1, <2>2
  <2> QED BY <2>3, <2>4, Zenon
<1>3. UNCHANGED <<srvEvents, resolved, tx, sock, srvOpen, reply, resume, reconnects>>
  BY DEF OtherTerminalEvent, srvVars
<1> QED BY <1>1, <1>2, <1>3, SendOrderedStep

LEMMA BatchTimerFiresStep ==
    ASSUME IInv, BatchTimerFires
    PROVE  IInv'
<1>1. TypeOK'
  BY BatchTimerFiresType, Zenon DEF IInv
<1>2. PICK ps \in Seq(Seq(Nat)) : SendOrdered(ps)
  <2>1. batch \in Seq(Nat)
    BY DEF IInv, TypeOK, EventTypes
  <2>2. <<batch>> \in Seq(Seq(Nat))
    BY <2>1
  <2> QED BY <2>2, Zenon DEF BatchTimerFires
<1>3. UNCHANGED <<srvEvents, resolved, tx, sock, srvOpen, reply, resume, reconnects>>
  BY DEF BatchTimerFires, srvVars
<1> QED BY <1>1, <1>2, <1>3, SendOrderedStep

-----------------------------------------------------------------------------
(* The flushes that make a session live.                                   *)

LEMMA FlushStep ==
    ASSUME IInv, TypeOK', NEW from \in 0..EventNo, NEW ms, SentFrom(ms, from, EventNo),
           chan' = Queued(tx, ms), stage' = "StartedSuccessfully", NoEvents(chan[tx]),
           \A k \in 0..(from - 1) : k \in srvEvents,
           UNCHANGED <<events, unacked, srvEvents, tx, open, sock, reconnects, resolved>>,
           running' \subseteq running, NoChain,
           \A d \in Conduits : ~HasReconnect(chan[d]) /\ reply'[d] # "reconnected",
           \A d \in Conduits : reply[d] = "none" => reply'[d] = "none"
    PROVE  IInv'
<1>1. chan \in [Conduits -> Seq(Msgs)] /\ tx \in Conduits
  BY DEF IInv, TypeOK, ChanTypes
<1>2. LogInv' /\ EventNo' = EventNo /\ EventNo \in Nat
  BY LogUnchanged DEF IInv, TypeOK, EventTypes, EventNo
<1>3. \A d \in Conduits :
        chan'[d] = IF d = tx /\ Works(tx) THEN chan[d] \o ms ELSE chan[d]
  BY <1>1, QueuedFacts, Zenon
<1>4. ASSUME NEW s, s = chan[tx] \o ms
      PROVE  /\ Ordered(s, srvEvents, EventNo) /\ Complete(s, srvEvents, EventNo)
             /\ ~HasReconnect(s)
  <2>1. chan[tx] \in Seq(Msgs) /\ Ordered(chan[tx], srvEvents, EventNo) /\ ~HasReconnect(chan[tx])
    BY <1>1 DEF IInv, ChanInv
  <2>2. \A k \in 0..(from - 1) : Before(k, chan[tx], Len(chan[tx]) + 1, srvEvents)
    BY DEF Before
  <2>3. from \in Nat /\ from <= EventNo /\ EventNo <= EventNo
    BY <1>2
  <2> QED BY <1>2, <1>4, <2>1, <2>2, <2>3, EventsAppended
<1>5. ChanInv'
  <2> SUFFICES ASSUME NEW d \in Conduits PROVE Ordered(chan'[d], srvEvents, EventNo)
    BY <1>2 DEF ChanInv
  <2>1. Ordered(chan[d], srvEvents, EventNo)
    BY DEF IInv, ChanInv
  <2> QED BY <1>3, <1>4, <2>1, Zenon
<1>6. LiveInv'
  <2> SUFFICES ASSUME Works(tx) PROVE Complete(chan'[tx], srvEvents, EventNo)
    BY <1>2 DEF LiveInv, Works
  <2> QED BY <1>1, <1>3, <1>4, Zenon
<1>7. \A d \in Conduits : ~HasReconnect(chan'[d])
  BY <1>3, <1>4, Zenon
<1>8. \A d \in Conduits : ~Pending(d)'
  BY <1>7 DEF Pending
<1>9. NoChain' /\ OneChain'
  <2>1. NoChain'
    BY Zenon DEF NoChain
  <2> QED BY <2>1, Zenon DEF NoChain, OneChain
<1>10. ReconnectInv'
  BY <1>8, <1>9, Zenon DEF ReconnectInv
<1>11. FreshInv'
  <2>1. ASSUME NEW d \in Conduits, d > MaxAttempts + reconnects
        PROVE  chan'[d] = <<>> /\ reply'[d] = "none" /\ sock'[d] = "none"
    <3>1. d # tx
      <4>1. tx <= MaxAttempts + reconnects
        BY DEF IInv, FreshInv
      <4>2. reconnects \in Nat /\ MaxAttempts \in Nat /\ d \in Nat /\ tx \in Nat
        BY <1>1, BoundsAssumption, AttemptsAssumption, ConduitFacts DEF IInv, TypeOK, UiTypes
      <4> QED BY <2>1, <4>1, <4>2
    <3>2. chan[d] = <<>> /\ reply[d] = "none" /\ sock[d] = "none"
      BY <2>1 DEF IInv, FreshInv
    <3> QED BY <1>3, <3>1, <3>2, Zenon
  <2> QED BY <1>7, <2>1 DEF FreshInv, IInv
<1>12. StartInv' /\ ResumeInv'
  BY DEF StartInv, ResumeInv
<1> QED
  BY <1>2, <1>5, <1>6, <1>10, <1>11, <1>12 DEF IInv

LEMMA SessionInitializedStep ==
    ASSUME IInv, NEW c \in Conduits, SessionInitialized(c)
    PROVE  IInv'
<1>1. TypeOK'
  BY SessionInitializedType, Zenon
<1>2. \A d \in Conduits : IF d = c THEN reply'[d] = "answered" ELSE reply'[d] = reply[d]
  BY ConsumeFacts DEF SessionInitialized, IInv
<1>3. /\ UNCHANGED <<events, unacked, srvEvents, resume, reconnects, srvOpen, sock, resolved>>
      /\ UNCHANGED <<tx, open>>
  BY DEF SessionInitialized, eventVars
<1>4. reply[c] = "initialized"
  BY DEF SessionInitialized
<1>5. CASE ~(~Ignored(c) /\ stage = "BeforeStarted")
  <2>1. UNCHANGED <<stage, running, chan>>
    BY <1>5, Zenon DEF SessionInitialized
  <2>2. \A d \in Conduits :
          reply'[d] = reply[d] \/ (reply[d] # "none" /\ reply'[d] \notin {"none", "reconnected"})
    BY <1>2, <1>4
  <2>3. Harmless
    BY <1>3, <2>1, <2>2, Zenon DEF Harmless, Quiet
  <2> QED BY <1>1, <2>3, HarmlessStep
<1>6. CASE ~Ignored(c) /\ stage = "BeforeStarted"
  <2>1. stage' = "StartedSuccessfully" /\ running' \subseteq running /\ chan' = Queued(tx, Flush(0))
    BY <1>6, Zenon DEF SessionInitialized
  <2>2. EventNo \in Nat /\ Flush(0) = [i \in 1..EventNo |-> Event(i - 1)] /\ Flush(0) \in Seq(Msgs)
    BY <1>6, StartFlush
  <2> DEFINE ms == Flush(0)
  <2>3. SentFrom(ms, 0, EventNo)
    <3> HIDE DEF ms
    <3>1. ms = [i \in 1..EventNo |-> Event(i - 1)] /\ ms \in Seq(Msgs)
      BY <2>2 DEF ms
    <3>2. Len(ms) = EventNo /\ \A i \in 1..Len(ms) : ms[i] = Event(0 + i - 1) /\ i <= EventNo - 0
      BY <2>2, <3>1
    <3> QED BY <2>2, <3>1, <3>2 DEF SentFrom
  <2>4. NoChain /\ \A d \in Conduits : ~HasReconnect(chan[d]) /\ reply[d] # "reconnected"
    BY <1>6 DEF IInv, ReconnectInv, Pending
  <2>5. NoEvents(chan[tx])
    BY <1>6 DEF IInv, StartInv, TypeOK, ChanTypes
  <2>6. \A d \in Conduits : /\ ~HasReconnect(chan[d]) /\ reply'[d] # "reconnected"
                            /\ reply[d] = "none" => reply'[d] = "none"
    BY <1>2, <1>4, <2>4
  <2>7. 0 \in 0..EventNo /\ \A k \in 0..(0 - 1) : k \in srvEvents
    BY <2>2
  <2> HIDE DEF ms
  <2>8. chan' = Queued(tx, ms)
    BY <2>1 DEF ms
  <2> QED BY <1>1, <1>3, <2>1, <2>3, <2>4, <2>5, <2>6, <2>7, <2>8, FlushStep, Zenon
<1> QED BY <1>5, <1>6

LEMMA SessionReconnectedStep ==
    ASSUME IInv, NEW c \in Conduits, SessionReconnected(c)
    PROVE  IInv'
<1>1. TypeOK'
  BY SessionReconnectedType, Zenon
<1>2. \A d \in Conduits : IF d = c THEN reply'[d] = "answered" ELSE reply'[d] = reply[d]
  BY ConsumeFacts DEF SessionReconnected, IInv
<1>3. /\ UNCHANGED <<events, unacked, srvEvents, resume, reconnects, srvOpen, sock, resolved>>
      /\ UNCHANGED <<tx, open, running>>
  BY DEF SessionReconnected, eventVars, taskVars, uiVars
<1>4. reply[c] = "reconnected"
  BY DEF SessionReconnected
<1>5. CASE stage # "Reconnecting"
  <2>1. UNCHANGED <<stage, chan>>
    BY <1>5, Zenon DEF SessionReconnected
  <2>2. \A d \in Conduits :
          reply'[d] = reply[d] \/ (reply[d] # "none" /\ reply'[d] \notin {"none", "reconnected"})
    BY <1>2, <1>4
  <2>3. Harmless
    BY <1>3, <2>1, <2>2, Zenon DEF Harmless, Quiet
  <2> QED BY <1>1, <2>3, HarmlessStep
<1>6. CASE stage = "Reconnecting"
  <2> DEFINE from == resume[c]
             ms == Flush(resume[c])
  <2>1. stage' = "StartedSuccessfully" /\ chan' = Queued(tx, ms)
    BY <1>6, Zenon DEF SessionReconnected
  <2>2. /\ EventNo \in Nat /\ from \in 0..EventNo /\ ms \in Seq(Msgs)
        /\ ms = [i \in 1..(EventNo - from) |-> Event(from + i - 1)]
    BY <1>4, <1>6, ResumeFlush
  <2>3. SentFrom(ms, from, EventNo)
    <3> HIDE DEF ms, from
    <3>1. Len(ms) = EventNo - from
          /\ \A i \in 1..Len(ms) : ms[i] = Event(from + i - 1) /\ i <= EventNo - from
      BY <2>2
    <3> QED BY <2>2, <3>1 DEF SentFrom
  <2>4. c = tx /\ NoChain /\ NoEvents(chan[c])
    BY <1>4, <1>6 DEF IInv, ReconnectInv, Pending
  <2>5. \A d \in Conduits : ~HasReconnect(chan[d])
    <3> SUFFICES ASSUME NEW d \in Conduits, HasReconnect(chan[d]) PROVE FALSE
      OBVIOUS
    <3>1. d = tx
      BY <1>6 DEF IInv, ReconnectInv, Pending
    <3>2. reply[d] = "none"
      BY DEF IInv, FreshInv
    <3> QED BY <1>4, <2>4, <3>1, <3>2
  <2>6. \A d \in Conduits : reply'[d] # "reconnected"
    <3> SUFFICES ASSUME NEW d \in Conduits, reply'[d] = "reconnected" PROVE FALSE
      OBVIOUS
    <3>1. d # c /\ reply[d] = "reconnected"
      BY <1>2
    <3>2. d = tx
      BY <1>6, <3>1 DEF IInv, ReconnectInv, Pending
    <3> QED BY <2>4, <3>1, <3>2
  <2>7. \A d \in Conduits : reply[d] = "none" => reply'[d] = "none"
    BY <1>2, <1>4
  <2>8. \A k \in 0..(from - 1) : k \in srvEvents
    BY <1>4, <1>6 DEF IInv, ResumeInv
  <2> HIDE DEF from, ms
  <2> QED BY <1>1, <1>3, <2>1, <2>2, <2>3, <2>4, <2>5, <2>6, <2>7, <2>8, FlushStep, Zenon
<1> QED BY <1>5, <1>6

-----------------------------------------------------------------------------
(* The server takes the head of a channel.                                 *)

LEMMA DeliverStep ==
    ASSUME IInv, NEW c \in Conduits, Deliver(c)
    PROVE  IInv'
<1> DEFINE s == chan[c]
           m == Head(chan[c])
<1>1. TypeOK'
  BY DeliverType, Zenon DEF IInv
<1>2. UNCHANGED <<events, unacked, stage, running, resolved, tx, open, sock, reconnects>>
  BY DEF Deliver, taskVars, stageVars, eventVars, uiVars
<1>3. chan \in [Conduits -> Seq(Msgs)] /\ tx \in Conduits /\ s \in Seq(Msgs) /\ s # <<>>
  BY DEF IInv, TypeOK, ChanTypes, Deliver
<1>4. \A d \in Conduits : chan'[d] = IF d = c THEN Tail(s) ELSE chan[d]
  BY <1>3 DEF Deliver
<1>5. EventNo' = EventNo /\ EventNo \in Nat
  BY <1>2 DEF IInv, TypeOK, EventTypes, EventNo
<1>6. m \in Msgs /\ m = s[1] /\ 1 \in 1..Len(s)
  BY <1>3
<1>7. HasReconnect(Tail(s)) => HasReconnect(s)
  <2> HIDE DEF s
  <2>1. \A i \in 1..Len(Tail(s)) : Tail(s)[i] = s[i + 1] /\ i + 1 \in 1..Len(s)
    BY <1>3
  <2> QED BY <2>1 DEF HasReconnect
<1>8. \A d \in Conduits : HasReconnect(chan'[d]) => d # c /\ HasReconnect(chan[d])
  <2>1. ~HasReconnect(Tail(s))
    BY <1>7 DEF IInv, FreshInv
  <2> QED BY <1>4, <2>1, Zenon
<1>9. /\ srvEvents \subseteq srvEvents'
      /\ m.type = "OrderedTerminalEvent" => m.no \in srvEvents'
      /\ m.type # "OrderedTerminalEvent" => srvEvents' = srvEvents
      /\ m.type # "Reconnect" => UNCHANGED <<srvOpen, resume>>
      /\ \A d \in Conduits : d # c => reply'[d] = reply[d]
      /\ reply'[c] = "reconnected" => m.type = "Reconnect" \/ reply[c] = "reconnected"
  <2>1. reply \in [Conduits -> Replies]
    BY DEF IInv, TypeOK, SrvTypes
  <2> HIDE DEF s, m
  <2>2. \/ /\ m.type = "Initialize"
           /\ \E a \in {"initialized", "busy", "rejected"} : reply' = [reply EXCEPT ![c] = a]
           /\ UNCHANGED <<srvOpen, resume, srvEvents>>
        \/ /\ m.type = "Reconnect"
           /\ \E a \in {"reconnected", "failedToReconnect"} : reply' = [reply EXCEPT ![c] = a]
           /\ UNCHANGED srvEvents
        \/ /\ m.type = "OrderedTerminalEvent"
           /\ srvEvents' = srvEvents \cup {m.no} /\ UNCHANGED <<srvOpen, reply, resume>>
        \/ m.type = "EndSession" /\ UNCHANGED <<srvOpen, reply, resume, srvEvents>>
    <3> DEFINE R1 == IF "reject" \in Faults THEN {"busy", "rejected"} ELSE {}
               R2 == IF "reject" \in Faults \/ srvEnded THEN {"failedToReconnect"} ELSE {}
    <3>1. R1 \subseteq {"busy", "rejected"} /\ R2 \subseteq {"failedToReconnect"}
      OBVIOUS
    <3>2. \/ /\ m.type = "Initialize"
             /\ \E a \in {"initialized"} \cup R1 : reply' = [reply EXCEPT ![c] = a]
             /\ UNCHANGED <<srvOpen, resume, srvEvents>>
          \/ /\ m.type = "Reconnect"
             /\ \E a \in {"reconnected"} \cup R2 : reply' = [reply EXCEPT ![c] = a]
             /\ UNCHANGED srvEvents
          \/ /\ m.type = "OrderedTerminalEvent"
             /\ srvEvents' = srvEvents \cup {m.no} /\ UNCHANGED <<srvOpen, reply, resume>>
          \/ m.type = "EndSession" /\ UNCHANGED <<srvOpen, reply, resume, srvEvents>>
      BY Zenon DEF Deliver, m
    <3> HIDE DEF R1, R2
    <3> QED BY <3>1, <3>2, Zenon
  <2> QED BY <2>1, <2>2
<1>10. \A d \in Conduits :
          /\ Ordered(chan'[d], srvEvents', EventNo)
          /\ NoEvents(chan[d]) => NoEvents(chan'[d])
          /\ Complete(chan[d], srvEvents, EventNo) => Complete(chan'[d], srvEvents', EventNo)
  <2> TAKE d \in Conduits
  <2>1. Ordered(chan[d], srvEvents, EventNo) /\ chan[d] \in Seq(Msgs)
    BY <1>3 DEF IInv, ChanInv
  <2>2. CASE d = c
    <3>1. chan'[d] = Tail(s) /\ s = chan[d]
      BY <1>4, <2>2
    <3> HIDE DEF s
    <3>2. Head(s).type = "OrderedTerminalEvent" => Head(s).no \in srvEvents'
      BY <1>9 DEF s
    <3> QED BY <1>3, <1>5, <1>9, <2>1, <3>1, <3>2, HeadTaken
  <2>3. CASE d # c
    <3>1. chan'[d] = chan[d]
      BY <1>4, <2>3
    <3>2. Ordered(chan[d], srvEvents', EventNo)
      BY <1>5, <1>9, <2>1, OrderedMore
    <3>3. Complete(chan[d], srvEvents, EventNo) => Complete(chan[d], srvEvents', EventNo)
      BY <1>9 DEF Complete, Before
    <3> QED BY <3>1, <3>2, <3>3, Zenon
  <2> QED BY <2>2, <2>3
<1>11. ChanInv'
  BY <1>5, <1>10 DEF ChanInv
<1>12. LiveInv'
  BY <1>2, <1>3, <1>5, <1>10 DEF IInv, LiveInv
<1>13. CASE m.type = "OrderedTerminalEvent"
  <2>1. m.no \in Nat /\ m.no < EventNo /\ \A k \in 0..(m.no - 1) : k \in srvEvents
    <3>1. s[1].no < EventNo /\ \A k \in 0..(s[1].no - 1) : Before(k, s, 1, srvEvents)
      BY <1>6, <1>13 DEF IInv, ChanInv, Ordered
    <3>2. m.no \in Nat
      BY <1>6 DEF Msgs
    <3>3. \A k : Before(k, s, 1, srvEvents) => k \in srvEvents
      BY DEF Before
    <3> HIDE DEF s, m
    <3> QED BY <1>6, <3>1, <3>2, <3>3
  <2>2. srvEvents' = srvEvents \cup {m.no} /\ UNCHANGED <<srvOpen, reply, resume>>
    BY <1>13 DEF Deliver
  <2>3. ~NoEvents(s)
    BY <1>6, <1>13, Zenon DEF NoEvents
  <2> HIDE DEF m, s
  <2>4. LogInv'
    <3>1. PICK lo, k \in 0..EventNo : LogShape(lo, k)
      BY DEF IInv, LogInv
    <3>2. /\ lo \in 0..EventNo /\ k \in 0..EventNo /\ lo <= k
          /\ unacked = lo..(EventNo - 1) /\ srvEvents = 0..(k - 1)
      BY <3>1 DEF LogShape
    <3>3. m.no <= k
      BY <1>5, <2>1, <3>2
    <3>4. CASE m.no < k
      <4>1. srvEvents' = 0..(k - 1)
        BY <2>1, <2>2, <3>2, <3>4
      <4>2. LogShape(lo, k)'
        BY <1>2, <1>5, <3>2, <4>1 DEF LogShape
      <4> QED BY <1>5, <3>2, <4>2 DEF LogInv
    <3>5. CASE m.no = k
      <4>1. srvEvents' = 0..((k + 1) - 1) /\ k + 1 \in 0..EventNo /\ lo <= k + 1
        BY <1>5, <2>1, <2>2, <3>2, <3>5
      <4>2. LogShape(lo, k + 1)'
        BY <1>2, <1>5, <3>2, <4>1 DEF LogShape
      <4> QED BY <1>5, <3>2, <4>1, <4>2 DEF LogInv
    <3> QED BY <1>5, <2>1, <3>2, <3>3, <3>4, <3>5
  <2>5. StartInv'
    BY <1>2, <2>3 DEF IInv, StartInv, s
  <2>6. \A d \in Conduits : Pending(d)' => Pending(d)
    BY <1>8, <2>2 DEF Pending
  <2>7. ReconnectInv'
    <3>1. NoChain' = NoChain /\ OneChain' = OneChain
      BY <1>2 DEF NoChain, OneChain
    <3> QED BY <1>2, <1>10, <2>6, <3>1, Zenon DEF IInv, ReconnectInv
  <2>8. FreshInv'
    <3>1. ASSUME NEW d \in Conduits, d > MaxAttempts + reconnects
          PROVE  chan'[d] = <<>> /\ reply'[d] = "none" /\ sock'[d] = "none"
      <4>1. chan[d] = <<>> /\ reply[d] = "none" /\ sock[d] = "none"
        BY <3>1 DEF IInv, FreshInv
      <4>2. d # c
        BY <1>3, <4>1 DEF s
      <4> QED BY <1>2, <1>4, <2>2, <4>1, <4>2
    <3>2. ASSUME NEW d \in Conduits, HasReconnect(chan'[d])
          PROVE  reply'[d] = "none" /\ ~HasReconnect(Tail(chan'[d]))
      <4>1. d # c /\ HasReconnect(chan[d])
        BY <1>8, <3>2
      <4>2. reply[d] = "none" /\ ~HasReconnect(Tail(chan[d]))
        BY <4>1 DEF IInv, FreshInv
      <4> QED BY <1>4, <2>2, <4>1, <4>2, Zenon
    <3> QED BY <1>2, <3>1, <3>2 DEF FreshInv, IInv
  <2>9. ResumeInv'
    <3> SUFFICES ASSUME stage = "Reconnecting", NEW d \in Conduits, reply[d] = "reconnected"
                 PROVE  FALSE
      BY <1>2, <2>2 DEF ResumeInv
    <3>1. d = tx /\ NoEvents(chan[d])
      BY DEF IInv, ReconnectInv, Pending
    <3>2. \A e \in Conduits \ {d} : ~srvOpen[e]
      BY DEF IInv, ResumeInv
    <3>3. srvOpen[c]
      BY DEF Deliver
    <3>4. c = d
      BY <3>2, <3>3
    <3> QED BY <2>3, <3>1, <3>4 DEF s
  <2> QED BY <1>1, <1>11, <1>12, <2>4, <2>5, <2>7, <2>8, <2>9 DEF IInv
<1>14. CASE m.type # "OrderedTerminalEvent"
  <2>1. srvEvents' = srvEvents
    BY <1>9, <1>14
  <2>2. LogInv'
    BY <1>2, <2>1, LogUnchanged DEF IInv
  <2>3. StartInv'
    BY <1>2, <1>10, <2>1 DEF IInv, StartInv
  <2>4. FreshInv'
    <3>1. ASSUME NEW d \in Conduits, d > MaxAttempts + reconnects
          PROVE  chan'[d] = <<>> /\ reply'[d] = "none" /\ sock'[d] = "none"
      <4>1. chan[d] = <<>> /\ reply[d] = "none" /\ sock[d] = "none"
        BY <3>1 DEF IInv, FreshInv
      <4>2. d # c
        BY <1>3, <4>1
      <4> QED BY <1>2, <1>4, <1>9, <4>1, <4>2
    <3>2. ASSUME NEW d \in Conduits, HasReconnect(chan'[d])
          PROVE  reply'[d] = "none" /\ ~HasReconnect(Tail(chan'[d]))
      <4>1. d # c /\ HasReconnect(chan[d])
        BY <1>8, <3>2
      <4>2. reply[d] = "none" /\ ~HasReconnect(Tail(chan[d]))
        BY <4>1 DEF IInv, FreshInv
      <4>3. chan'[d] = chan[d] /\ reply'[d] = reply[d]
        BY <1>4, <1>9, <4>1
      <4> QED BY <4>2, <4>3
    <3> QED BY <1>2, <3>1, <3>2 DEF FreshInv, IInv
  <2>5. ASSUME NEW d \in Conduits, Pending(d)' PROVE Pending(d)
    <3>1. reply'[d] = "reconnected" \/ HasReconnect(chan'[d])
      BY <2>5 DEF Pending
    <3>2. CASE HasReconnect(chan'[d])
      BY <1>8, <3>2 DEF Pending
    <3>3. CASE reply'[d] = "reconnected" /\ d # c
      BY <1>9, <3>3 DEF Pending
    <3>4. CASE reply'[d] = "reconnected" /\ d = c
      <4>1. reply[c] = "reconnected" \/ m.type = "Reconnect"
        BY <1>9, <3>4
      <4>2. m.type = "Reconnect" => HasReconnect(s)
        BY <1>6, Zenon DEF HasReconnect
      <4> QED BY <3>4, <4>1, <4>2 DEF Pending
    <3> QED BY <3>1, <3>2, <3>3, <3>4
  <2>6. ReconnectInv'
    <3>1. NoChain' = NoChain /\ OneChain' = OneChain
      BY <1>2 DEF NoChain, OneChain
    <3> QED BY <1>2, <1>10, <2>5, <3>1, Zenon DEF IInv, ReconnectInv
  <2>7. ResumeInv'
    <3> SUFFICES ASSUME stage = "Reconnecting", NEW d \in Conduits, reply'[d] = "reconnected"
                 PROVE  /\ resume'[d] <= EventNo
                        /\ srvEvents = 0..(resume'[d] - 1)
                        /\ \A e \in Conduits \ {d} : ~srvOpen'[e]
      BY <1>2, <1>5, <2>1 DEF ResumeInv
    <3>1. d = tx
      <4>1. Pending(d)'
        BY DEF Pending
      <4> QED BY <2>5, <4>1 DEF IInv, ReconnectInv
    <3>2. CASE m.type # "Reconnect"
      <4>1. UNCHANGED <<srvOpen, resume>>
        BY <1>9, <3>2
      <4>2. reply[d] = "reconnected"
        BY <1>9, <3>2
      <4> QED BY <4>1, <4>2 DEF IInv, ResumeInv
    <3>3. CASE m.type = "Reconnect"
      <4>1. HasReconnect(s)
        BY <1>6, <3>3, Zenon DEF HasReconnect
      <4>2. c = tx
        BY <4>1 DEF IInv, ReconnectInv, Pending
      <4> DEFINE next == CHOOSE k \in 0..EventNo :
                            /\ k \notin srvEvents
                            /\ \A n \in 0..(k - 1) : n \in srvEvents
      <4>3. resume' = [resume EXCEPT ![c] = next] /\ srvOpen' = [e \in Conduits |-> e = c]
        BY <3>3, Zenon DEF Deliver
      <4>4. PICK lo, k \in 0..EventNo : LogShape(lo, k)
        BY DEF IInv, LogInv
      <4>5. k \in 0..EventNo /\ srvEvents = 0..(k - 1)
        BY <4>4 DEF LogShape
      <4>6. next = k
        <5>1. k \notin srvEvents /\ \A n \in 0..(k - 1) : n \in srvEvents
          BY <4>5
        <5>2. \A j \in 0..EventNo :
                (j \notin srvEvents /\ \A n \in 0..(j - 1) : n \in srvEvents) => j = k
          BY <1>5, <4>5
        <5> QED BY <4>5, <5>1, <5>2, Zenon
      <4> HIDE DEF next
      <4>7. resume'[d] = k
        BY <3>1, <4>2, <4>3, <4>6 DEF IInv, TypeOK, SrvTypes
      <4>8. \A e \in Conduits \ {d} : ~srvOpen'[e]
        BY <3>1, <4>2, <4>3, Zenon
      <4> QED BY <1>5, <4>5, <4>7, <4>8
    <3> QED BY <3>2, <3>3
  <2> QED BY <1>1, <1>11, <1>12, <2>2, <2>3, <2>4, <2>6, <2>7 DEF IInv
<1> QED BY <1>13, <1>14

-----------------------------------------------------------------------------
(* The invariant is inductive.                                             *)

LEMMA InitIInv == Init => IInv
<1> SUFFICES ASSUME Init PROVE IInv
  OBVIOUS
<1>1. TypeOK
  BY TypeInit
<1>2. EventNo = 0
  BY DEF Init, EventNo
<1>3. \A c \in Conduits : chan[c] = <<>> /\ reply[c] = "none" /\ sock[c] = "none"
  BY DEF Init
<1>4. LogInv
  <2>1. LogShape(0, 0)
    BY <1>2 DEF LogShape, Init
  <2> QED BY <1>2, <2>1 DEF LogInv
<1>5. ChanInv
  BY <1>3, EmptyFacts DEF ChanInv
<1>6. LiveInv /\ ResumeInv
  BY DEF Init, LiveInv, ResumeInv
<1>7. StartInv
  BY <1>3, EmptyFacts DEF StartInv, Init
<1>8. \A c \in Conduits : ~Pending(c)
  BY <1>3, EmptyFacts DEF Pending
<1>9. NoChain
  <2>1. running \subseteq {Connect(1), Timeout(1)} /\ resolved = {}
    BY DEF Init, Timers
  <2>2. ~IsChain(Connect(1)) /\ ~IsChain(Timeout(1))
    BY DEF IsChain, Connect, Timeout, Future
  <2> QED BY <2>1, <2>2, Zenon DEF NoChain
<1>10. ReconnectInv
  <2>1. OneChain
    BY <1>9, Zenon DEF OneChain, NoChain
  <2> QED BY <1>8, <1>9, <2>1, Zenon DEF ReconnectInv
<1>11. FreshInv
  <2>1. tx <= MaxAttempts + reconnects
    BY AttemptsAssumption DEF Init
  <2> QED BY <1>3, <2>1, EmptyFacts DEF FreshInv
<1> QED
  BY <1>1, <1>4, <1>5, <1>6, <1>7, <1>10, <1>11 DEF IInv

LEMMA NextIInv ==
    ASSUME IInv, [Next]_vars
    PROVE  IInv'
<1>1. ASSUME NEW f \in running, NEW ok \in BOOLEAN, Resolve(f, ok)
      PROVE  IInv'
  BY <1>1, ResolveStep
<1>2. ASSUME NEW a \in Attempts, ConnectSucceeded(a)
      PROVE  IInv'
  BY <1>2, ConnectSucceededStep
<1>3. ASSUME NEW a \in Attempts, ConnectFailed(a)
      PROVE  IInv'
  BY <1>3, ConnectFailedStep
<1>4. ASSUME NEW a \in Attempts, AttemptTimedOut(a)
      PROVE  IInv'
  BY <1>4, AttemptTimedOutStep
<1>5. ASSUME NEW r \in 0..MaxRetries, RetrySucceeded(r)
      PROVE  IInv'
  BY <1>5, RetrySucceededStep
<1>6. ASSUME NEW r \in 0..MaxRetries, RetryFailed(r)
      PROVE  IInv'
  BY <1>6, RetryFailedStep
<1>7. ASSUME NEW r \in 0..MaxRetries, BackoffElapsed(r)
      PROVE  IInv'
  BY <1>7, BackoffElapsedStep
<1>8. ASSUME RetriesExhausted
      PROVE  IInv'
  BY <1>8, RetriesExhaustedStep
<1>9. ASSUME NEW c \in Conduits, SendTaskFailureReported(c)
      PROVE  IInv'
  BY <1>9, SendTaskFailureReportedStep
<1>10. ASSUME NEW c \in Conduits, StreamEnds(c)
      PROVE  IInv'
  BY <1>10, StreamEndsStep
<1>11. ASSUME HeartbeatIdle
      PROVE  IInv'
  BY <1>11, HeartbeatIdleStep
<1>12. ASSUME NEW c \in Conduits, Deliver(c)
      PROVE  IInv'
  BY <1>12, DeliverStep
<1>13. ASSUME NEW c \in Conduits, SendTaskEnds(c)
      PROVE  IInv'
  BY <1>13, SendTaskEndsStep
<1>14. ASSUME NEW c \in Conduits, SendTaskFails(c)
      PROVE  IInv'
  BY <1>14, SendTaskFailsStep
<1>15. ASSUME NEW c \in Conduits, SessionInitialized(c)
      PROVE  IInv'
  BY <1>15, SessionInitializedStep
<1>16. ASSUME NEW c \in Conduits, FailedToInitialize(c)
      PROVE  IInv'
  BY <1>16, FailedToInitializeStep
<1>17. ASSUME NEW c \in Conduits, SessionReconnected(c)
      PROVE  IInv'
  BY <1>17, SessionReconnectedStep
<1>18. ASSUME NEW c \in Conduits, FailedToReconnect(c)
      PROVE  IInv'
  BY <1>18, FailedToReconnectStep
<1>19. ASSUME NEW c \in Conduits, SessionTerminated(c)
      PROVE  IInv'
  BY <1>19, SessionTerminatedStep
<1>20. ASSUME NEW c \in Conduits, StreamError(c)
      PROVE  IInv'
  BY <1>20, StreamErrorStep
<1>21. ASSUME NEW c \in Conduits, OtherMessage(c)
      PROVE  IInv'
  BY <1>21, OtherMessageStep
<1>22. ASSUME NEW c \in Conduits, NEW n \in srvEvents, EventsProcessedAck(c, n)
      PROVE  IInv'
  BY <1>22, EventsProcessedAckStep
<1>23. ASSUME NEW c \in Conduits, ServerCloses(c)
      PROVE  IInv'
  BY <1>23, ServerClosesStep
<1>24. ASSUME IdleTimerElapses
      PROVE  IInv'
  BY <1>24, IdleTimerElapsesStep
<1>25. ASSUME PtyBytesRead
      PROVE  IInv'
  BY <1>25, PtyBytesReadStep
<1>26. ASSUME OtherTerminalEvent
      PROVE  IInv'
  BY <1>26, OtherTerminalEventStep
<1>27. ASSUME BatchTimerFires
      PROVE  IInv'
  BY <1>27, BatchTimerFiresStep
<1>28. ASSUME EndSession
      PROVE  IInv'
  BY <1>28, EndSessionStep
<1>29. CASE UNCHANGED vars
  <2>1. UNCHANGED <<stageVars, chanVars, srvVars, eventVars, taskVars, reconnects>> /\ TypeOK'
    BY <1>29 DEF vars, IInv, TypeOK, StageTypes, TaskTypes, ChanTypes, SrvTypes, EventTypes,
       IdleTypes, UiTypes, taskVars, stageVars, chanVars, srvVars, eventVars, idleVars, uiVars
  <2>2. NoChain' = NoChain /\ OneChain' = OneChain
    BY <2>1 DEF taskVars, NoChain, OneChain
  <2> QED BY <2>1, <2>2, TaskStep, Zenon
<1> QED
  BY <1>1, <1>2, <1>3, <1>4, <1>5, <1>6, <1>7, <1>8, <1>9, <1>10, <1>11,
     <1>12, <1>13, <1>14, <1>15, <1>16, <1>17, <1>18, <1>19, <1>20, <1>21,
     <1>22, <1>23, <1>24, <1>25, <1>26, <1>27, <1>28, <1>29, Zenon
     DEF Next, Background, Callback, SendTasks, Receive

-----------------------------------------------------------------------------
(* The theorems.                                                           *)

(* The invariant holds in every state of every execution. *)
THEOREM Invariance == Spec => []IInv
<1>1. Init => IInv
  BY InitIInv
<1>2. IInv /\ [Next]_vars => IInv'
  BY NextIInv
<1> QED BY <1>1, <1>2, PTL DEF Spec

(* Every variable keeps its type. *)
THEOREM TypeCorrect == Spec => []TypeOK
<1>1. IInv => TypeOK
  BY DEF IInv
<1> QED BY <1>1, Invariance, PTL

(* EventsProcessedAck never makes a hole in unacked_terminal_events,       *)
(* whichever acknowledgements arrive in whichever order.                   *)
THEOREM UnackedSuffix == Spec => []UnackedIsSuffix
<1>1. IInv => UnackedIsSuffix
  <2> SUFFICES ASSUME IInv PROVE UnackedIsSuffix
    OBVIOUS
  <2>1. EventNo \in Nat
    BY DEF IInv, TypeOK, EventTypes, EventNo
  <2>2. PICK lo \in 0..EventNo : unacked = lo..(EventNo - 1)
    BY DEF IInv, LogInv, LogShape
  <2> QED BY <2>1, <2>2 DEF UnackedIsSuffix
<1> QED BY <1>1, Invariance, PTL

(* An ordered terminal event is stored until the server has it. *)
THEOREM NoEventForgotten == Spec => []NothingLost
<1>1. IInv => NothingLost
  <2> SUFFICES ASSUME IInv PROVE NothingLost
    OBVIOUS
  <2>1. EventNo \in Nat
    BY DEF IInv, TypeOK, EventTypes, EventNo
  <2>2. PICK lo, k \in 0..EventNo : LogShape(lo, k)
    BY DEF IInv, LogInv
  <2> QED BY <2>1, <2>2 DEF NothingLost, LogShape
<1> QED BY <1>1, Invariance, PTL

(* Whatever sockets come and go, the server receives a prefix of the       *)
(* session.                                                                *)
THEOREM ServerHasPrefix == Spec => []NoGapAtServer
<1>1. IInv => NoGapAtServer
  <2> SUFFICES ASSUME IInv PROVE NoGapAtServer
    OBVIOUS
  <2>1. EventNo \in Nat
    BY DEF IInv, TypeOK, EventTypes, EventNo
  <2>2. PICK lo, k \in 0..EventNo : LogShape(lo, k)
    BY DEF IInv, LogInv
  <2> QED BY <2>1, <2>2 DEF NoGapAtServer, LogShape
<1> QED BY <1>1, Invariance, PTL

LEMMA FinishedStays ==
    ASSUME TypeOK, stage = "Finished", [Next]_vars
    PROVE  stage' = "Finished"
<1>1. ASSUME NEW f \in running, NEW ok \in BOOLEAN, Resolve(f, ok)
      PROVE  stage' = "Finished"
  BY <1>1 DEF Resolve, stageVars
<1>2. ASSUME NEW a \in Attempts, ConnectSucceeded(a)
      PROVE  stage' = "Finished"
  BY <1>2 DEF ConnectSucceeded, stageVars
<1>3. ASSUME NEW a \in Attempts, ConnectFailed(a)
      PROVE  stage' = "Finished"
  BY <1>3, Zenon DEF ConnectFailed, IsActive, startupVars
<1>4. ASSUME NEW a \in Attempts, AttemptTimedOut(a)
      PROVE  stage' = "Finished"
  BY <1>4, Zenon DEF AttemptTimedOut, IsActive, startupVars
<1>5. ASSUME NEW r \in 0..MaxRetries, RetrySucceeded(r)
      PROVE  stage' = "Finished"
  BY <1>5 DEF RetrySucceeded, stageVars
<1>6. ASSUME NEW r \in 0..MaxRetries, RetryFailed(r)
      PROVE  stage' = "Finished"
  BY <1>6 DEF RetryFailed, stageVars
<1>7. ASSUME NEW r \in 0..MaxRetries, BackoffElapsed(r)
      PROVE  stage' = "Finished"
  BY <1>7 DEF BackoffElapsed, stageVars
<1>8. ASSUME RetriesExhausted
      PROVE  stage' = "Finished"
  BY <1>8 DEF RetriesExhausted, CloseWithoutReconnection
<1>9. ASSUME NEW c \in Conduits, SendTaskFailureReported(c)
      PROVE  stage' = "Finished"
  BY <1>9 DEF SendTaskFailureReported, startupVars
<1>10. ASSUME NEW c \in Conduits, StreamEnds(c)
      PROVE  stage' = "Finished"
  BY <1>10, Zenon DEF StreamEnds, Ignored, startupVars
<1>11. ASSUME HeartbeatIdle
      PROVE  stage' = "Finished"
  BY <1>11 DEF HeartbeatIdle, ReconnectWebsocket
<1>12. ASSUME NEW c \in Conduits, Deliver(c)
      PROVE  stage' = "Finished"
  BY <1>12 DEF Deliver, stageVars
<1>13. ASSUME NEW c \in Conduits, SendTaskEnds(c)
      PROVE  stage' = "Finished"
  BY <1>13 DEF SendTaskEnds, stageVars
<1>14. ASSUME NEW c \in Conduits, SendTaskFails(c)
      PROVE  stage' = "Finished"
  BY <1>14 DEF SendTaskFails, stageVars
<1>15. ASSUME NEW c \in Conduits, SessionInitialized(c)
      PROVE  stage' = "Finished"
  BY <1>15 DEF SessionInitialized
<1>16. ASSUME NEW c \in Conduits, FailedToInitialize(c)
      PROVE  stage' = "Finished"
  BY <1>16 DEF FailedToInitialize
<1>17. ASSUME NEW c \in Conduits, SessionReconnected(c)
      PROVE  stage' = "Finished"
  BY <1>17 DEF SessionReconnected
<1>18. ASSUME NEW c \in Conduits, FailedToReconnect(c)
      PROVE  stage' = "Finished"
  BY <1>18 DEF FailedToReconnect, CloseWithoutReconnection
<1>19. ASSUME NEW c \in Conduits, SessionTerminated(c)
      PROVE  stage' = "Finished"
  BY <1>19 DEF SessionTerminated, CloseWithoutReconnection
<1>20. ASSUME NEW c \in Conduits, StreamError(c)
      PROVE  stage' = "Finished"
  BY <1>20 DEF StreamError
<1>21. ASSUME NEW c \in Conduits, OtherMessage(c)
      PROVE  stage' = "Finished"
  BY <1>21 DEF OtherMessage, stageVars
<1>22. ASSUME NEW c \in Conduits, NEW n \in srvEvents, EventsProcessedAck(c, n)
      PROVE  stage' = "Finished"
  BY <1>22 DEF EventsProcessedAck, stageVars
<1>23. ASSUME NEW c \in Conduits, ServerCloses(c)
      PROVE  stage' = "Finished"
  BY <1>23 DEF ServerCloses, stageVars
<1>24. ASSUME IdleTimerElapses
      PROVE  stage' = "Finished"
  BY <1>24 DEF IdleTimerElapses, stageVars
<1>25. ASSUME PtyBytesRead
      PROVE  stage' = "Finished"
  BY <1>25 DEF PtyBytesRead, stageVars
<1>26. ASSUME OtherTerminalEvent
      PROVE  stage' = "Finished"
  BY <1>26, Zenon DEF OtherTerminalEvent, SendOrdered, CloseWithoutReconnection
<1>27. ASSUME BatchTimerFires
      PROVE  stage' = "Finished"
  BY <1>27, Zenon DEF BatchTimerFires, SendOrdered, CloseWithoutReconnection
<1>28. ASSUME EndSession
      PROVE  stage' = "Finished"
  BY <1>28 DEF EndSession, CloseWithoutReconnection
<1>29. CASE UNCHANGED vars
  BY <1>29 DEF vars, stageVars
<1> QED
  BY <1>1, <1>2, <1>3, <1>4, <1>5, <1>6, <1>7, <1>8, <1>9, <1>10, <1>11,
     <1>12, <1>13, <1>14, <1>15, <1>16, <1>17, <1>18, <1>19, <1>20, <1>21,
     <1>22, <1>23, <1>24, <1>25, <1>26, <1>27, <1>28, <1>29, Zenon
     DEF Next, Background, Callback, SendTasks, Receive

(* close_without_reconnection is for good: no late callback, message or    *)
(* timer takes the sharer out of Finished.                                 *)
THEOREM FinishedForGood == Spec => FinishedIsFinal
<1>1. TypeOK /\ [Next]_vars => [stage = "Finished" => stage' = "Finished"]_vars
  BY FinishedStays
<1> QED BY <1>1, TypeCorrect, PTL DEF Spec, FinishedIsFinal

-----------------------------------------------------------------------------
(* Refinement.                                                             *)

LEMMA SeqEqual ==
    ASSUME NEW S, NEW s \in Seq(S), NEW t \in Seq(S), Len(s) = Len(t),
           \A i \in 1..Len(s) : t[i] = s[i]
    PROVE  t = s
OBVIOUS

(* Events are only ever appended. *)
LEMMA GrowStep ==
    ASSUME IInv, NEW ps \in Seq(Seq(Nat)), SendOrdered(ps), srvEvents' = srvEvents
    PROVE  [Log!Next]_<<events, srvEvents>>
<1>1. /\ EventNo \in Nat /\ EventNo' \in Nat /\ EventNo <= EventNo'
      /\ events' \in Seq(Seq(Nat))
      /\ \A i \in 1..EventNo : events'[i] = events[i]
  BY SendOrderedFacts, Zenon DEF IInv
<1>2. events \in Seq(Seq(Nat))
  BY DEF IInv, TypeOK, EventTypes
<1>3. CASE EventNo < EventNo'
  <2>1. Log!Produce
    BY <1>1, <1>3 DEF Log!Produce, EventNo
  <2> QED BY <2>1 DEF Log!Next
<1>4. CASE EventNo = EventNo'
  <2>1. events' = events
    BY <1>1, <1>2, <1>4, SeqEqual DEF EventNo
  <2> QED BY <2>1
<1> QED BY <1>1, <1>3, <1>4

(* Only Deliver changes what the server has, only SendOrdered the log. *)
LEMMA LogSteps ==
    ASSUME IInv, IInv', [Next]_vars
    PROVE  [Log!Next]_<<events, srvEvents>>
<1>1. ASSUME NEW f \in running, NEW ok \in BOOLEAN, Resolve(f, ok)
      PROVE  [Log!Next]_<<events, srvEvents>>
  BY <1>1 DEF Resolve, eventVars, srvVars
<1>2. ASSUME NEW a \in Attempts, ConnectSucceeded(a)
      PROVE  [Log!Next]_<<events, srvEvents>>
  BY <1>2 DEF ConnectSucceeded, eventVars, srvVars
<1>3. ASSUME NEW a \in Attempts, ConnectFailed(a)
      PROVE  [Log!Next]_<<events, srvEvents>>
  BY <1>3 DEF ConnectFailed, eventVars, srvVars
<1>4. ASSUME NEW a \in Attempts, AttemptTimedOut(a)
      PROVE  [Log!Next]_<<events, srvEvents>>
  BY <1>4 DEF AttemptTimedOut, eventVars, srvVars
<1>5. ASSUME NEW r \in 0..MaxRetries, RetrySucceeded(r)
      PROVE  [Log!Next]_<<events, srvEvents>>
  BY <1>5 DEF RetrySucceeded, eventVars, srvVars
<1>6. ASSUME NEW r \in 0..MaxRetries, RetryFailed(r)
      PROVE  [Log!Next]_<<events, srvEvents>>
  BY <1>6 DEF RetryFailed, eventVars, srvVars
<1>7. ASSUME NEW r \in 0..MaxRetries, BackoffElapsed(r)
      PROVE  [Log!Next]_<<events, srvEvents>>
  BY <1>7 DEF BackoffElapsed, eventVars, srvVars
<1>8. ASSUME RetriesExhausted
      PROVE  [Log!Next]_<<events, srvEvents>>
  BY <1>8 DEF RetriesExhausted, eventVars, srvVars
<1>9. ASSUME NEW c \in Conduits, SendTaskFailureReported(c)
      PROVE  [Log!Next]_<<events, srvEvents>>
  BY <1>9 DEF SendTaskFailureReported, eventVars, srvVars
<1>10. ASSUME NEW c \in Conduits, StreamEnds(c)
      PROVE  [Log!Next]_<<events, srvEvents>>
  BY <1>10 DEF StreamEnds, eventVars, srvVars
<1>11. ASSUME HeartbeatIdle
      PROVE  [Log!Next]_<<events, srvEvents>>
  BY <1>11 DEF HeartbeatIdle, eventVars, srvVars
<1>12. ASSUME NEW c \in Conduits, Deliver(c)
      PROVE  [Log!Next]_<<events, srvEvents>>
  <2>1. events' = events /\ srvEvents \subseteq srvEvents'
    BY <1>12 DEF Deliver, eventVars
  <2>2. EventNo \in Nat /\ EventNo' = EventNo /\ EventNo = Len(events)
    BY <2>1 DEF IInv, TypeOK, EventTypes, EventNo
  <2>3. PICK k \in 0..EventNo : srvEvents' = 0..(k - 1)
    BY <2>2 DEF IInv, LogInv, LogShape
  <2>4. CASE k = 0
    BY <2>1, <2>3, <2>4
  <2>5. CASE k # 0
    <3>1. k \in 1..Len(events)
      BY <2>2, <2>5
    <3>2. Log!Deliver
      BY <2>1, <2>3, <3>1 DEF Log!Deliver
    <3> QED BY <3>2 DEF Log!Next
  <2> QED BY <2>4, <2>5
<1>13. ASSUME NEW c \in Conduits, SendTaskEnds(c)
      PROVE  [Log!Next]_<<events, srvEvents>>
  BY <1>13 DEF SendTaskEnds, eventVars, srvVars
<1>14. ASSUME NEW c \in Conduits, SendTaskFails(c)
      PROVE  [Log!Next]_<<events, srvEvents>>
  BY <1>14 DEF SendTaskFails, eventVars, srvVars
<1>15. ASSUME NEW c \in Conduits, SessionInitialized(c)
      PROVE  [Log!Next]_<<events, srvEvents>>
  BY <1>15 DEF SessionInitialized, eventVars, srvVars
<1>16. ASSUME NEW c \in Conduits, FailedToInitialize(c)
      PROVE  [Log!Next]_<<events, srvEvents>>
  BY <1>16 DEF FailedToInitialize, eventVars, srvVars
<1>17. ASSUME NEW c \in Conduits, SessionReconnected(c)
      PROVE  [Log!Next]_<<events, srvEvents>>
  BY <1>17 DEF SessionReconnected, eventVars, srvVars
<1>18. ASSUME NEW c \in Conduits, FailedToReconnect(c)
      PROVE  [Log!Next]_<<events, srvEvents>>
  BY <1>18 DEF FailedToReconnect, eventVars, srvVars
<1>19. ASSUME NEW c \in Conduits, SessionTerminated(c)
      PROVE  [Log!Next]_<<events, srvEvents>>
  BY <1>19 DEF SessionTerminated, eventVars, srvVars
<1>20. ASSUME NEW c \in Conduits, StreamError(c)
      PROVE  [Log!Next]_<<events, srvEvents>>
  BY <1>20 DEF StreamError, eventVars, srvVars
<1>21. ASSUME NEW c \in Conduits, OtherMessage(c)
      PROVE  [Log!Next]_<<events, srvEvents>>
  BY <1>21 DEF OtherMessage, eventVars, srvVars
<1>22. ASSUME NEW c \in Conduits, NEW n \in srvEvents, EventsProcessedAck(c, n)
      PROVE  [Log!Next]_<<events, srvEvents>>
  BY <1>22 DEF EventsProcessedAck, eventVars, srvVars
<1>23. ASSUME NEW c \in Conduits, ServerCloses(c)
      PROVE  [Log!Next]_<<events, srvEvents>>
  BY <1>23 DEF ServerCloses, eventVars, srvVars
<1>24. ASSUME IdleTimerElapses
      PROVE  [Log!Next]_<<events, srvEvents>>
  BY <1>24 DEF IdleTimerElapses, eventVars, srvVars
<1>25. ASSUME PtyBytesRead
      PROVE  [Log!Next]_<<events, srvEvents>>
  BY <1>25 DEF PtyBytesRead, eventVars, srvVars
<1>26. ASSUME OtherTerminalEvent
      PROVE  [Log!Next]_<<events, srvEvents>>
  <2>1. PICK ps \in Seq(Seq(Nat)) : SendOrdered(ps)
    <3> DEFINE x == <<inputs + 1>>
    <3>1. batch \in Seq(Nat) /\ inputs + 1 \in Nat
      BY DEF IInv, TypeOK, EventTypes
    <3>2. x \in Seq(Nat)
      BY <3>1
    <3>3. SendOrdered(IF batch = <<>> THEN <<x>> ELSE <<batch, x>>)
      BY <1>26, Zenon DEF OtherTerminalEvent
    <3> HIDE DEF x
    <3>4. <<x>> \in Seq(Seq(Nat)) /\ <<batch, x>> \in Seq(Seq(Nat))
      BY <3>1, <3>2
    <3> QED BY <3>3, <3>4, Zenon
  <2>2. srvEvents' = srvEvents
    BY <1>26 DEF OtherTerminalEvent, srvVars
  <2> QED BY <2>1, <2>2, GrowStep
<1>27. ASSUME BatchTimerFires
      PROVE  [Log!Next]_<<events, srvEvents>>
  <2>1. PICK ps \in Seq(Seq(Nat)) : SendOrdered(ps)
    <3>1. batch \in Seq(Nat)
      BY DEF IInv, TypeOK, EventTypes
    <3>2. <<batch>> \in Seq(Seq(Nat))
      BY <3>1
    <3> QED BY <1>27, <3>2, Zenon DEF BatchTimerFires
  <2>2. srvEvents' = srvEvents
    BY <1>27 DEF BatchTimerFires, srvVars
  <2> QED BY <2>1, <2>2, GrowStep
<1>28. ASSUME EndSession
      PROVE  [Log!Next]_<<events, srvEvents>>
  BY <1>28 DEF EndSession, eventVars, srvVars
<1>29. CASE UNCHANGED vars
  BY <1>29 DEF vars, eventVars, srvVars
<1> QED
  BY <1>1, <1>2, <1>3, <1>4, <1>5, <1>6, <1>7, <1>8, <1>9, <1>10, <1>11,
     <1>12, <1>13, <1>14, <1>15, <1>16, <1>17, <1>18, <1>19, <1>20, <1>21,
     <1>22, <1>23, <1>24, <1>25, <1>26, <1>27, <1>28, <1>29, Zenon
     DEF Next, Background, Callback, SendTasks, Receive

(* The sharer and the server together implement the log of SessionLog: the *)
(* server's copy is always an initial segment of the session and only      *)
(* grows, across every reconnection.                                       *)
THEOREM ImplementsSessionLog == Spec => RefinesSessionLog
<1>1. Init => Log!Init
  BY DEF Init, Log!Init
<1>2. IInv /\ IInv' /\ [Next]_vars => [Log!Next]_<<events, srvEvents>>
  BY LogSteps
<1> QED
  BY <1>1, <1>2, Invariance, PTL DEF Spec, RefinesSessionLog, Log!Spec, Log!logVars

-----------------------------------------------------------------------------
(* The creation of the session.  Its outcome is open exactly as long as    *)
(* the stage is BeforeStarted, and until then one channel is open.         *)

StartupInv ==
    /\ OneStartupTransport
    /\ StartupOutcomeOnce
    /\ stage = "BeforeStarted" => outcomes = <<>>

LEMMA StartupInit == Init => StartupInv
<1> SUFFICES ASSUME Init PROVE StartupInv
  OBVIOUS
<1>1. \A c \in Conduits : open[c] <=> c = attempt
  BY Zenon DEF Init
<1>2. outcomes = <<>> /\ Len(outcomes) <= 1 /\ tx = attempt
  BY DEF Init
<1> QED BY <1>1, <1>2 DEF StartupInv, OneStartupTransport, StartupOutcomeOnce

(* A step that is not about the startup. *)
LEMMA StartupQuiet ==
    ASSUME StartupInv, UNCHANGED <<stage, attempt, tx, open, outcomes>>
    PROVE  StartupInv'
  BY DEF StartupInv, OneStartupTransport, StartupOutcomeOnce

(* A step that leaves the startup behind. *)
LEMMA StartupLeft ==
    ASSUME StartupInv, stage' # "BeforeStarted", UNCHANGED outcomes
    PROVE  StartupInv'
  BY DEF StartupInv, OneStartupTransport, StartupOutcomeOnce

(* A step that decides the startup. *)
LEMMA StartupDecided ==
    ASSUME StartupInv, stage = "BeforeStarted", stage' # "BeforeStarted",
           NEW o \in {"created", "failed"}, outcomes' = Append(outcomes, o)
    PROVE  StartupInv'
<1>1. outcomes = <<>>
  BY DEF StartupInv
<1>2. Len(outcomes') = 1
  BY <1>1
<1> QED BY <1>2 DEF StartupInv, OneStartupTransport, StartupOutcomeOnce

(* A failed attempt is followed by the next one or decides the startup. *)
LEMMA StartupFails ==
    ASSUME TypeOK, StartupInv, stage = "BeforeStarted",
           NEW retryable \in BOOLEAN, StartupFailure(retryable)
    PROVE  StartupInv'
<1>1. CASE StartupRetries /\ attempt < MaxAttempts
  <2>1. attempt + 1 \in Conduits /\ open \in [Conduits -> BOOLEAN] /\ tx = attempt
    BY <1>1, AttemptsAssumption, BoundsAssumption
       DEF TypeOK, StageTypes, ChanTypes, Attempts, Conduits, StartupInv, OneStartupTransport
  <2>2. \A c \in Conduits : open'[c] <=> c = attempt + 1
    BY <1>1, <2>1 DEF StartupRetries, Closed, StartupInv, OneStartupTransport
  <2> QED
    BY <1>1, <2>2 DEF StartupRetries, StartupInv, OneStartupTransport, StartupOutcomeOnce
<1>2. CASE StartupGivesUp
  BY <1>2, StartupDecided DEF StartupGivesUp
<1>3. attempt < MaxAttempts \/ ~(attempt < MaxAttempts)
  OBVIOUS
<1> QED BY <1>1, <1>2, <1>3, Zenon DEF StartupFailure

(* No reconnection is under way before the session was created. *)
LEMMA NoRetryYet ==
    ASSUME IInv, NEW r \in 0..MaxRetries, Result(Retry(r), TRUE) \in resolved
    PROVE  stage # "BeforeStarted"
<1> SUFFICES ASSUME stage = "BeforeStarted" PROVE FALSE
  OBVIOUS
<1>1. NoChain
  BY DEF IInv, ReconnectInv
<1>2. IsChain(Result(Retry(r), TRUE).future)
  BY DEF IsChain, Result, Retry, Future
<1> QED BY <1>1, <1>2, Zenon DEF NoChain

LEMMA StartupStays ==
    ASSUME IInv, StartupInv, [Next]_vars
    PROVE  StartupInv'
<1>1. ASSUME NEW f \in running, NEW ok \in BOOLEAN, Resolve(f, ok)
      PROVE  StartupInv'
  BY <1>1, StartupQuiet DEF Resolve, stageVars, chanVars, uiVars
<1>2. ASSUME NEW a \in Attempts, ConnectSucceeded(a)
      PROVE  StartupInv'
  BY <1>2, StartupQuiet DEF ConnectSucceeded, stageVars, uiVars
<1>3. ASSUME NEW a \in Attempts, ConnectFailed(a)
      PROVE  StartupInv'
  <2>1. CASE IsActive(a)
    BY <1>3, <2>1, StartupFails, Zenon DEF ConnectFailed, IsActive, IInv
  <2>2. CASE ~IsActive(a)
    BY <1>3, <2>2, StartupQuiet DEF ConnectFailed, startupVars
  <2> QED BY <2>1, <2>2
<1>4. ASSUME NEW a \in Attempts, AttemptTimedOut(a)
      PROVE  StartupInv'
  <2>1. CASE IsActive(a)
    BY <1>4, <2>1, StartupFails, Zenon DEF AttemptTimedOut, IsActive, IInv
  <2>2. CASE ~IsActive(a)
    BY <1>4, <2>2, StartupQuiet DEF AttemptTimedOut, startupVars
  <2> QED BY <2>1, <2>2
<1>5. ASSUME NEW r \in 0..MaxRetries, RetrySucceeded(r)
      PROVE  StartupInv'
  <2>1. stage # "BeforeStarted"
    BY <1>5, NoRetryYet DEF RetrySucceeded
  <2> QED BY <1>5, <2>1, StartupLeft DEF RetrySucceeded, stageVars
<1>6. ASSUME NEW r \in 0..MaxRetries, RetryFailed(r)
      PROVE  StartupInv'
  BY <1>6, StartupQuiet DEF RetryFailed, stageVars, chanVars, uiVars
<1>7. ASSUME NEW r \in 0..MaxRetries, BackoffElapsed(r)
      PROVE  StartupInv'
  BY <1>7, StartupQuiet DEF BackoffElapsed, stageVars, chanVars, uiVars
<1>8. ASSUME RetriesExhausted
      PROVE  StartupInv'
  BY <1>8, StartupLeft DEF RetriesExhausted, CloseWithoutReconnection, uiVars
<1>9. ASSUME NEW c \in Conduits, SendTaskFailureReported(c)
      PROVE  StartupInv'
  <2>1. CASE ~Ignored(c) /\ c \in Attempts /\ stage = "BeforeStarted"
    BY <1>9, <2>1, StartupFails, Zenon DEF SendTaskFailureReported, IInv
  <2>2. CASE ~(~Ignored(c) /\ c \in Attempts /\ stage = "BeforeStarted")
    BY <1>9, <2>2, StartupQuiet DEF SendTaskFailureReported, startupVars
  <2> QED BY <2>1, <2>2
<1>10. ASSUME NEW c \in Conduits, StreamEnds(c)
      PROVE  StartupInv'
  <2>1. CASE Ignored(c)
    BY <1>10, <2>1, StartupQuiet DEF StreamEnds, startupVars
  <2>2. CASE ~Ignored(c) /\ stage = "BeforeStarted"
    BY <1>10, <2>2, StartupFails, Zenon DEF StreamEnds, IInv
  <2>3. CASE ~Ignored(c) /\ stage = "StartedSuccessfully"
    BY <1>10, <2>3, StartupLeft DEF StreamEnds, ReconnectWebsocket
  <2>4. CASE ~Ignored(c) /\ stage \notin {"BeforeStarted", "StartedSuccessfully"}
    BY <1>10, <2>4, StartupLeft DEF StreamEnds
  <2> QED BY <2>1, <2>2, <2>3, <2>4
<1>11. ASSUME HeartbeatIdle
      PROVE  StartupInv'
  <2>1. CASE UNCHANGED stage
    BY <1>11, <2>1, StartupQuiet DEF HeartbeatIdle, chanVars, uiVars
  <2>2. CASE stage' = "Reconnecting"
    BY <1>11, <2>2, StartupLeft DEF HeartbeatIdle, uiVars
  <2> QED BY <1>11, <2>1, <2>2 DEF HeartbeatIdle, ReconnectWebsocket
<1>12. ASSUME NEW c \in Conduits, Deliver(c)
      PROVE  StartupInv'
  BY <1>12, StartupQuiet DEF Deliver, stageVars, uiVars
<1>13. ASSUME NEW c \in Conduits, SendTaskEnds(c)
      PROVE  StartupInv'
  BY <1>13, StartupQuiet DEF SendTaskEnds, stageVars, uiVars
<1>14. ASSUME NEW c \in Conduits, SendTaskFails(c)
      PROVE  StartupInv'
  BY <1>14, StartupQuiet DEF SendTaskFails, stageVars, uiVars
<1>15. ASSUME NEW c \in Conduits, SessionInitialized(c)
      PROVE  StartupInv'
  <2>1. CASE ~Ignored(c) /\ stage = "BeforeStarted"
    BY <1>15, <2>1, StartupDecided, Zenon DEF SessionInitialized
  <2>2. CASE ~(~Ignored(c) /\ stage = "BeforeStarted")
    BY <1>15, <2>2, StartupQuiet DEF SessionInitialized
  <2> QED BY <2>1, <2>2
<1>16. ASSUME NEW c \in Conduits, FailedToInitialize(c)
      PROVE  StartupInv'
  <2>1. CASE ~Ignored(c) /\ stage = "BeforeStarted"
    BY <1>16, <2>1, StartupFails, Zenon DEF FailedToInitialize, IInv
  <2>2. CASE ~(~Ignored(c) /\ stage = "BeforeStarted")
    BY <1>16, <2>2, StartupQuiet DEF FailedToInitialize
  <2> QED BY <2>1, <2>2
<1>17. ASSUME NEW c \in Conduits, SessionReconnected(c)
      PROVE  StartupInv'
  <2>1. CASE stage = "Reconnecting"
    BY <1>17, <2>1, StartupLeft DEF SessionReconnected, uiVars
  <2>2. CASE stage # "Reconnecting"
    BY <1>17, <2>2, StartupQuiet DEF SessionReconnected, uiVars
  <2> QED BY <2>1, <2>2
<1>18. ASSUME NEW c \in Conduits, FailedToReconnect(c)
      PROVE  StartupInv'
  BY <1>18, StartupLeft DEF FailedToReconnect, CloseWithoutReconnection, uiVars
<1>19. ASSUME NEW c \in Conduits, SessionTerminated(c)
      PROVE  StartupInv'
  <2>1. CASE Ignored(c)
    BY <1>19, <2>1, StartupQuiet DEF SessionTerminated, uiVars
  <2>2. CASE ~Ignored(c)
    BY <1>19, <2>2, StartupLeft DEF SessionTerminated, CloseWithoutReconnection, uiVars
  <2> QED BY <2>1, <2>2
<1>20. ASSUME NEW c \in Conduits, StreamError(c)
      PROVE  StartupInv'
  BY <1>20, StartupFails, Zenon DEF StreamError, IInv
<1>21. ASSUME NEW c \in Conduits, OtherMessage(c)
      PROVE  StartupInv'
  BY <1>21, StartupQuiet DEF OtherMessage, stageVars, chanVars, uiVars
<1>22. ASSUME NEW c \in Conduits, NEW n \in srvEvents, EventsProcessedAck(c, n)
      PROVE  StartupInv'
  BY <1>22, StartupQuiet DEF EventsProcessedAck, stageVars, chanVars, uiVars
<1>23. ASSUME NEW c \in Conduits, ServerCloses(c)
      PROVE  StartupInv'
  BY <1>23, StartupQuiet DEF ServerCloses, stageVars, chanVars, uiVars
<1>24. ASSUME IdleTimerElapses
      PROVE  StartupInv'
  BY <1>24, StartupQuiet DEF IdleTimerElapses, stageVars, chanVars, uiVars
<1>25. ASSUME PtyBytesRead
      PROVE  StartupInv'
  BY <1>25, StartupQuiet DEF PtyBytesRead, stageVars, chanVars, uiVars
<1>26. ASSUME OtherTerminalEvent
      PROVE  StartupInv'
  <2>1. CASE UNCHANGED <<open, stage>>
    BY <1>26, <2>1, StartupQuiet DEF OtherTerminalEvent
  <2>2. CASE stage' = "Finished"
    BY <1>26, <2>2, StartupLeft DEF OtherTerminalEvent
  <2>3. UNCHANGED <<open, stage>> \/ stage' = "Finished"
    BY <1>26, Zenon DEF OtherTerminalEvent, SendOrdered, CloseWithoutReconnection
  <2> QED BY <2>1, <2>2, <2>3
<1>27. ASSUME BatchTimerFires
      PROVE  StartupInv'
  <2>1. CASE UNCHANGED <<open, stage>>
    BY <1>27, <2>1, StartupQuiet DEF BatchTimerFires
  <2>2. CASE stage' = "Finished"
    BY <1>27, <2>2, StartupLeft DEF BatchTimerFires
  <2>3. UNCHANGED <<open, stage>> \/ stage' = "Finished"
    BY <1>27, Zenon DEF BatchTimerFires, SendOrdered, CloseWithoutReconnection
  <2> QED BY <2>1, <2>2, <2>3
<1>28. ASSUME EndSession
      PROVE  StartupInv'
  BY <1>28, StartupLeft DEF EndSession, CloseWithoutReconnection
<1>29. CASE UNCHANGED vars
  BY <1>29, StartupQuiet DEF vars, stageVars, chanVars, uiVars
<1> QED
  BY <1>1, <1>2, <1>3, <1>4, <1>5, <1>6, <1>7, <1>8, <1>9, <1>10, <1>11,
     <1>12, <1>13, <1>14, <1>15, <1>16, <1>17, <1>18, <1>19, <1>20, <1>21,
     <1>22, <1>23, <1>24, <1>25, <1>26, <1>27, <1>28, <1>29, Zenon
     DEF Next, Background, Callback, SendTasks, Receive

LEMMA StartupInvariance == Spec => []StartupInv
<1>1. Init => StartupInv
  BY StartupInit
<1>2. IInv /\ StartupInv /\ [Next]_vars => StartupInv'
  BY StartupStays
<1> QED BY <1>1, <1>2, Invariance, PTL DEF Spec

(* Whatever stale timeouts, connects and socket events arrive, the session *)
(* is reported created or failed at most once.                             *)
THEOREM DecidedOnce == Spec => []StartupOutcomeOnce
<1>1. StartupInv => StartupOutcomeOnce
  BY DEF StartupInv
<1> QED BY <1>1, StartupInvariance, PTL

(* Until the session is created only the current attempt can be written    *)
(* to, and it can: ConnectSucceeded's try_send does not fail.              *)
THEOREM OneTransport == Spec => []OneStartupTransport
<1>1. StartupInv => OneStartupTransport
  BY DEF StartupInv
<1> QED BY <1>1, StartupInvariance, PTL
-----------------------------------------------------------------------------
(* The order of the output.  While the session is within its limit, the    *)
(* events and then the batch count the inputs one by one.                  *)

Consecutive(s) == \A i \in 2..Len(s) : s[i] = s[i - 1] + 1
Last(s) == s[Len(s)]

(* The last input that ev carries. *)
Carried(ev) == IF ev = <<>> THEN 0 ELSE Last(Last(ev))

Linked(ev) ==
    /\ \A k \in 1..Len(ev) : ev[k] # <<>> /\ Consecutive(ev[k])
    /\ \A k \in 2..Len(ev) : ev[k][1] = Last(ev[k - 1]) + 1
    /\ ev # <<>> => ev[1][1] = 1

OrderInv ==
    numBytes <= MaxBytes =>
        /\ Linked(events)
        /\ batch = <<>> => inputs = Carried(events)
        /\ batch # <<>> => /\ Consecutive(batch)
                           /\ batch[1] = Carried(events) + 1
                           /\ Last(batch) = inputs

LEMMA AppendFacts ==
    ASSUME NEW ev \in Seq(Seq(Nat)), NEW run \in Seq(Nat)
    PROVE  /\ Append(ev, run) \in Seq(Seq(Nat)) /\ Append(ev, run) # <<>>
           /\ Len(Append(ev, run)) = Len(ev) + 1 /\ Len(ev) \in Nat
           /\ Append(ev, run)[Len(ev) + 1] = run
           /\ \A i \in 1..Len(ev) : Append(ev, run)[i] = ev[i]
           /\ DOMAIN Append(ev, run) = 1..(Len(ev) + 1)
           /\ ev = <<>> <=> Len(ev) = 0
           /\ ev \o <<run>> = Append(ev, run)
           /\ \A last \in Seq(Nat) : ev \o <<run, last>> = Append(Append(ev, run), last)
<1> DEFINE S == Seq(Nat)
<1>1. ev \in Seq(S) /\ run \in S
  OBVIOUS
<1> SUFFICES /\ Append(ev, run) \in Seq(S) /\ Append(ev, run) # <<>>
             /\ Len(Append(ev, run)) = Len(ev) + 1 /\ Len(ev) \in Nat
             /\ Append(ev, run)[Len(ev) + 1] = run
             /\ \A i \in 1..Len(ev) : Append(ev, run)[i] = ev[i]
             /\ DOMAIN Append(ev, run) = 1..(Len(ev) + 1)
             /\ ev = <<>> <=> Len(ev) = 0
             /\ ev \o <<run>> = Append(ev, run)
             /\ \A last \in S : ev \o <<run, last>> = Append(Append(ev, run), last)
  OBVIOUS
<1> HIDE DEF S
<1> QED BY <1>1

(* A run that starts after what was carried may be appended. *)
LEMMA RunAppended ==
    ASSUME NEW ev \in Seq(Seq(Nat)), NEW run \in Seq(Nat), Linked(ev),
           run # <<>>, Consecutive(run), run[1] = Carried(ev) + 1
    PROVE  /\ Append(ev, run) \in Seq(Seq(Nat))
           /\ Linked(Append(ev, run))
           /\ Carried(Append(ev, run)) = Last(run)
<1> DEFINE new == Append(ev, run)
<1>a. new \in Seq(Seq(Nat))
  BY AppendFacts
<1>1. /\ Len(new) = Len(ev) + 1 /\ new # <<>>
      /\ new[Len(ev) + 1] = run
      /\ \A k \in 1..Len(ev) : new[k] = ev[k]
      /\ Len(ev) \in Nat
      /\ ev = <<>> <=> Len(ev) = 0
  BY AppendFacts
<1>2. ev = <<>> \/ Len(ev) >= 1
  BY <1>1
<1> HIDE DEF new
<1>3. Carried(new) = Last(run)
  BY <1>1 DEF Carried, Last
<1>4. \A k \in 1..Len(new) : new[k] # <<>> /\ Consecutive(new[k])
  <2>1. ASSUME NEW k \in 1..Len(new), k # Len(ev) + 1 PROVE k \in 1..Len(ev)
    BY <1>1, <2>1
  <2> QED BY <1>1, <2>1, Zenon DEF Linked
<1>5. ASSUME NEW k \in 2..Len(new) PROVE new[k][1] = Last(new[k - 1]) + 1
  <2>1. CASE k = Len(ev) + 1
    <3>1. Len(ev) \in 1..Len(ev) /\ k - 1 = Len(ev) /\ Len(ev) # 0
      BY <1>1, <1>5, <2>1
    <3>2. ev # <<>> /\ new[k] = run /\ new[k - 1] = Last(ev)
      BY <1>1, <2>1, <3>1, Zenon DEF Last
    <3> QED BY <3>2 DEF Carried
  <2>2. CASE k # Len(ev) + 1
    <3>1. k \in 2..Len(ev) /\ k \in 1..Len(ev) /\ k - 1 \in 1..Len(ev)
      BY <1>1, <1>5, <2>2
    <3>2. new[k] = ev[k] /\ new[k - 1] = ev[k - 1]
      BY <1>1, <3>1, Zenon
    <3> QED BY <3>1, <3>2 DEF Linked
  <2> QED BY <2>1, <2>2
<1>6. new[1][1] = 1
  <2>1. CASE ev = <<>>
    <3>1. Len(ev) = 0 /\ Carried(ev) = 0
      BY <2>1 DEF Carried
    <3> QED BY <1>1, <3>1
  <2>2. CASE ev # <<>>
    BY <1>1, <1>2, <2>2 DEF Linked
  <2> QED BY <2>1, <2>2
<1>7. Linked(new)
  BY <1>4, <1>5, <1>6 DEF Linked
<1> QED BY <1>a, <1>3, <1>7 DEF new

(* Within the limit all of the payloads are numbered. *)
LEMMA AllFit ==
    ASSUME TypeOK, NEW ps \in Seq(Seq(Nat)), SendOrdered(ps), numBytes' <= MaxBytes
    PROVE  numBytes <= MaxBytes /\ events' = events \o ps
<1> DEFINE room == IF numBytes < MaxBytes THEN MaxBytes - numBytes ELSE 0
           len  == IF room < Len(ps) THEN room ELSE Len(ps)
           fit  == SubSeq(ps, 1, len)
<1>1. numBytes \in Nat /\ Len(ps) \in Nat /\ MaxBytes \in Nat
  BY BytesAssumption DEF TypeOK, EventTypes
<1>2. numBytes' = numBytes + Len(ps) /\ events' = events \o fit
  BY DEF SendOrdered
<1>3. len = Len(ps) /\ numBytes <= MaxBytes
  BY <1>1, <1>2
<1>4. fit = ps
  <2> HIDE DEF len
  <2> QED BY <1>3
<1> QED BY <1>2, <1>3, <1>4

(* What changes nothing that OrderInv is about. *)
LEMMA OrderQuiet ==
    ASSUME OrderInv, UNCHANGED <<events, batch, inputs, numBytes>>
    PROVE  OrderInv'
BY DEF OrderInv, Linked, Carried, Consecutive, Last

LEMMA PtyBytesReadOrder ==
    ASSUME TypeOK, OrderInv, PtyBytesRead
    PROVE  OrderInv'
<1> SUFFICES ASSUME numBytes' <= MaxBytes
             PROVE  /\ Linked(events') /\ batch' # <<>>
                    /\ Consecutive(batch') /\ batch'[1] = Carried(events') + 1
                    /\ Last(batch') = inputs'
  BY DEF OrderInv
<1>1. /\ batch \in Seq(Nat) /\ inputs \in Nat
  BY BoundsAssumption DEF TypeOK, EventTypes
<1>2. /\ batch' = Append(batch, inputs + 1) /\ inputs' = inputs + 1
      /\ events' = events /\ numBytes' = numBytes
  BY DEF PtyBytesRead
<1>3. /\ Linked(events)
      /\ batch = <<>> => inputs = Carried(events)
      /\ batch # <<>> => /\ Consecutive(batch)
                         /\ batch[1] = Carried(events) + 1
                         /\ Last(batch) = inputs
  BY <1>2 DEF OrderInv
<1>4. /\ Len(batch') = Len(batch) + 1 /\ batch' # <<>> /\ Len(batch) \in Nat
      /\ batch'[Len(batch) + 1] = inputs + 1
      /\ \A i \in 1..Len(batch) : batch'[i] = batch[i]
      /\ batch = <<>> <=> Len(batch) = 0
  BY <1>1, <1>2
<1>5. Consecutive(batch')
  <2> SUFFICES ASSUME NEW i \in 2..Len(batch') PROVE batch'[i] = batch'[i - 1] + 1
    BY DEF Consecutive
  <2>1. CASE i = Len(batch) + 1
    BY <1>3, <1>4, <2>1 DEF Last
  <2>2. CASE i # Len(batch) + 1
    <3>1. i \in 2..Len(batch) /\ i - 1 \in 1..Len(batch) /\ i \in 1..Len(batch) /\ batch # <<>>
      BY <1>4, <2>2
    <3> QED BY <1>3, <1>4, <3>1 DEF Consecutive
  <2> QED BY <2>1, <2>2
<1>6. batch'[1] = Carried(events) + 1
  BY <1>3, <1>4
<1> QED BY <1>2, <1>3, <1>4, <1>5, <1>6 DEF Last

LEMMA BatchTimerFiresOrder ==
    ASSUME TypeOK, OrderInv, BatchTimerFires
    PROVE  OrderInv'
<1> SUFFICES ASSUME numBytes' <= MaxBytes
             PROVE  Linked(events') /\ batch' = <<>> /\ inputs' = Carried(events')
  BY DEF OrderInv
<1>1. batch \in Seq(Nat) /\ events \in Seq(Seq(Nat)) /\ <<batch>> \in Seq(Seq(Nat))
  BY DEF TypeOK, EventTypes
<1>2. batch # <<>> /\ batch' = <<>> /\ inputs' = inputs /\ SendOrdered(<<batch>>)
  BY DEF BatchTimerFires
<1>3. numBytes <= MaxBytes /\ events' = events \o <<batch>>
  BY <1>1, <1>2, AllFit
<1>4. events' = Append(events, batch)
  BY <1>1, <1>3, AppendFacts
<1>5. Linked(events) /\ Consecutive(batch) /\ batch[1] = Carried(events) + 1 /\ Last(batch) = inputs
  BY <1>2, <1>3 DEF OrderInv
<1> QED BY <1>1, <1>2, <1>4, <1>5, RunAppended, Zenon

LEMMA OtherTerminalEventOrder ==
    ASSUME TypeOK, OrderInv, OtherTerminalEvent
    PROVE  OrderInv'
<1> DEFINE x == <<inputs + 1>>
<1> SUFFICES ASSUME numBytes' <= MaxBytes
             PROVE  Linked(events') /\ batch' = <<>> /\ inputs' = Carried(events')
  BY DEF OrderInv
<1>1. batch \in Seq(Nat) /\ events \in Seq(Seq(Nat)) /\ inputs \in Nat
  BY BoundsAssumption DEF TypeOK, EventTypes
<1>2. /\ batch' = <<>> /\ inputs' = inputs + 1
      /\ SendOrdered(IF batch = <<>> THEN <<x>> ELSE <<batch, x>>)
  BY DEF OtherTerminalEvent
<1>3. x \in Seq(Nat) /\ x # <<>> /\ x[1] = inputs + 1 /\ Len(x) = 1
  BY <1>1
<1>4. Consecutive(x) /\ Last(x) = inputs + 1
  BY <1>3 DEF Consecutive, Last
<1> HIDE DEF x
<1>5. CASE batch = <<>>
  <2>1. <<x>> \in Seq(Seq(Nat)) /\ SendOrdered(<<x>>)
    BY <1>2, <1>3, <1>5
  <2>2. numBytes <= MaxBytes /\ events' = events \o <<x>>
    BY <2>1, AllFit
  <2>3. events' = Append(events, x)
    BY <1>1, <1>3, <2>2, AppendFacts
  <2>4. Linked(events) /\ inputs = Carried(events)
    BY <1>5, <2>2 DEF OrderInv
  <2>5. Linked(events') /\ Carried(events') = Last(x)
    BY <1>1, <1>3, <1>4, <2>3, <2>4, RunAppended, Zenon
  <2> QED BY <1>2, <1>4, <2>5
<1>6. CASE batch # <<>>
  <2>1. <<batch, x>> \in Seq(Seq(Nat)) /\ SendOrdered(<<batch, x>>)
    BY <1>1, <1>2, <1>3, <1>6
  <2>2. numBytes <= MaxBytes /\ events' = events \o <<batch, x>>
    BY <2>1, AllFit
  <2> DEFINE mid == Append(events, batch)
  <2>3. mid \in Seq(Seq(Nat)) /\ events' = Append(mid, x)
    BY <1>1, <1>3, <2>2, AppendFacts
  <2>4. Linked(events) /\ Consecutive(batch) /\ batch[1] = Carried(events) + 1 /\ Last(batch) = inputs
    BY <1>6, <2>2 DEF OrderInv
  <2>5. Linked(mid) /\ Carried(mid) = inputs
    BY <1>1, <1>6, <2>4, RunAppended, Zenon
  <2> HIDE DEF mid
  <2>6. Linked(events') /\ Carried(events') = Last(x)
    BY <1>3, <1>4, <2>3, <2>5, RunAppended, Zenon
  <2> QED BY <1>2, <1>4, <2>6
<1> QED BY <1>5, <1>6

(* Only the three actions of the output change what OrderInv is about. *)
LEMMA OrderStays ==
    ASSUME TypeOK, OrderInv, [Next]_vars
    PROVE  OrderInv'
<1>1. ASSUME NEW f \in running, NEW ok \in BOOLEAN, Resolve(f, ok)
      PROVE  OrderInv'
  BY <1>1, OrderQuiet DEF Resolve, eventVars
<1>2. ASSUME NEW a \in Attempts, ConnectSucceeded(a)
      PROVE  OrderInv'
  BY <1>2, OrderQuiet DEF ConnectSucceeded, eventVars
<1>3. ASSUME NEW a \in Attempts, ConnectFailed(a)
      PROVE  OrderInv'
  BY <1>3, OrderQuiet DEF ConnectFailed, eventVars
<1>4. ASSUME NEW a \in Attempts, AttemptTimedOut(a)
      PROVE  OrderInv'
  BY <1>4, OrderQuiet DEF AttemptTimedOut, eventVars
<1>5. ASSUME NEW r \in 0..MaxRetries, RetrySucceeded(r)
      PROVE  OrderInv'
  BY <1>5, OrderQuiet DEF RetrySucceeded, eventVars
<1>6. ASSUME NEW r \in 0..MaxRetries, RetryFailed(r)
      PROVE  OrderInv'
  BY <1>6, OrderQuiet DEF RetryFailed, eventVars
<1>7. ASSUME NEW r \in 0..MaxRetries, BackoffElapsed(r)
      PROVE  OrderInv'
  BY <1>7, OrderQuiet DEF BackoffElapsed, eventVars
<1>8. ASSUME RetriesExhausted
      PROVE  OrderInv'
  BY <1>8, OrderQuiet DEF RetriesExhausted, eventVars
<1>9. ASSUME NEW c \in Conduits, SendTaskFailureReported(c)
      PROVE  OrderInv'
  BY <1>9, OrderQuiet DEF SendTaskFailureReported, eventVars
<1>10. ASSUME NEW c \in Conduits, StreamEnds(c)
      PROVE  OrderInv'
  BY <1>10, OrderQuiet DEF StreamEnds, eventVars
<1>11. ASSUME HeartbeatIdle
      PROVE  OrderInv'
  BY <1>11, OrderQuiet DEF HeartbeatIdle, eventVars
<1>12. ASSUME NEW c \in Conduits, Deliver(c)
      PROVE  OrderInv'
  BY <1>12, OrderQuiet DEF Deliver, eventVars
<1>13. ASSUME NEW c \in Conduits, SendTaskEnds(c)
      PROVE  OrderInv'
  BY <1>13, OrderQuiet DEF SendTaskEnds, eventVars
<1>14. ASSUME NEW c \in Conduits, SendTaskFails(c)
      PROVE  OrderInv'
  BY <1>14, OrderQuiet DEF SendTaskFails, eventVars
<1>15. ASSUME NEW c \in Conduits, SessionInitialized(c)
      PROVE  OrderInv'
  BY <1>15, OrderQuiet DEF SessionInitialized, eventVars
<1>16. ASSUME NEW c \in Conduits, FailedToInitialize(c)
      PROVE  OrderInv'
  BY <1>16, OrderQuiet DEF FailedToInitialize, eventVars
<1>17. ASSUME NEW c \in Conduits, SessionReconnected(c)
      PROVE  OrderInv'
  BY <1>17, OrderQuiet DEF SessionReconnected, eventVars
<1>18. ASSUME NEW c \in Conduits, FailedToReconnect(c)
      PROVE  OrderInv'
  BY <1>18, OrderQuiet DEF FailedToReconnect, eventVars
<1>19. ASSUME NEW c \in Conduits, SessionTerminated(c)
      PROVE  OrderInv'
  BY <1>19, OrderQuiet DEF SessionTerminated, eventVars
<1>20. ASSUME NEW c \in Conduits, StreamError(c)
      PROVE  OrderInv'
  BY <1>20, OrderQuiet DEF StreamError, eventVars
<1>21. ASSUME NEW c \in Conduits, OtherMessage(c)
      PROVE  OrderInv'
  BY <1>21, OrderQuiet DEF OtherMessage, eventVars
<1>22. ASSUME NEW c \in Conduits, NEW n \in srvEvents, EventsProcessedAck(c, n)
      PROVE  OrderInv'
  BY <1>22, OrderQuiet DEF EventsProcessedAck, eventVars
<1>23. ASSUME NEW c \in Conduits, ServerCloses(c)
      PROVE  OrderInv'
  BY <1>23, OrderQuiet DEF ServerCloses, eventVars
<1>24. ASSUME IdleTimerElapses
      PROVE  OrderInv'
  BY <1>24, OrderQuiet DEF IdleTimerElapses, eventVars
<1>25. ASSUME PtyBytesRead
      PROVE  OrderInv'
  BY <1>25, PtyBytesReadOrder
<1>26. ASSUME OtherTerminalEvent
      PROVE  OrderInv'
  BY <1>26, OtherTerminalEventOrder
<1>27. ASSUME BatchTimerFires
      PROVE  OrderInv'
  BY <1>27, BatchTimerFiresOrder
<1>28. ASSUME EndSession
      PROVE  OrderInv'
  BY <1>28, OrderQuiet DEF EndSession, eventVars
<1>29. CASE UNCHANGED vars
  BY <1>29, OrderQuiet DEF vars, eventVars
<1> QED
  BY <1>1, <1>2, <1>3, <1>4, <1>5, <1>6, <1>7, <1>8, <1>9, <1>10, <1>11,
     <1>12, <1>13, <1>14, <1>15, <1>16, <1>17, <1>18, <1>19, <1>20, <1>21,
     <1>22, <1>23, <1>24, <1>25, <1>26, <1>27, <1>28, <1>29, Zenon
     DEF Next, Background, Callback, SendTasks, Receive

(* What the viewer gets is the terminal's output in the order the terminal *)
(* produced it, however reads are batched and whatever interrupts a batch. *)
THEOREM EventsInOrder == Spec => []InOrder
<1>1. Init => OrderInv
  <2> SUFFICES ASSUME Init PROVE OrderInv
    OBVIOUS
  <2>1. events = <<>> /\ batch = <<>> /\ inputs = 0
    BY DEF Init
  <2> QED BY <2>1 DEF OrderInv, Linked, Carried
<1>2. TypeOK /\ OrderInv /\ [Next]_vars => OrderInv'
  BY OrderStays
<1>3. TypeOK /\ OrderInv => InOrder
  <2> SUFFICES ASSUME TypeOK, OrderInv, numBytes <= MaxBytes
               PROVE  /\ \A k \in DOMAIN Runs : Consecutive(Runs[k])
                      /\ \A k \in 2..Len(Runs) :
                           Runs[k] # <<>> => Runs[k][1] = Last(Runs[k - 1]) + 1
                      /\ Runs # <<<<>>>> => Runs[1][1] = 1
    BY DEF InOrder, Consecutive, Last
  <2>1. events \in Seq(Seq(Nat)) /\ batch \in Seq(Nat)
    BY DEF TypeOK, EventTypes
  <2>2. /\ Linked(events)
        /\ batch # <<>> => Consecutive(batch) /\ batch[1] = Carried(events) + 1
    BY DEF OrderInv
  <2>3. CASE batch # <<>>
    <3>1. Linked(Runs) /\ Runs \in Seq(Seq(Nat)) /\ Runs # <<>>
      BY <2>1, <2>2, <2>3, RunAppended, SMTT(30) DEF Runs
    <3>2. DOMAIN Runs = 1..Len(Runs)
      BY <3>1
    <3> QED BY <3>1, <3>2 DEF Linked
  <2>4. CASE batch = <<>>
    <3>1. /\ DOMAIN Runs = 1..(Len(events) + 1) /\ Len(Runs) = Len(events) + 1
          /\ Len(events) \in Nat /\ Runs[Len(events) + 1] = <<>>
          /\ \A k \in 1..Len(events) : Runs[k] = events[k]
          /\ events = <<>> <=> Len(events) = 0
      BY <2>1, <2>4, AppendFacts DEF Runs
    <3>6. events = <<>> => Runs = <<<<>>>>
      BY <2>4 DEF Runs
    <3>2. Consecutive(<<>>)
      BY DEF Consecutive
    <3>3. \A k \in DOMAIN Runs : Consecutive(Runs[k])
      BY <2>2, <3>1, <3>2 DEF Linked
    <3>4. ASSUME NEW k \in 2..Len(Runs), Runs[k] # <<>>
          PROVE  Runs[k][1] = Last(Runs[k - 1]) + 1
      <4>1. k \in 2..Len(events) /\ k \in 1..Len(events) /\ k - 1 \in 1..Len(events)
        BY <3>1, <3>4
      <4> QED BY <2>2, <3>1, <4>1 DEF Linked
    <3>5. Runs # <<<<>>>> => Runs[1][1] = 1
      BY <2>2, <3>1, <3>6 DEF Linked
    <3> QED BY <3>3, <3>4, <3>5
  <2> QED BY <2>3, <2>4
<1> QED BY <1>1, <1>2, <1>3, TypeCorrect, PTL DEF Spec
=============================================================================
