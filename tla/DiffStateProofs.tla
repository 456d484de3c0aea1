-------------------------- MODULE DiffStateProofs --------------------------
(***************************************************************************)
(* What holds of the task queue and of the diffs that it keeps up to date, *)
(* for any files, any number of changes, retries and results, whatever the *)
(* order of callbacks and whichever commands fail.                         *)
(***************************************************************************)
EXTENDS DiffState, FiniteSetTheorems, SequenceTheorems, TLAPS

USE DEF Ready

-----------------------------------------------------------------------------
(* The queue.                                                              *)

(* The ids in the channel grow, as they were handed out. *)
Increasing == \A i, j \in 1..Len(channel) : i < j => channel[i] < channel[j]

(* Tasks are known by their ids, and each one's id is in the channel. *)
Ticketed ==
    /\ \A t \in taskMap : \E i \in 1..Len(channel) : channel[i] = t.id
    /\ \A t, u \in taskMap : t.id = u.id => t = u

ActiveShape ==
    active = [pc |-> active.pc, task |-> active.task, attempts |-> active.attempts,
              result |-> active.result, aborted |-> active.aborted]

QueueInv ==
    /\ nextTask \in Nat /\ channel \in Seq(1..nextTask)
    /\ Increasing /\ Ticketed
    /\ ActiveShape /\ HandleIsActives

(* Nothing that the channel part of the invariant speaks of changes. *)
LEMMA SameChannel ==
    ASSUME QueueInv, UNCHANGED <<nextTask, channel>>, taskMap' \subseteq taskMap,
           ActiveShape', HandleIsActives'
    PROVE  QueueInv'
BY DEF QueueInv, Increasing, Ticketed

(* A list made for the numbers up to n is a sequence of length n. *)
LEMMA ListLength ==
    ASSUME NEW args, NEW n \in Nat, args = [i \in 1..n |-> args[i]]
    PROVE  DOMAIN args = 1..n /\ Len(args) = n
<1> DEFINE S == {args[i] : i \in 1..n}
<1>1. args \in [1..n -> S]
  OBVIOUS
<1>2. args \in Seq(S)
  BY <1>1, SeqDef, Zenon
<1>3. DOMAIN args = 1..n
  BY <1>1
<1>4. Len(args) \in Nat /\ DOMAIN args = 1..Len(args)
  BY <1>2, LenProperties, Zenon
<1> QED  BY <1>3, <1>4

(* The new ids come after all others, in the channel and by number. *)
LEMMA EnqueueKeeps ==
    ASSUME QueueInv, NEW args, NEW n \in Nat, args = [i \in 1..n |-> args[i]],
           Enqueue(args), UNCHANGED <<active, handle>>
    PROVE  QueueInv'
<1> DEFINE ids == [i \in 1..n |-> nextTask + i]
           old == Len(channel)
           all == nextTask + n
<1>1. DOMAIN args = 1..n /\ Len(args) = n
  BY ListLength
<1>2. nextTask \in Nat /\ channel \in Seq(1..nextTask) /\ old \in Nat
      /\ (\A i \in 1..old : channel[i] \in 1..nextTask)
  BY LenProperties, ElementOfSeq DEF QueueInv
<1>3. nextTask' = all /\ channel' = channel \o ids
      /\ taskMap' = taskMap \cup {[id |-> nextTask + i, arg |-> args[i]] : i \in 1..n}
  BY <1>1 DEF Enqueue
<1>4. ids \in Seq(1..all) /\ Len(ids) = n /\ channel \in Seq(1..all)
  <2>1. ids \in [1..n -> 1..all]
    BY <1>2
  <2>2. ids \in Seq(1..all)
    BY <2>1, SeqDef, ZenonT(60)
  <2>3. Len(ids) = n
    BY ListLength
  <2>4. 1..nextTask \subseteq 1..all
    BY <1>2
  <2> QED  BY <1>2, <2>2, <2>3, <2>4, SeqMonotonic
<1> HIDE DEF ids
<1>5. channel' \in Seq(1..all) /\ Len(channel') = old + n
      /\ \A i \in 1..(old + n) : channel'[i] = IF i <= old THEN channel[i] ELSE ids[i - old]
  BY <1>3, <1>4, ConcatProperties
<1>6. \A i \in 1..old : channel'[i] = channel[i]
  BY <1>2, <1>5
<1>7. \A i \in 1..n : channel'[old + i] = nextTask + i
  <2> SUFFICES ASSUME NEW i \in 1..n PROVE channel'[old + i] = nextTask + i
    OBVIOUS
  <2> HIDE DEF old
  <2>1. old + i \in 1..(old + n) /\ ~(old + i <= old) /\ (old + i) - old = i
    BY <1>2
  <2>2. channel'[old + i] = ids[i]
    BY <1>5, <2>1
  <2> QED  BY <2>2 DEF ids
<1>8. \A i \in (old + 1)..(old + n) : i - old \in 1..n /\ channel'[i] = nextTask + (i - old)
  <2> SUFFICES ASSUME NEW i \in (old + 1)..(old + n)
               PROVE  i - old \in 1..n /\ channel'[i] = nextTask + (i - old)
    OBVIOUS
  <2> HIDE DEF old
  <2>1. i - old \in 1..n /\ old + (i - old) = i
    BY <1>2
  <2> QED  BY <1>7, <2>1
<1>9. Increasing'
  <2> SUFFICES ASSUME NEW i \in 1..(old + n), NEW j \in 1..(old + n), i < j
               PROVE  channel'[i] < channel'[j]
    BY <1>5 DEF Increasing
  <2> HIDE DEF old
  <2>1. CASE j <= old
    <3>1. i \in 1..old /\ j \in 1..old
      BY <1>2, <2>1
    <3>2. channel[i] < channel[j]
      BY <3>1 DEF QueueInv, Increasing, old
    <3> QED  BY <1>6, <3>1, <3>2
  <2>2. CASE i <= old /\ j > old
    <3>1. channel'[i] \in 1..nextTask /\ channel'[j] = nextTask + (j - old) /\ j - old \in 1..n
      BY <1>2, <1>6, <1>8, <2>2
    <3> QED  BY <1>2, <3>1
  <2>3. CASE i > old
    <3>1. channel'[i] = nextTask + (i - old) /\ channel'[j] = nextTask + (j - old)
      BY <1>2, <1>8, <2>3
    <3> QED  BY <1>2, <3>1
  <2> QED  BY <1>2, <2>1, <2>2, <2>3
<1>10. Ticketed'
  <2>1. ASSUME NEW t \in taskMap'
        PROVE  \E i \in 1..Len(channel') : channel'[i] = t.id
    <3>1. CASE t \in taskMap
      <4>1. PICK i \in 1..old : channel[i] = t.id
        BY <3>1 DEF QueueInv, Ticketed
      <4> QED  BY <1>2, <1>5, <1>6, <4>1
    <3>2. CASE t \notin taskMap
      <4>1. PICK i \in 1..n : t = [id |-> nextTask + i, arg |-> args[i]]
        BY <1>3, <3>2
      <4>2. old + i \in 1..Len(channel') /\ channel'[old + i] = t.id
        BY <1>2, <1>5, <1>7, <4>1, SMTT(30)
      <4> QED  BY <4>2
    <3> QED  BY <3>1, <3>2
  <2>2. ASSUME NEW t \in taskMap', NEW u \in taskMap', t.id = u.id
        PROVE  t = u
    <3>1. \A v \in taskMap : v.id \in 1..nextTask
      BY <1>2 DEF QueueInv, Ticketed
    <3>2. \A v \in taskMap' : v \in taskMap
              \/ \E i \in 1..n : v = [id |-> nextTask + i, arg |-> args[i]]
      BY <1>3
    <3>3. CASE t \in taskMap /\ u \in taskMap
      BY <2>2, <3>3 DEF QueueInv, Ticketed
    <3>4. CASE t \notin taskMap /\ u \notin taskMap
      <4>1. PICK i \in 1..n : t = [id |-> nextTask + i, arg |-> args[i]]
        BY <3>2, <3>4
      <4>2. PICK j \in 1..n : u = [id |-> nextTask + j, arg |-> args[j]]
        BY <3>2, <3>4
      <4>3. i = j
        BY <1>2, <2>2, <4>1, <4>2
      <4> QED  BY <4>1, <4>2, <4>3
    <3>5. CASE (t \in taskMap) # (u \in taskMap)
      <4>1. \A v \in taskMap' : v \notin taskMap => v.id > nextTask
        BY <1>2, <3>2
      <4> QED  BY <1>2, <2>2, <3>1, <3>5, <4>1
    <3> QED  BY <3>3, <3>4, <3>5
  <2> QED  BY <2>1, <2>2 DEF Ticketed
<1>11. nextTask' \in Nat /\ channel' \in Seq(1..nextTask')
  BY <1>2, <1>3, <1>5
<1>12. ActiveShape' /\ HandleIsActives'
  BY DEF QueueInv, ActiveShape, HandleIsActives
<1> QED  BY <1>9, <1>10, <1>11, <1>12 DEF QueueInv

(* The id that is taken from the channel is that of no other task. *)
LEMMA TailKeeps ==
    ASSUME QueueInv, channel # <<>>, channel' = Tail(channel), nextTask' = nextTask,
           taskMap' \subseteq taskMap, \A t \in taskMap' : t.id # Head(channel),
           ActiveShape', HandleIsActives'
    PROVE  QueueInv'
<1>1. channel \in Seq(1..nextTask) /\ Len(channel) \in Nat
  BY LenProperties DEF QueueInv
<1>2. channel' \in Seq(1..nextTask) /\ Len(channel') = Len(channel) - 1
      /\ \A i \in 1..Len(channel') : channel'[i] = channel[i + 1]
  BY <1>1, HeadTailProperties
<1>3. Head(channel) = channel[1]
  BY <1>1
<1>4. Increasing'
  BY <1>1, <1>2 DEF QueueInv, Increasing
<1>5. Ticketed'
  <2>1. ASSUME NEW t \in taskMap'
        PROVE  \E i \in 1..Len(channel') : channel'[i] = t.id
    <3>1. PICK i \in 1..Len(channel) : channel[i] = t.id
      BY <2>1 DEF QueueInv, Ticketed
    <3>2. i # 1
      BY <1>3, <2>1, <3>1
    <3>3. i - 1 \in 1..Len(channel') /\ channel'[i - 1] = t.id
      BY <1>1, <1>2, <3>1, <3>2
    <3> QED  BY <3>3
  <2> QED  BY <2>1 DEF QueueInv, Ticketed
<1> QED  BY <1>2, <1>4, <1>5 DEF QueueInv

(* What is left of the background future's steps, and of cancel_all.       *)
LEMMA ActiveKeeps ==
    ASSUME QueueInv, UNCHANGED <<nextTask, taskMap, channel>>,
           KeepHandle \/ AttemptFails \/ TaskEnds \/ ForgetHandle \/ Report \/ CancelAborts
               \/ \E v : Computes(v)
    PROVE  QueueInv'
<1>1. ActiveShape /\ HandleIsActives
  BY DEF QueueInv
<1>2. ActiveShape' /\ HandleIsActives'
  <2> USE <1>1 DEF ActiveShape, HandleIsActives
  <2>1. CASE KeepHandle
    BY <2>1 DEF KeepHandle
  <2>2. CASE AttemptFails
    BY <2>2 DEF AttemptFails
  <2>3. CASE TaskEnds
    BY <2>3 DEF TaskEnds
  <2>4. CASE ForgetHandle
    BY <2>4 DEF ForgetHandle, Idle
  <2>5. CASE Report
    BY <2>5 DEF Report, Idle
  <2>6. CASE CancelAborts
    BY <2>6 DEF CancelAborts
  <2>7. CASE \E v : Computes(v)
    BY <2>7 DEF Computes
  <2> QED  BY <2>1, <2>2, <2>3, <2>4, <2>5, <2>6, <2>7
<1> QED  BY <1>2, SameChannel

LEMMA ProcessQueueKeeps == QueueInv /\ ProcessQueue => QueueInv'
<1> SUFFICES ASSUME QueueInv, ProcessQueue PROVE QueueInv'  OBVIOUS
<1>1. CASE PickTask
  <2>1. PICK t \in taskMap : /\ t.id = Head(channel) /\ taskMap' = taskMap \ {t}
                            /\ active' = [Idle EXCEPT !.pc = "picked", !.task = t]
    BY <1>1 DEF PickTask
  <2>2. \A u \in taskMap' : u.id # Head(channel)
    BY <2>1 DEF QueueInv, Ticketed
  <2>3. ActiveShape'
    BY <2>1 DEF ActiveShape, Idle
  <2>4. HandleIsActives'
    BY <1>1 DEF QueueInv, HandleIsActives, PickTask
  <2> QED  BY <1>1, <2>1, <2>2, <2>3, <2>4, TailKeeps DEF PickTask
<1>2. CASE SkipTask
  <2>1. ActiveShape' /\ HandleIsActives'
    BY <1>2 DEF SkipTask, QueueInv, ActiveShape, HandleIsActives
  <2> QED  BY <1>2, <2>1, TailKeeps DEF SkipTask
<1>3. CASE KeepHandle \/ AttemptFails \/ TaskEnds \/ ForgetHandle \/ Report
  BY <1>3, ActiveKeeps DEF KeepHandle, AttemptFails, TaskEnds, ForgetHandle, Report
<1> QED  BY <1>1, <1>2, <1>3 DEF ProcessQueue

-----------------------------------------------------------------------------
(* The diffs.                                                              *)

(* Outside a callback, an open pane in a branch mode that takes single     *)
(* updates has a merge base, unless one could not be computed.             *)
BaseKnown ==
    enabled /\ step = "ready" /\ ~invalidateAllPending /\ mode # "Head" /\ mergeBase = None
        => baseFailed

JobShape(j) == j = [id |-> j.id, kind |-> j.kind, mode |-> j.mode, value |-> j.value]

JobsShaped == \A j \in jobs : JobShape(j)

Finite ==
    /\ commit \in Nat
    /\ deferred \subseteq Files
    /\ events \in Seq([files : SUBSET Files, kind : {"files", "commit", "lock", "lockedIndex"}])

IInv ==
    /\ QueueInv /\ Finite /\ BaseKnown /\ JobsShaped
    /\ OnlyActiveEscapes /\ BaselessOnlyAfterFailure

LEMMA InitHolds == Init => IInv
<1> SUFFICES ASSUME Init PROVE IInv  OBVIOUS
<1>1. QueueInit
  BY DEF Init
<1>2. channel = <<>> /\ Len(channel) = 0 /\ taskMap = {}
  BY <1>1 DEF QueueInit
<1>3. QueueInv
  BY <1>1, <1>2 DEF QueueInit, QueueInv, Increasing, Ticketed, ActiveShape, HandleIsActives, Idle
<1>4. Finite
  BY DEF Init, Finite
<1>5. BaseKnown /\ JobsShaped /\ OnlyActiveEscapes /\ BaselessOnlyAfterFailure
  BY <1>2 DEF Init, BaseKnown, JobsShaped, OnlyActiveEscapes, BaselessOnlyAfterFailure
<1> QED  BY <1>3, <1>4, <1>5 DEF IInv

(* Single files are enqueued, all with the parameters of the moment. *)
LEMMA TasksEnqueued ==
    ASSUME IInv, step = "ready", UNCHANGED <<active, handle, gen>>,
           NEW fs \in SUBSET Files, NEW base, NEW args,
           args = [i \in 1..Cardinality(fs) |-> args[i]],
           \A i \in 1..Cardinality(fs) :
               args[i].gen = gen /\ args[i].mode = mode /\ args[i].base = base,
           baseFailed => baseFailed', mode # "Head" /\ base = None => baseFailed',
           Enqueue(args)
    PROVE  QueueInv' /\ OnlyActiveEscapes' /\ BaselessOnlyAfterFailure'
<1>1. Cardinality(fs) \in Nat
  BY DiffBounds, FS_Subset, FS_CardinalityType
<1>2. QueueInv'
  BY <1>1, EnqueueKeeps DEF IInv
<1>3. DOMAIN args = 1..Cardinality(fs)
  BY <1>1, ListLength
<1>4. \A t \in taskMap' : t \in taskMap \/ \E i \in 1..Cardinality(fs) : t.arg = args[i]
  BY <1>3 DEF Enqueue
<1>5. OnlyActiveEscapes'
  BY <1>4 DEF IInv, OnlyActiveEscapes
<1>6. BaselessOnlyAfterFailure'
  BY <1>4 DEF IInv, BaselessOnlyAfterFailure
<1> QED  BY <1>2, <1>5, <1>6

(* The first half of a callback that cancels: no task counts as of the     *)
(* present until the second half is done.                                  *)
LEMMA BeginCancelKeeps ==
    ASSUME IInv, NEW rest, rest # "ready", BeginCancel(rest), UNCHANGED baseFailed
    PROVE  QueueInv' /\ OnlyActiveEscapes' /\ BaselessOnlyAfterFailure' /\ BaseKnown'
<1>1. QueueInv'
  BY ActiveKeeps DEF IInv, BeginCancel
<1>2. step' # "ready" /\ taskMap' = taskMap
  BY DEF BeginCancel
<1> QED  BY <1>1, <1>2 DEF IInv, OnlyActiveEscapes, BaselessOnlyAfterFailure, BaseKnown

(* deferred files are enqueued with the merge base of the moment. *)
LEMMA FlushKeeps ==
    ASSUME IInv, step = "ready", NEW base, Flush(base), baseFailed => baseFailed',
           mode # "Head" /\ base = None => baseFailed',
           UNCHANGED <<active, handle, gen, mode>>
    PROVE  QueueInv' /\ OnlyActiveEscapes' /\ BaselessOnlyAfterFailure' /\ BaseKnown' /\ deferred' = {}
<1> DEFINE n == Cardinality(deferred)
           args == [i \in 1..n |-> [ArgFor(SetToSeq(deferred)[i]) EXCEPT !.base = base]]
<1>1. deferred \in SUBSET Files
  BY DEF IInv, Finite
<1>2. args = [i \in 1..n |-> args[i]]
  OBVIOUS
<1>3. \A i \in 1..n : args[i].gen = gen /\ args[i].mode = mode /\ args[i].base = base
  BY DEF ArgFor
<1>4. Enqueue(args) /\ mergeBase' = base /\ deferred' = {}
  BY DEF Flush
<1> HIDE DEF args
<1>5. QueueInv' /\ OnlyActiveEscapes' /\ BaselessOnlyAfterFailure'
  BY <1>1, <1>2, <1>3, <1>4, TasksEnqueued
<1>6. BaseKnown'
  BY <1>4 DEF BaseKnown
<1> QED  BY <1>4, <1>5, <1>6

LEMMA WorldStep == IInv /\ World => IInv'
<1> SUFFICES ASSUME IInv, World PROVE IInv'  OBVIOUS
<1> DEFINE Event == [files : SUBSET Files, kind : {"files", "commit", "lock", "lockedIndex"}]
<1>1. UNCHANGED <<queueVars, mainVars>>
  BY DEF World, Edit, Commit, LockChanges
<1>2. commit' \in Nat
  BY DEF World, Edit, Commit, LockChanges, IInv, Finite
<1>3. PICK e \in Event : events' = Append(events, e)
  <2>1. CASE \E fs \in SUBSET Files : Edit(fs)
    BY <2>1 DEF Edit, Reports
  <2>2. CASE \E fs \in SUBSET Files : Commit(fs)
    BY <2>2 DEF Commit, Reports
  <2>3. CASE LockChanges
    BY <2>3 DEF LockChanges, Reports
  <2> QED  BY <2>1, <2>2, <2>3 DEF World
<1>4. Finite'
  <2>1. events' \in Seq(Event)
    BY <1>3, AppendProperties DEF IInv, Finite
  <2> QED  BY <1>1, <1>2, <2>1 DEF IInv, Finite, mainVars
<1>5. QueueInv'
  BY <1>1 DEF IInv, QueueInv, queueVars, Increasing, Ticketed, ActiveShape, HandleIsActives
<1>6. BaseKnown' /\ OnlyActiveEscapes' /\ BaselessOnlyAfterFailure'
  BY <1>1 DEF IInv, queueVars, mainVars, BaseKnown, OnlyActiveEscapes, BaselessOnlyAfterFailure
<1>7. JobsShaped'
  BY <1>1 DEF IInv, mainVars, JobsShaped, JobShape
<1> QED  BY <1>4, <1>5, <1>6, <1>7 DEF IInv

(* A git command ends: it stays the same command. *)
LEMMA JobGoesOn ==
    ASSUME NEW j \in jobs, JobShape(j), NEW v, JobEnds(j, v)
    PROVE  LET k == [id |-> j.id, kind |-> j.kind, mode |-> j.mode, value |-> v]
           IN  JobShape(k) /\ jobs' = (jobs \ {j}) \cup {k}
<1>1. [j EXCEPT !.value = v] = [id |-> j.id, kind |-> j.kind, mode |-> j.mode, value |-> v]
  BY DEF JobShape
<1> QED  BY <1>1 DEF JobEnds, JobShape

LEMMA JobStep ==
    ASSUME IInv, NEW j \in jobs, JobReads(j) \/ JobFails(j)
    PROVE  IInv'
<1>1. PICK v : JobEnds(j, v)
  BY DEF JobReads, JobFails
<1>2. UNCHANGED <<queueVars, worldVars, userActs, enabled, mode, step, invalidateAllPending,
                  mergeBase, deferred, loadHandle, baseHandle, shown, gen, historyVars>>
  BY <1>1 DEF JobEnds
<1>3. JobsShaped'
  <2> DEFINE k == [id |-> j.id, kind |-> j.kind, mode |-> j.mode, value |-> v]
  <2>1. JobShape(k) /\ jobs' = (jobs \ {j}) \cup {k}
    BY <1>1, JobGoesOn DEF IInv, JobsShaped
  <2> HIDE DEF k
  <2> QED  BY <2>1 DEF IInv, JobsShaped, JobShape
<1>4. QueueInv'
  BY <1>2 DEF IInv, QueueInv, queueVars, Increasing, Ticketed, ActiveShape, HandleIsActives
<1>5. BaseKnown' /\ OnlyActiveEscapes' /\ BaselessOnlyAfterFailure' /\ Finite'
  BY <1>2 DEF IInv, queueVars, worldVars, historyVars, Ready, BaseKnown, OnlyActiveEscapes,
              BaselessOnlyAfterFailure, Finite
<1> QED  BY <1>3, <1>4, <1>5 DEF IInv

(* What is spawned has read nothing yet; what is aborted goes. *)
LEMMA JobsSpawned ==
    ASSUME JobsShaped, NEW js, js \subseteq jobs, NEW kind, NEW m, NEW ks, NEW other,
           jobs' = js \cup {Spawned(kind, m, ks, other)}
    PROVE  JobsShaped'
<1> DEFINE k == Spawned(kind, m, ks, other)
<1>1. JobShape(k)
  BY DEF Spawned, JobShape
<1> HIDE DEF k
<1> QED  BY <1>1 DEF JobsShaped, JobShape, k

LEMMA FewerJobs == JobsShaped /\ jobs' \subseteq jobs => JobsShaped'
BY DEF JobsShaped, JobShape

(* cancel_all is done: the map is empty, the merge base forgotten. *)
LEMMA FinishCancelStep == IInv /\ FinishCancel => IInv'
<1> SUFFICES ASSUME IInv, FinishCancel PROVE IInv'  OBVIOUS
<1>1. taskMap' = {} /\ invalidateAllPending' = TRUE
  BY DEF FinishCancel, CancelClears, InvalidateAll
<1>2. QueueInv'
  <2>1. UNCHANGED <<nextTask, channel, active, handle>>
    BY DEF FinishCancel
  <2>2. ActiveShape' /\ HandleIsActives'
    BY <2>1 DEF IInv, QueueInv, ActiveShape, HandleIsActives
  <2> QED  BY <1>1, <2>1, <2>2, SameChannel DEF IInv
<1>3. BaseKnown' /\ OnlyActiveEscapes' /\ BaselessOnlyAfterFailure'
  BY <1>1 DEF BaseKnown, OnlyActiveEscapes, BaselessOnlyAfterFailure
<1>4. Finite'
  BY DEF FinishCancel, worldVars, IInv, Finite
<1>5. JobsShaped'
  <2> DEFINE kept == Without(jobs, baseHandle)
             left == Without(kept, loadHandle)
  <2>1. kept \subseteq jobs /\ left \subseteq jobs
    BY DEF Without
  <2>2. CASE step = "reload"
    <3>1. jobs' = left \cup {Spawned("load", mode, left, 0)}
      BY <2>2 DEF FinishCancel
    <3> HIDE DEF kept, left
    <3> QED  BY <2>1, <3>1, JobsSpawned DEF IInv
  <2>3. CASE step # "reload"
    <3>1. jobs' = kept
      BY <2>3 DEF FinishCancel
    <3> QED  BY <2>1, <3>1, FewerJobs DEF IInv
  <2> QED  BY <2>2, <2>3
<1> QED  BY <1>2, <1>3, <1>4, <1>5 DEF IInv

(* A reported change cancels, is deferred, or enqueues single files.       *)
LEMMA HandleEventStep == IInv /\ HandleEvent => IInv'
<1> SUFFICES ASSUME IInv, HandleEvent PROVE IInv'  OBVIOUS
<1> DEFINE Event == [files : SUBSET Files, kind : {"files", "commit", "lock", "lockedIndex"}]
           e == Head(events)
<1>1. events # <<>> /\ events' = Tail(events) /\ step = "ready"
      /\ UNCHANGED <<commit, enabled, mode, invalidateAllPending, mergeBase, jobs, baseFailed>>
  BY DEF HandleEvent, Ready, historyVars
<1>2. events' \in Seq(Event) /\ e.files \in SUBSET Files
  <2>1. e \in Event
    BY <1>1, HeadTailProperties DEF IInv, Finite
  <2> QED  BY <1>1, <2>1, HeadTailProperties DEF IInv, Finite
<1>3. JobsShaped'
  BY <1>1, FewerJobs DEF IInv
<1>4. CASE \/ BeginCancel("suppress") /\ UNCHANGED deferred
           \/ BeginCancel("reload") /\ UNCHANGED deferred
  <2>1. QueueInv' /\ OnlyActiveEscapes' /\ BaselessOnlyAfterFailure' /\ BaseKnown' /\ deferred' = deferred
    BY <1>1, <1>4, BeginCancelKeeps
  <2>2. Finite'
    BY <1>1, <1>2, <2>1 DEF IInv, Finite
  <2> QED  BY <1>3, <2>1, <2>2 DEF IInv
<1>5. CASE /\ enabled /\ e.kind = "files" /\ ~Reloads(e)
           /\ EnqueueFiles(e.files)
           /\ UNCHANGED <<active, handle, results, step, gen>>
  <2>1. CASE invalidateAllPending
    <3>1. deferred' = deferred \cup e.files /\ UNCHANGED <<nextTask, taskMap, channel>>
      BY <1>5, <2>1 DEF EnqueueFiles
    <3>2. ActiveShape' /\ HandleIsActives'
      BY <1>5 DEF IInv, QueueInv, ActiveShape, HandleIsActives
    <3>3. QueueInv'
      BY <3>1, <3>2, SameChannel DEF IInv
    <3>4. OnlyActiveEscapes' /\ BaselessOnlyAfterFailure' /\ BaseKnown'
      BY <1>1, <1>5, <3>1 DEF IInv, OnlyActiveEscapes, BaselessOnlyAfterFailure, BaseKnown
    <3>5. Finite'
      BY <1>1, <1>2, <3>1 DEF IInv, Finite
    <3> QED  BY <1>3, <3>3, <3>4, <3>5 DEF IInv
  <2>2. CASE ~invalidateAllPending
    <3> DEFINE n == Cardinality(e.files)
               args == [i \in 1..n |-> ArgFor(SetToSeq(e.files)[i])]
    <3>1. Enqueue(args) /\ UNCHANGED deferred
      BY <1>5, <2>2 DEF EnqueueFiles
    <3>2. args = [i \in 1..n |-> args[i]]
      OBVIOUS
    <3>3. \A i \in 1..n : args[i].gen = gen /\ args[i].mode = mode /\ args[i].base = mergeBase
      BY DEF ArgFor
    <3>4. mode # "Head" /\ mergeBase = None => baseFailed
      BY <1>1, <1>5, <2>2 DEF IInv, BaseKnown
    <3> HIDE DEF args
    <3>5. QueueInv' /\ OnlyActiveEscapes' /\ BaselessOnlyAfterFailure'
      BY <1>1, <1>2, <1>5, <3>1, <3>2, <3>3, <3>4, TasksEnqueued
    <3>6. BaseKnown' /\ Finite'
      BY <1>1, <1>2, <1>5, <3>1 DEF IInv, BaseKnown, Finite
    <3> QED  BY <1>3, <3>5, <3>6 DEF IInv
  <2> QED  BY <2>1, <2>2
<1>6. CASE UNCHANGED <<queueVars, step, gen, deferred>>
  <2>1. QueueInv'
    BY <1>6 DEF IInv, QueueInv, queueVars, Increasing, Ticketed, ActiveShape, HandleIsActives
  <2>2. OnlyActiveEscapes' /\ BaselessOnlyAfterFailure' /\ BaseKnown' /\ Finite'
    BY <1>1, <1>2, <1>6
       DEF IInv, queueVars, OnlyActiveEscapes, BaselessOnlyAfterFailure, BaseKnown, Finite
  <2> QED  BY <1>3, <2>1, <2>2 DEF IInv
<1> QED  BY <1>4, <1>5, <1>6 DEF HandleEvent

LEMMA UserStep == IInv /\ User => IInv'
<1> SUFFICES ASSUME IInv, User PROVE IInv'  OBVIOUS
<1>1. UNCHANGED <<worldVars, deferred, jobs, baseFailed>>
  BY DEF User, Open, SetDiffMode, Reload, Close, historyVars
<1>2. JobsShaped' /\ Finite'
  <2>1. JobsShaped'
    BY <1>1, FewerJobs DEF IInv
  <2> QED  BY <1>1, <2>1 DEF IInv, worldVars, Finite
<1>3. CASE BeginCancel("reload")
  <2>1. QueueInv' /\ OnlyActiveEscapes' /\ BaselessOnlyAfterFailure' /\ BaseKnown'
    BY <1>1, <1>3, BeginCancelKeeps
  <2> QED  BY <1>2, <2>1 DEF IInv
<1>4. CASE Close
  <2>1. UNCHANGED <<queueVars, step, gen>> /\ enabled' = FALSE
    BY <1>4 DEF Close
  <2>2. QueueInv'
    BY <2>1 DEF IInv, QueueInv, queueVars, Increasing, Ticketed, ActiveShape, HandleIsActives
  <2>3. OnlyActiveEscapes' /\ BaselessOnlyAfterFailure' /\ BaseKnown'
    BY <1>1, <2>1 DEF IInv, queueVars, OnlyActiveEscapes, BaselessOnlyAfterFailure, BaseKnown
  <2> QED  BY <1>2, <2>2, <2>3 DEF IInv
<1> QED  BY <1>3, <1>4 DEF User, Open, SetDiffMode, Reload

(* A load arrives: the deferred files follow at once, or when the merge    *)
(* base is known.                                                          *)
LEMMA LoadedStep ==
    ASSUME IInv, NEW j \in jobs, Loaded(j)
    PROVE  IInv'
<1>1. step = "ready"
      /\ UNCHANGED <<active, handle, worldVars, enabled, mode, step, gen, baseFailed>>
  BY DEF Loaded, Ready
<1>2. CASE ~NeedsMergeBase /\ Flush(mergeBase) /\ jobs' = jobs \ {j}
  <2>1. QueueInv' /\ OnlyActiveEscapes' /\ BaselessOnlyAfterFailure' /\ BaseKnown' /\ deferred' = {}
    BY <1>1, <1>2, FlushKeeps DEF NeedsMergeBase
  <2>2. JobsShaped'
    BY <1>2, FewerJobs DEF IInv
  <2>3. Finite'
    BY <1>1, <2>1 DEF IInv, Finite, worldVars
  <2> QED  BY <2>1, <2>2, <2>3 DEF IInv
<1>3. CASE NeedsMergeBase
  <2> DEFINE kept == Without(jobs \ {j}, baseHandle)
  <2>1. jobs' = kept \cup {Spawned("base", mode, kept, loadHandle)}
        /\ UNCHANGED <<nextTask, taskMap, channel, invalidateAllPending, mergeBase, deferred>>
    BY <1>3 DEF Loaded
  <2>2. kept \subseteq jobs
    BY DEF Without
  <2>3. JobsShaped'
    <3> HIDE DEF kept
    <3> QED  BY <2>1, <2>2, JobsSpawned DEF IInv
  <2>4. ActiveShape' /\ HandleIsActives'
    BY <1>1 DEF IInv, QueueInv, ActiveShape, HandleIsActives
  <2>5. QueueInv'
    BY <2>1, <2>4, SameChannel DEF IInv
  <2>6. OnlyActiveEscapes' /\ BaselessOnlyAfterFailure' /\ BaseKnown' /\ Finite'
    BY <1>1, <2>1 DEF IInv, OnlyActiveEscapes, BaselessOnlyAfterFailure, BaseKnown, Finite, worldVars
  <2> QED  BY <2>3, <2>5, <2>6 DEF IInv
<1> QED  BY <1>2, <1>3 DEF Loaded

LEMMA MergeBaseStep ==
    ASSUME IInv, NEW j \in jobs, MergeBaseComputed(j)
    PROVE  IInv'
<1> DEFINE base == IF j.value.base = None THEN mergeBase ELSE j.value.base
<1>1. step = "ready" /\ UNCHANGED <<active, handle, worldVars, enabled, mode, step, gen>>
      /\ jobs' = jobs \ {j} /\ Flush(base)
  BY DEF MergeBaseComputed, Ready
<1>2. (baseFailed => baseFailed') /\ (base = None => baseFailed')
  BY DEF MergeBaseComputed
<1> HIDE DEF base
<1>3. QueueInv' /\ OnlyActiveEscapes' /\ BaselessOnlyAfterFailure' /\ BaseKnown' /\ deferred' = {}
  BY <1>1, <1>2, FlushKeeps
<1>4. JobsShaped'
  BY <1>1, FewerJobs DEF IInv
<1>5. Finite'
  BY <1>1, <1>3 DEF IInv, Finite, worldVars
<1> QED  BY <1>3, <1>4, <1>5 DEF IInv

(* The queue goes on, or a result of its arrives; it takes nothing new. *)
LEMMA QueueStep == IInv /\ (Queue \/ Compute \/ ResultArrives) => IInv'
<1> SUFFICES ASSUME IInv, Queue \/ Compute \/ ResultArrives PROVE IInv'  OBVIOUS
<1>1. taskMap' \subseteq taskMap
      /\ UNCHANGED <<worldVars, enabled, mode, step, invalidateAllPending, mergeBase, deferred,
                     jobs, gen, baseFailed>>
  <2>1. CASE Queue
    BY <2>1 DEF Queue, mainVars, ProcessQueue, PickTask, SkipTask, KeepHandle, AttemptFails,
                TaskEnds, ForgetHandle, Report
  <2>2. CASE Compute
    BY <2>2 DEF Compute, mainVars, Computes
  <2>3. CASE ResultArrives
    BY <2>3 DEF ResultArrives
  <2> QED  BY <2>1, <2>2, <2>3, SMTT(30)
<1>2. QueueInv'
  <2>1. CASE Queue
    BY <2>1, ProcessQueueKeeps DEF Queue, IInv
  <2>2. CASE Compute
    BY <2>2, ActiveKeeps DEF Compute, Computes, IInv
  <2>3. CASE ResultArrives
    <3>1. UNCHANGED <<nextTask, taskMap, channel, active, handle>>
      BY <2>3 DEF ResultArrives
    <3> QED  BY <3>1 DEF IInv, QueueInv, Increasing, Ticketed, ActiveShape, HandleIsActives
  <2> QED  BY <2>1, <2>2, <2>3
<1>3. JobsShaped'
  BY <1>1, FewerJobs DEF IInv
<1>4. OnlyActiveEscapes' /\ BaselessOnlyAfterFailure' /\ BaseKnown' /\ Finite'
  BY <1>1 DEF IInv, OnlyActiveEscapes, BaselessOnlyAfterFailure, BaseKnown, Finite, worldVars
<1> QED  BY <1>2, <1>3, <1>4 DEF IInv

LEMMA StepKeeps == IInv /\ [Next]_vars => IInv'
<1> SUFFICES ASSUME IInv, [Next]_vars PROVE IInv'  OBVIOUS
<1>1. CASE World
  BY <1>1, WorldStep
<1>2. CASE User
  BY <1>2, UserStep
<1>3. CASE Callback
  BY <1>3, FinishCancelStep, HandleEventStep, QueueStep, LoadedStep, MergeBaseStep DEF Callback
<1>4. CASE Job
  BY <1>4, JobStep DEF Job
<1>5. CASE Queue \/ Compute
  BY <1>5, QueueStep
<1>6. CASE UNCHANGED vars
  <2>1. UNCHANGED <<queueVars, mainVars, worldVars>>
    BY <1>6 DEF vars
  <2>2. QueueInv'
    BY <2>1 DEF IInv, QueueInv, queueVars, Increasing, Ticketed, ActiveShape, HandleIsActives
  <2>3. OnlyActiveEscapes' /\ BaselessOnlyAfterFailure' /\ BaseKnown' /\ Finite'
    BY <2>1 DEF IInv, queueVars, mainVars, worldVars, OnlyActiveEscapes, BaselessOnlyAfterFailure,
                BaseKnown, Finite
  <2>4. JobsShaped'
    BY <2>1, FewerJobs DEF IInv, mainVars
  <2> QED  BY <2>2, <2>3, <2>4 DEF IInv
<1> QED  BY <1>1, <1>2, <1>3, <1>4, <1>5, <1>6 DEF Next

-----------------------------------------------------------------------------
(* The queue's order, its tasks and its handle agree; single files carry   *)
(* the parameters of the present; and a merge base that is missing while a *)
(* branch mode takes single updates is one that could not be computed.     *)
THEOREM DiffInvariant == Spec => []IInv
BY InitHolds, StepKeeps, PTL DEF Spec

(* However tasks are enqueued, picked, cancelled and retried, each one     *)
(* that is in the map will be picked, once.                                *)
THEOREM NoTaskStranded == Spec => []TicketForEach
<1>1. IInv => TicketForEach
  <2> SUFFICES ASSUME IInv, NEW t \in taskMap
               PROVE  \E i \in DOMAIN channel :
                          channel[i] = t.id /\ \A j \in DOMAIN channel \ {i} : channel[j] # t.id
    BY DEF TicketForEach
  <2>1. DOMAIN channel = 1..Len(channel) /\ Len(channel) \in Nat
        /\ \A i \in 1..Len(channel) : channel[i] \in Nat
    BY LenProperties, ElementOfSeq DEF IInv, QueueInv
  <2>2. PICK i \in 1..Len(channel) : channel[i] = t.id
    BY DEF IInv, QueueInv, Ticketed
  <2>3. ASSUME NEW j \in 1..Len(channel), j # i
        PROVE  channel[j] # t.id
    <3>1. i < j \/ j < i
      BY <2>1, <2>3
    <3>2. channel[i] < channel[j] \/ channel[j] < channel[i]
      BY <3>1 DEF IInv, QueueInv, Increasing
    <3>3. channel[i] \in Nat /\ channel[j] \in Nat
      BY <2>1
    <3> QED  BY <2>2, <3>2, <3>3
  <2> QED  BY <2>1, <2>2, <2>3
<1> QED  BY <1>1, DiffInvariant, PTL

(* cancel_all aborts the task that is being run and no other one. *)
THEOREM AbortsItsOwn == Spec => []HandleIsActives
<1>1. IInv => HandleIsActives
  BY DEF IInv, QueueInv
<1> QED  BY <1>1, DiffInvariant, PTL

(* After cancel_all only the task that the queue is at can be of before. *)
THEOREM OneTaskEscapes == Spec => []OnlyActiveEscapes
<1>1. IInv => OnlyActiveEscapes
  BY DEF IInv
<1> QED  BY <1>1, DiffInvariant, PTL

(* Whatever is cancelled, replaced or late: a task of a branch mode waits  *)
(* without a merge base only after the computation of one has failed.      *)
THEOREM MergeBaseUnlessFailed == Spec => []BaselessOnlyAfterFailure
<1>1. IInv => BaselessOnlyAfterFailure
  BY DEF IInv
<1> QED  BY <1>1, DiffInvariant, PTL

-----------------------------------------------------------------------------
(* Types.                                                                  *)

Tasks(n) == [id : 1..n, arg : Args]
Outcomes(n) == [task : Tasks(n), result : {Failed} \cup Diffs]

(* A task that is run is one, and what is reported is an outcome. *)
ActiveTyped ==
    /\ active.task \in {None} \cup Tasks(nextTask)
    /\ active.result \in {None, Failed} \cup Diffs
    /\ active.attempts \in 0..MaxRetries
    /\ active.pc # "idle" => active.task \in Tasks(nextTask)
    /\ active.pc = "reporting" => active.result # None

QueueTyped ==
    /\ taskMap \subseteq Tasks(nextTask)
    /\ handle \in 0..nextTask
    /\ results \in Seq(Outcomes(nextTask))

WorldTyped ==
    /\ tree \in [Files -> 0..MaxEdits] /\ commit \in 0..MaxCommits
    /\ locked \in BOOLEAN /\ events \in Seq(Events)

MainTyped ==
    /\ enabled \in BOOLEAN /\ mode \in Modes
    /\ step \in {"ready", "reload", "suppress"} /\ invalidateAllPending \in BOOLEAN
    /\ mergeBase \in 0..MaxCommits \cup {None} /\ deferred \subseteq Files
    /\ shown \in [Files -> Diffs \cup {None}]
    /\ spoiled \subseteq Files /\ gen \in Nat
    /\ overtaken \in BOOLEAN /\ baseFailed \in BOOLEAN

JobsTyped == IsFiniteSet(jobs) /\ jobs \subseteq Jobs

TypeInv == ActiveTyped /\ QueueTyped /\ WorldTyped /\ MainTyped /\ JobsTyped

LEMMA TypesTogether == QueueInv /\ TypeInv => TypeOK
BY DEF QueueInv, TypeInv, ActiveTyped, QueueTyped, WorldTyped, MainTyped, JobsTyped,
       Tasks, Outcomes, TypeOK

LEMMA Bounds ==
    /\ MaxEdits \in Nat /\ MaxCommits \in Nat /\ MaxRetries \in Nat
    /\ StartMode \in Modes /\ IsFiniteSet(Files)
BY DiffBounds, QueueBounds

LEMMA InitTyped == Init => TypeInv
<1> SUFFICES ASSUME Init PROVE TypeInv  OBVIOUS
<1>1. QueueInit
  BY DEF Init
<1>2. ActiveTyped
  BY <1>1, Bounds DEF QueueInit, Idle, ActiveTyped
<1>3. QueueTyped
  BY <1>1, EmptySeq DEF QueueInit, QueueTyped
<1>4. WorldTyped
  <2>1. events \in Seq(Events)
    BY EmptySeq DEF Init
  <2>2. 0 \in 0..MaxEdits /\ 0 \in 0..MaxCommits
    BY Bounds
  <2>3. tree \in [Files -> 0..MaxEdits]
    BY <2>2 DEF Init
  <2>4. commit \in 0..MaxCommits /\ locked \in BOOLEAN
    BY <2>2 DEF Init
  <2> QED  BY <2>1, <2>3, <2>4 DEF WorldTyped
<1>5. MainTyped
  BY Bounds DEF Init, MainTyped
<1>6. JobsTyped
  BY FS_EmptySet DEF Init, JobsTyped
<1> QED  BY <1>2, <1>3, <1>4, <1>5, <1>6 DEF TypeInv

(* More ids leave tasks and outcomes what they are. *)
LEMMA MoreIds ==
    ASSUME NEW m \in Nat, NEW n \in Nat, m <= n
    PROVE  Tasks(m) \subseteq Tasks(n) /\ Seq(Outcomes(m)) \subseteq Seq(Outcomes(n))
<1>1. Tasks(m) \subseteq Tasks(n)
  BY DEF Tasks
<1>2. Outcomes(m) \subseteq Outcomes(n)
  BY <1>1 DEF Outcomes
<1> QED  BY <1>1, <1>2, SeqMonotonic

(* A list of a set's elements has elements of the set. *)
LEMMA ListedFiles ==
    ASSUME NEW fs \in SUBSET Files, NEW i \in 1..Cardinality(fs)
    PROVE  SetToSeq(fs)[i] \in Files
<1>1. IsFiniteSet(fs)
  BY Bounds, FS_Subset
<1>2. Bijection(1..Cardinality(fs), fs) # {}
  BY <1>1, FS_CardinalityType DEF ExistsBijection
<1>3. PICK g : g \in Bijection(1..Cardinality(fs), fs)
  BY <1>2
<1>4. g \in [1..Cardinality(fs) -> fs] /\ IsInjective(g)
  BY <1>3 DEF Bijection, Injection, IsInjective
<1>5. SetToSeq(fs) \in [1..Cardinality(fs) -> fs]
  BY <1>4 DEF SetToSeq
<1> QED  BY <1>5

(* There is always an id that no command has, and a spawned one gets it.   *)
LEMMA SpawnedId ==
    ASSUME NEW js, IsFiniteSet(js), NEW kind, NEW m, NEW other
    PROVE  LET id == Spawned(kind, m, js, other).id
           IN id \in Nat \ {0} /\ id # other /\ \A j \in js : j.id # id
<1> DEFINE N == Cardinality(js) + 2
           ids == {j.id : j \in js}
           used == ids \cup {other}
<1>1. Cardinality(js) \in Nat
  BY FS_CardinalityType
<1>2. IsFiniteSet(ids) /\ Cardinality(ids) <= Cardinality(js)
  <2> DEFINE g == [j \in js |-> j.id]
  <2>1. g \in Surjection(js, ids)
    BY DEF Surjection
  <2> HIDE DEF g, ids
  <2> QED  BY <2>1, FS_Surjection
<1>3. IsFiniteSet(used) /\ Cardinality(used) <= Cardinality(js) + 1
  <2> HIDE DEF ids
  <2>1. Cardinality(ids) \in Nat
    BY <1>2, FS_CardinalityType
  <2>2. /\ IsFiniteSet(used)
        /\ Cardinality(used) = IF other \in ids THEN Cardinality(ids) ELSE Cardinality(ids) + 1
    BY <1>2, FS_AddElement, Zenon
  <2> HIDE DEF used
  <2> QED  BY <1>1, <1>2, <2>1, <2>2
<1>4. IsFiniteSet(1..N) /\ Cardinality(1..N) = N
  <2>1. 1 \in Int /\ N \in Int /\ ~(1 > N) /\ N - 1 + 1 = N
    BY <1>1
  <2> HIDE DEF N
  <2>2. IsFiniteSet(1..N) /\ Cardinality(1..N) = IF 1 > N THEN 0 ELSE N - 1 + 1
    BY <2>1, FS_Interval, Zenon
  <2> QED  BY <2>1, <2>2
<1>5. ~(1..N \subseteq used)
  <2> HIDE DEF used
  <2>1. Cardinality(used) \in Nat
    BY <1>3, FS_CardinalityType
  <2>2. 1..N \subseteq used => Cardinality(1..N) <= Cardinality(used)
    BY <1>3, FS_Subset
  <2> QED  BY <1>1, <1>3, <1>4, <2>1, <2>2
<1>6. \E n \in 1..N : n # other /\ \A j \in js : j.id # n
  BY <1>5
<1> DEFINE fresh == CHOOSE n \in 1..N : n # other /\ \A j \in js : j.id # n
<1>7. fresh \in 1..N /\ fresh # other /\ \A j \in js : j.id # fresh
  BY <1>6
<1>8. Spawned(kind, m, js, other).id = fresh
  BY DEF Spawned
<1>9. N \in Nat
  BY <1>1
<1> HIDE DEF fresh, N
<1> QED  BY <1>7, <1>8, <1>9

(* More tasks, with arguments of the right type. *)
LEMMA EnqueueTyped ==
    ASSUME QueueInv, ActiveTyped, QueueTyped, NEW args, NEW n \in Nat,
           args = [i \in 1..n |-> args[i]], \A i \in 1..n : args[i] \in Args,
           Enqueue(args), UNCHANGED <<active, handle, results>>
    PROVE  ActiveTyped' /\ QueueTyped'
<1> DEFINE all == nextTask + n
<1>1. nextTask' = all /\ nextTask \in Nat /\ all \in Nat /\ nextTask <= all
  BY ListLength DEF Enqueue, QueueInv
<1>2. Tasks(nextTask) \subseteq Tasks(all) /\ Seq(Outcomes(nextTask)) \subseteq Seq(Outcomes(all))
  BY <1>1, MoreIds
<1>3. taskMap' \subseteq Tasks(all)
  <2>1. ASSUME NEW t \in taskMap'
        PROVE  t \in taskMap \/ \E i \in 1..n : t = [id |-> nextTask + i, arg |-> args[i]]
    BY ListLength DEF Enqueue
  <2>2. ASSUME NEW i \in 1..n
        PROVE  [id |-> nextTask + i, arg |-> args[i]] \in Tasks(all)
    BY <1>1 DEF Tasks
  <2> QED  BY <1>2, <2>1, <2>2 DEF QueueTyped
<1>4. ActiveTyped'
  BY <1>1, <1>2 DEF ActiveTyped
<1>5. handle' \in 0..all /\ results' \in Seq(Outcomes(all))
  BY <1>1, <1>2 DEF QueueTyped
<1> QED  BY <1>1, <1>3, <1>4, <1>5 DEF QueueTyped

LEMMA QueueStays == ActiveTyped /\ QueueTyped /\ UNCHANGED queueVars => ActiveTyped' /\ QueueTyped'
BY DEF ActiveTyped, QueueTyped, queueVars

LEMMA WorldStays == WorldTyped /\ UNCHANGED worldVars => WorldTyped'
BY DEF WorldTyped, worldVars

LEMMA MainStays ==
    MainTyped /\ UNCHANGED <<enabled, mode, step, invalidateAllPending, mergeBase, deferred, shown,
                             gen, historyVars>>
        => MainTyped'
BY DEF MainTyped, historyVars

LEMMA FewerTyped == JobsTyped /\ jobs' \subseteq jobs => JobsTyped'
<1> SUFFICES ASSUME JobsTyped, jobs' \subseteq jobs PROVE JobsTyped'  OBVIOUS
<1>1. IsFiniteSet(jobs')
  BY FS_Subset DEF JobsTyped
<1> QED  BY <1>1 DEF JobsTyped

(* One command more, or in the place of another. *)
LEMMA AnotherTyped ==
    ASSUME JobsTyped, NEW js, js \subseteq jobs, NEW k \in Jobs, jobs' = js \cup {k}
    PROVE  JobsTyped'
<1>1. IsFiniteSet(js)
  BY FS_Subset DEF JobsTyped
<1>2. IsFiniteSet(jobs')
  BY <1>1, FS_AddElement
<1> QED  BY <1>2 DEF JobsTyped

LEMMA SpawnedTyped ==
    ASSUME JobsTyped, NEW js, js \subseteq jobs, NEW kind \in {"load", "base"}, NEW m \in Modes,
           NEW other
    PROVE  Spawned(kind, m, js, other) \in Jobs
<1> DEFINE k == Spawned(kind, m, js, other)
<1>1. IsFiniteSet(js)
  BY FS_Subset DEF JobsTyped
<1>2. k.id \in Nat \ {0}
  BY <1>1, SpawnedId
<1> DEFINE id == k.id
           job == [id |-> id, kind |-> kind, mode |-> m, value |-> None]
<1>3. k = job
  BY DEF Spawned
<1> HIDE DEF k, id
<1>4. job \in Jobs
  BY <1>2 DEF Jobs, id
<1> QED  BY <1>3, <1>4 DEF k

-----------------------------------------------------------------------------
(* Git, the editors and the watcher. *)
LEMMA WorldTypes == TypeInv /\ World => TypeInv'
<1> SUFFICES ASSUME TypeInv, World PROVE TypeInv'  OBVIOUS
<1>1. UNCHANGED <<queueVars, mainVars>>
  BY DEF World, Edit, Commit, LockChanges
<1>2. ActiveTyped' /\ QueueTyped'
  BY <1>1, QueueStays DEF TypeInv
<1>3. MainTyped'
  BY <1>1, MainStays DEF TypeInv, mainVars, historyVars
<1>4. JobsTyped'
  BY <1>1, FewerTyped DEF TypeInv, mainVars
<1>5. ASSUME NEW fs \in SUBSET Files, \A f \in fs : tree[f] < MaxEdits
      PROVE  Edited(fs) \in [Files -> 0..MaxEdits]
  <2>1. ASSUME NEW f \in Files
        PROVE  (IF f \in fs THEN tree[f] + 1 ELSE tree[f]) \in 0..MaxEdits
    <3>1. tree[f] \in 0..MaxEdits
      BY DEF TypeInv, WorldTyped
    <3> QED  BY <1>5, <3>1, Bounds
  <2> QED  BY <2>1 DEF Edited
<1>6. tree' \in [Files -> 0..MaxEdits]
  <2>1. tree' = tree \/ \E fs \in SUBSET Files : (\A f \in fs : tree[f] < MaxEdits) /\ tree' = Edited(fs)
    BY DEF World, Edit, Commit, LockChanges
  <2> QED  BY <1>5, <2>1 DEF TypeInv, WorldTyped
<1>7. commit' \in 0..MaxCommits
  <2>1. commit' = commit \/ (commit < MaxCommits /\ commit' = commit + 1)
    BY DEF World, Edit, Commit, LockChanges
  <2> QED  BY <2>1, Bounds DEF TypeInv, WorldTyped
<1>8. locked' \in BOOLEAN
  <2>1. locked' = locked \/ locked' = ~locked
    BY DEF World, Edit, Commit, LockChanges
  <2> QED  BY <2>1, Zenon DEF TypeInv, WorldTyped
<1>9. events' \in Seq(Events)
  <2>1. PICK e \in Events : events' = Append(events, e)
    <3>1. CASE \E fs \in SUBSET Files : Edit(fs)
      BY <3>1 DEF Edit, Reports, Events
    <3>2. CASE \E fs \in SUBSET Files : Commit(fs)
      BY <3>2 DEF Commit, Reports, Events
    <3>3. CASE LockChanges
      BY <3>3 DEF LockChanges, Reports, Events
    <3> QED  BY <3>1, <3>2, <3>3 DEF World
  <2> QED  BY <2>1, AppendProperties DEF TypeInv, WorldTyped
<1>10. WorldTyped'
  BY <1>6, <1>7, <1>8, <1>9 DEF WorldTyped
<1> QED  BY <1>2, <1>3, <1>4, <1>10 DEF TypeInv

(* A diff is of its type, whoever asks for it. *)
LEMMA DiffTyped ==
    ASSUME WorldTyped, NEW f \in Files, NEW m \in Modes, NEW base \in 0..MaxCommits \cup {None}
    PROVE  DiffOf(f, m, base) \in Diffs
<1>1. tree[f] \in 0..MaxEdits
  BY DEF WorldTyped
<1> QED  BY <1>1 DEF DiffOf, Diffs

(* The queue's background future.                                          *)
LEMMA ProcessTyped ==
    ASSUME QueueInv, ActiveTyped, QueueTyped, ProcessQueue
    PROVE  ActiveTyped' /\ QueueTyped'
<1>1. ActiveShape
  BY DEF QueueInv
<1>2. nextTask' = nextTask /\ nextTask \in Nat
  <2>1. nextTask \in Nat
    BY DEF QueueInv
  <2>2. nextTask' = nextTask
    BY Zenon DEF ProcessQueue, PickTask, SkipTask, KeepHandle, AttemptFails, TaskEnds,
                 ForgetHandle, Report
  <2> QED  BY <2>1, <2>2
<1>3. CASE PickTask
  <2>1. PICK t \in taskMap : /\ t.id = Head(channel) /\ taskMap' = taskMap \ {t}
                            /\ active' = [Idle EXCEPT !.pc = "picked", !.task = t]
    BY <1>3, Zenon DEF PickTask
  <2>2. t \in Tasks(nextTask)
    BY DEF QueueTyped
  <2>3. active' = [pc |-> "picked", task |-> t, attempts |-> 0, result |-> None, aborted |-> FALSE]
    BY <2>1 DEF Idle
  <2>4. ActiveTyped'
    BY <1>2, <2>2, <2>3, Bounds DEF ActiveTyped
  <2>5. QueueTyped'
    BY <1>2, <1>3, <2>1 DEF QueueTyped, PickTask
  <2> QED  BY <2>4, <2>5
<1>4. CASE SkipTask
  <2>1. UNCHANGED <<nextTask, taskMap, active, handle, results>>
    BY <1>4 DEF SkipTask
  <2> QED  BY <2>1 DEF ActiveTyped, QueueTyped
<1>5. CASE KeepHandle
  <2>1. active' = [pc |-> "running", task |-> active.task, attempts |-> active.attempts,
                   result |-> active.result, aborted |-> active.aborted]
    <3>1. active' = [active EXCEPT !.pc = "running"]
      BY <1>5 DEF KeepHandle
    <3> QED  BY <1>1, <3>1 DEF ActiveShape
  <2>2. active.task \in Tasks(nextTask)
    BY <1>5 DEF KeepHandle, ActiveTyped
  <2>3. ActiveTyped'
    BY <1>2, <2>1, <2>2 DEF ActiveTyped
  <2>4. active.task.id \in 0..nextTask
    BY <1>2, <2>2 DEF Tasks
  <2>5. QueueTyped'
    BY <1>2, <1>5, <2>4 DEF KeepHandle, QueueTyped
  <2> QED  BY <2>3, <2>5
<1>6. CASE AttemptFails
  <2>1. QueueTyped'
    BY <1>6 DEF AttemptFails, QueueTyped
  <2>2. CASE active.attempts < MaxRetries /\ active' = [active EXCEPT !.attempts = @ + 1]
    <3>1. active' = [pc |-> active.pc, task |-> active.task, attempts |-> active.attempts + 1,
                     result |-> active.result, aborted |-> active.aborted]
      BY <1>1, <2>2 DEF ActiveShape
    <3>2. active.attempts + 1 \in 0..MaxRetries
      BY <2>2, Bounds DEF ActiveTyped
    <3>3. ActiveTyped'
      BY <1>2, <3>1, <3>2 DEF ActiveTyped
    <3> QED  BY <2>1, <3>3
  <2>3. CASE active' = [active EXCEPT !.result = Failed]
    <3>1. active' = [pc |-> active.pc, task |-> active.task, attempts |-> active.attempts,
                     result |-> Failed, aborted |-> active.aborted]
      BY <1>1, <2>3 DEF ActiveShape
    <3>2. active.pc = "running"
      BY <1>6 DEF AttemptFails
    <3>3. ActiveTyped'
      BY <1>2, <3>1, <3>2 DEF ActiveTyped
    <3> QED  BY <2>1, <3>3
  <2> QED  BY <1>6, <2>2, <2>3 DEF AttemptFails
<1>7. CASE TaskEnds
  <2> DEFINE r == IF active.aborted THEN None ELSE active.result
  <2>1. active' = [pc |-> "ended", task |-> active.task, attempts |-> active.attempts,
                   result |-> r, aborted |-> active.aborted]
    BY <1>1, <1>7 DEF TaskEnds, ActiveShape
  <2>2. r \in {None, Failed} \cup Diffs
    BY DEF ActiveTyped
  <2>3. active.pc = "running"
    BY <1>7 DEF TaskEnds
  <2> HIDE DEF r
  <2>4. ActiveTyped'
    BY <1>2, <2>1, <2>2, <2>3 DEF ActiveTyped
  <2>5. QueueTyped'
    BY <1>7 DEF TaskEnds, QueueTyped
  <2> QED  BY <2>4, <2>5
<1>8. CASE ForgetHandle
  <2>1. QueueTyped'
    BY <1>2, <1>8 DEF ForgetHandle, QueueTyped
  <2>2. CASE active.result = None
    <3>1. active' = Idle
      BY <1>8, <2>2 DEF ForgetHandle
    <3>2. ActiveTyped'
      BY <3>1, Bounds DEF ActiveTyped, Idle
    <3> QED  BY <2>1, <3>2
  <2>3. CASE active.result # None
    <3>1. active' = [pc |-> "reporting", task |-> active.task, attempts |-> active.attempts,
                     result |-> active.result, aborted |-> active.aborted]
      BY <1>1, <1>8, <2>3 DEF ForgetHandle, ActiveShape
    <3>2. active.pc = "ended"
      BY <1>8 DEF ForgetHandle
    <3>3. ActiveTyped'
      BY <1>2, <2>3, <3>1, <3>2 DEF ActiveTyped
    <3> QED  BY <2>1, <3>3
  <2> QED  BY <2>2, <2>3
<1>9. CASE Report
  <2>1. active' = Idle
    BY <1>9 DEF Report
  <2>2. ActiveTyped'
    BY <2>1, Bounds DEF ActiveTyped, Idle
  <2> DEFINE o == [task |-> active.task, result |-> active.result]
  <2>3. o \in Outcomes(nextTask)
    BY <1>9 DEF Report, ActiveTyped, Outcomes
  <2>4. results' = results \/ results' = Append(results, o)
    BY <1>9 DEF Report
  <2> HIDE DEF o
  <2>5. results' \in Seq(Outcomes(nextTask))
    BY <2>3, <2>4, AppendProperties DEF QueueTyped
  <2>6. QueueTyped'
    BY <1>2, <1>9, <2>5 DEF Report, QueueTyped
  <2> QED  BY <2>2, <2>6
<1> QED  BY <1>3, <1>4, <1>5, <1>6, <1>7, <1>8, <1>9 DEF ProcessQueue

(* The queue goes on, or the task that is run computes its diff.           *)
LEMMA QueueTypes == IInv /\ TypeInv /\ (Queue \/ Compute) => TypeInv'
<1> SUFFICES ASSUME IInv, TypeInv, Queue \/ Compute PROVE TypeInv'  OBVIOUS
<1>1. UNCHANGED <<worldVars, mainVars>>
  BY DEF Queue, Compute
<1>2. WorldTyped' /\ MainTyped' /\ JobsTyped'
  <2>1. MainTyped'
    BY <1>1, MainStays DEF mainVars, historyVars, TypeInv
  <2>2. JobsTyped'
    BY <1>1, FewerTyped DEF mainVars, TypeInv
  <2> QED  BY <1>1, <2>1, <2>2, WorldStays DEF TypeInv
<1>3. CASE Queue
  BY <1>2, <1>3, ProcessTyped DEF Queue, IInv, TypeInv
<1>4. CASE Compute
  <2> DEFINE v == TaskResult(active.task.arg)
  <2>1. active.pc = "running" /\ active' = [active EXCEPT !.result = v]
        /\ UNCHANGED <<nextTask, taskMap, channel, handle, results>>
    BY <1>4 DEF Compute, Computes
  <2>2. active.task.arg \in Args
    BY <2>1 DEF TypeInv, ActiveTyped, Tasks
  <2>3. v \in Diffs
    <3> DEFINE a == active.task.arg
    <3>1. a.file \in Files /\ a.mode \in Modes /\ a.base \in 0..MaxCommits \cup {None}
      BY <2>2 DEF Args
    <3>2. (IF a.mode = "Head" THEN commit ELSE a.base) \in 0..MaxCommits \cup {None}
      BY <3>1 DEF TypeInv, WorldTyped
    <3> HIDE DEF a
    <3>3. TaskResult(a) \in Diffs
      BY <3>1, <3>2, DiffTyped DEF TaskResult, TypeInv
    <3> QED  BY <3>3 DEF a
  <2> HIDE DEF v
  <2>4. active' = [pc |-> "running", task |-> active.task, attempts |-> active.attempts,
                   result |-> v, aborted |-> active.aborted]
    BY <2>1 DEF IInv, QueueInv, ActiveShape
  <2>5. ActiveTyped'
    BY <2>1, <2>3, <2>4 DEF TypeInv, ActiveTyped
  <2>6. QueueTyped'
    BY <2>1 DEF TypeInv, QueueTyped
  <2> QED  BY <1>2, <2>5, <2>6 DEF TypeInv
<1> QED  BY <1>3, <1>4

(* A git command reads the repository, or fails. *)
LEMMA JobTypes ==
    ASSUME IInv, TypeInv, NEW j \in jobs, JobReads(j) \/ JobFails(j)
    PROVE  TypeInv'
<1> DEFINE Values == [diffs : {None} \cup [Files -> Diffs], base : {None} \cup 0..MaxCommits]
<1>1. j.id \in Nat \ {0} /\ j.kind \in {"load", "base"} /\ j.mode \in Modes /\ JobShape(j)
  BY DEF TypeInv, JobsTyped, Jobs, IInv, JobsShaped
<1>2. LoadResult(j.mode) \in [Files -> Diffs]
  <2>1. commit \in 0..MaxCommits
    BY DEF TypeInv, WorldTyped
  <2>2. ASSUME NEW f \in Files
        PROVE  DiffOf(f, j.mode, commit) \in Diffs
    BY <1>1, <2>1, DiffTyped DEF TypeInv
  <2> QED  BY <2>2 DEF LoadResult
<1>3. PICK v \in Values : JobEnds(j, v)
  <2> HIDE DEF LoadResult
  <2>1. CASE JobReads(j)
    <3>1. [diffs |-> LoadResult(j.mode), base |-> None] \in Values
      BY <1>2
    <3>2. [diffs |-> None, base |-> commit] \in Values
      BY DEF TypeInv, WorldTyped
    <3> HIDE DEF Values
    <3> QED  BY <2>1, <3>1, <3>2 DEF JobReads
  <2>2. CASE JobFails(j)
    <3>1. [diffs |-> None, base |-> None] \in Values
      OBVIOUS
    <3> HIDE DEF Values
    <3> QED  BY <2>2, <3>1 DEF JobFails
  <2> QED  BY <2>1, <2>2
<1>4. UNCHANGED <<queueVars, worldVars, enabled, mode, step, invalidateAllPending, mergeBase,
                  deferred, shown, gen, historyVars>>
  BY <1>3 DEF JobEnds
<1>5. ActiveTyped' /\ QueueTyped' /\ WorldTyped' /\ MainTyped'
  <2>1. ActiveTyped' /\ QueueTyped'
    BY <1>4, QueueStays DEF TypeInv
  <2>2. MainTyped'
    BY <1>4, MainStays DEF TypeInv
  <2> QED  BY <1>4, <2>1, <2>2, WorldStays DEF TypeInv
<1>6. JobsTyped'
  <2> DEFINE k == [id |-> j.id, kind |-> j.kind, mode |-> j.mode, value |-> v]
  <2>1. jobs' = (jobs \ {j}) \cup {k}
    BY <1>1, <1>3, JobGoesOn
  <2>2. k \in Jobs
    BY <1>1, <1>3 DEF Jobs
  <2> HIDE DEF k
  <2> QED  BY <2>1, <2>2, AnotherTyped DEF TypeInv
<1> QED  BY <1>5, <1>6 DEF TypeInv

(* cancel_all, and what follows it. *)
LEMMA CancelTyped ==
    ASSUME QueueInv, ActiveTyped, QueueTyped, CancelAborts,
           UNCHANGED <<nextTask, taskMap, channel, results>>
    PROVE  ActiveTyped' /\ QueueTyped'
<1> DEFINE a == active.aborted \/ handle # 0
<1>1. active' = [active EXCEPT !.aborted = a] /\ handle' = 0
  BY DEF CancelAborts
<1> HIDE DEF a
<1>2. active' = [pc |-> active.pc, task |-> active.task, attempts |-> active.attempts,
                 result |-> active.result, aborted |-> a]
  BY <1>1 DEF QueueInv, ActiveShape
<1>3. ActiveTyped'
  BY <1>2 DEF ActiveTyped
<1>4. QueueTyped'
  BY <1>1 DEF QueueInv, QueueTyped
<1> QED  BY <1>3, <1>4

LEMMA FinishCancelTypes == IInv /\ TypeInv /\ FinishCancel => TypeInv'
<1> SUFFICES ASSUME IInv, TypeInv, FinishCancel PROVE TypeInv'  OBVIOUS
<1>1. taskMap' = {} /\ step' = "ready" /\ mergeBase' = None /\ invalidateAllPending' = TRUE
      /\ overtaken' \in BOOLEAN /\ baseFailed' = FALSE
  BY DEF FinishCancel, CancelClears, InvalidateAll
<1>2. UNCHANGED <<nextTask, channel, active, handle, results, worldVars, enabled, mode, deferred,
                  shown, gen, spoiled>>
  BY DEF FinishCancel
<1>3. ActiveTyped' /\ QueueTyped'
  BY <1>1, <1>2 DEF TypeInv, ActiveTyped, QueueTyped
<1>4. WorldTyped'
  BY <1>2, WorldStays DEF TypeInv
<1>5. MainTyped'
  BY <1>1, <1>2 DEF TypeInv, MainTyped
<1>6. JobsTyped'
  <2> DEFINE kept == Without(jobs, baseHandle)
             left == Without(kept, loadHandle)
             load == Spawned("load", mode, left, 0)
  <2>1. kept \subseteq jobs /\ left \subseteq jobs
    BY DEF Without
  <2>2. jobs' = kept \/ jobs' = left \cup {load}
    BY DEF FinishCancel
  <2> HIDE DEF kept, left
  <2>3. load \in Jobs
    BY <2>1, SpawnedTyped DEF TypeInv, MainTyped
  <2> HIDE DEF load
  <2> QED  BY <2>1, <2>2, <2>3, FewerTyped, AnotherTyped DEF TypeInv
<1> QED  BY <1>3, <1>4, <1>5, <1>6 DEF TypeInv

(* Files are enqueued with the parameters of the moment. *)
LEMMA ArgTyped ==
    ASSUME MainTyped, NEW f \in Files
    PROVE  ArgFor(f) \in Args
BY DEF ArgFor, Args, MainTyped

LEMMA HandleEventTypes == IInv /\ TypeInv /\ HandleEvent => TypeInv'
<1> SUFFICES ASSUME IInv, TypeInv, HandleEvent PROVE TypeInv'  OBVIOUS
<1> DEFINE e == Head(events)
<1>1. events # <<>> /\ events' = Tail(events)
      /\ UNCHANGED <<tree, commit, locked, enabled, mode, invalidateAllPending, mergeBase, jobs,
                     shown, historyVars>>
  BY DEF HandleEvent
<1>2. e \in Events /\ events' \in Seq(Events)
  BY <1>1, HeadTailProperties DEF TypeInv, WorldTyped
<1>3. e.files \in SUBSET Files
  BY <1>2 DEF Events
<1>4. WorldTyped'
  BY <1>1, <1>2 DEF TypeInv, WorldTyped
<1>5. JobsTyped'
  BY <1>1, FewerTyped DEF TypeInv
<1> HIDE DEF e
<1>6. ASSUME NEW rest \in {"reload", "suppress"}, BeginCancel(rest), UNCHANGED deferred
      PROVE  TypeInv'
  <2>1. ActiveTyped' /\ QueueTyped'
    BY <1>6, CancelTyped DEF BeginCancel, IInv, TypeInv
  <2>2. MainTyped'
    BY <1>1, <1>6 DEF BeginCancel, TypeInv, MainTyped, historyVars
  <2> QED  BY <1>4, <1>5, <2>1, <2>2 DEF TypeInv
<1>7. ASSUME EnqueueFiles(e.files), UNCHANGED <<active, handle, results, step, gen>>
      PROVE  TypeInv'
  <2>1. CASE invalidateAllPending
    <3>1. deferred' = deferred \cup e.files /\ UNCHANGED <<nextTask, taskMap, channel>>
      BY <1>7, <2>1 DEF EnqueueFiles
    <3>2. MainTyped'
      BY <1>1, <1>3, <1>7, <3>1 DEF TypeInv, MainTyped, historyVars
    <3>3. ActiveTyped' /\ QueueTyped'
      BY <1>7, <3>1, QueueStays DEF queueVars, TypeInv
    <3> QED  BY <1>4, <1>5, <3>2, <3>3 DEF TypeInv
  <2>2. CASE ~invalidateAllPending
    <3> DEFINE n == Cardinality(e.files)
               args == [i \in 1..n |-> ArgFor(SetToSeq(e.files)[i])]
    <3>1. Enqueue(args) /\ UNCHANGED deferred
      BY <1>7, <2>2 DEF EnqueueFiles
    <3>2. \A i \in 1..n : args[i] \in Args
      BY <1>3, ListedFiles, ArgTyped DEF TypeInv
    <3>3. n \in Nat
      BY <1>3, Bounds, FS_Subset, FS_CardinalityType
    <3>4. args = [i \in 1..n |-> args[i]]
      OBVIOUS
    <3> HIDE DEF args, n
    <3>5. ActiveTyped' /\ QueueTyped'
      BY <1>7, <3>1, <3>2, <3>3, <3>4, EnqueueTyped DEF IInv, TypeInv
    <3>6. MainTyped'
      BY <1>1, <1>7, <3>1 DEF TypeInv, MainTyped, historyVars
    <3> QED  BY <1>4, <1>5, <3>5, <3>6 DEF TypeInv
  <2> QED  BY <2>1, <2>2
<1>8. ASSUME UNCHANGED <<queueVars, step, gen, deferred>>
      PROVE  TypeInv'
  <2>1. MainTyped'
    BY <1>1, <1>8, MainStays DEF TypeInv
  <2>2. ActiveTyped' /\ QueueTyped'
    BY <1>8, QueueStays DEF TypeInv
  <2> QED  BY <1>4, <1>5, <2>1, <2>2 DEF TypeInv
<1> QED  BY <1>6, <1>7, <1>8 DEF HandleEvent, e

LEMMA UserTypes == IInv /\ TypeInv /\ User => TypeInv'
<1> SUFFICES ASSUME IInv, TypeInv, User PROVE TypeInv'  OBVIOUS
<1>1. UNCHANGED <<worldVars, invalidateAllPending, mergeBase, deferred, jobs, shown,
                  historyVars>>
  BY DEF User, Open, SetDiffMode, Reload, Close
<1>2. WorldTyped' /\ JobsTyped'
  BY <1>1, WorldStays, FewerTyped DEF TypeInv
<1>3. ASSUME NEW m \in Modes, Reload(TRUE, m)
      PROVE  TypeInv'
  <2>1. BeginCancel("reload") /\ enabled' = TRUE /\ mode' = m
    BY <1>3 DEF Reload
  <2>2. ActiveTyped' /\ QueueTyped'
    BY <2>1, CancelTyped DEF BeginCancel, IInv, TypeInv
  <2>3. MainTyped'
    BY <1>1, <2>1 DEF BeginCancel, TypeInv, MainTyped, historyVars
  <2> QED  BY <1>2, <2>2, <2>3 DEF TypeInv
<1>4. CASE Close
  <2>1. UNCHANGED <<queueVars, mode, step, gen>> /\ enabled' = FALSE
    BY <1>4 DEF Close
  <2>2. ActiveTyped' /\ QueueTyped'
    BY <2>1, QueueStays DEF TypeInv
  <2>3. MainTyped'
    BY <1>1, <2>1 DEF TypeInv, MainTyped, historyVars
  <2> QED  BY <1>2, <2>2, <2>3 DEF TypeInv
<1>5. mode \in Modes
  BY DEF TypeInv, MainTyped
<1> QED  BY <1>3, <1>4, <1>5 DEF User, Open, SetDiffMode

(* Deferred files are enqueued with the merge base of the moment. *)
LEMMA FlushTyped ==
    ASSUME QueueInv, ActiveTyped, QueueTyped, MainTyped, NEW base \in 0..MaxCommits \cup {None},
           Flush(base), UNCHANGED <<active, handle, results>>
    PROVE  ActiveTyped' /\ QueueTyped'
<1> DEFINE n == Cardinality(deferred)
           args == [i \in 1..n |-> [ArgFor(SetToSeq(deferred)[i]) EXCEPT !.base = base]]
<1>1. Enqueue(args)
  BY DEF Flush
<1>2. deferred \in SUBSET Files
  BY DEF MainTyped
<1>3. ASSUME NEW f \in Files
      PROVE  [ArgFor(f) EXCEPT !.base = base] \in Args
  <2>1. mode \in Modes /\ gen \in Nat
    BY DEF MainTyped
  <2> QED  BY <2>1 DEF ArgFor, Args
<1>4. \A i \in 1..n : args[i] \in Args
  BY <1>2, <1>3, ListedFiles
<1>5. n \in Nat
  BY <1>2, Bounds, FS_Subset, FS_CardinalityType
<1>6. args = [i \in 1..n |-> args[i]]
  OBVIOUS
<1> HIDE DEF args, n
<1> QED  BY <1>1, <1>4, <1>5, <1>6, EnqueueTyped

LEMMA LoadedTypes ==
    ASSUME IInv, TypeInv, NEW j \in jobs, Loaded(j)
    PROVE  TypeInv'
<1>1. UNCHANGED <<active, handle, results, worldVars, enabled, mode, step, gen>>
  BY DEF Loaded
<1>2. WorldTyped'
  BY <1>1, WorldStays DEF TypeInv
<1>3. j.value.diffs # None => j.value.diffs \in [Files -> Diffs \cup {None}]
  <2>1. j \in Jobs /\ j.value # None
    BY DEF Loaded, TypeInv, JobsTyped
  <2> QED  BY <2>1 DEF Jobs
<1>4. /\ shown' \in [Files -> Diffs \cup {None}] /\ spoiled' \subseteq Files
      /\ overtaken' \in BOOLEAN /\ baseFailed' \in BOOLEAN
  <2> DEFINE blank == [f \in Files |-> None]
  <2>1. shown' \in {shown, blank} \/ (shown' = j.value.diffs /\ j.value.diffs # None)
    BY DEF Loaded
  <2>2. blank \in [Files -> Diffs \cup {None}]
    OBVIOUS
  <2> HIDE DEF blank
  <2>3. shown' \in [Files -> Diffs \cup {None}]
    BY <1>3, <2>1, <2>2 DEF TypeInv, MainTyped
  <2>4. spoiled' \in {spoiled, {}, Files} /\ overtaken' \in BOOLEAN /\ baseFailed' = baseFailed
    BY DEF Loaded
  <2> QED  BY <2>3, <2>4 DEF TypeInv, MainTyped
<1>5. CASE Flush(mergeBase) /\ jobs' = jobs \ {j}
  <2>1. ActiveTyped' /\ QueueTyped'
    BY <1>1, <1>5, FlushTyped DEF IInv, TypeInv, MainTyped
  <2>2. MainTyped'
    BY <1>1, <1>4, <1>5 DEF Flush, TypeInv, MainTyped
  <2>3. JobsTyped'
    BY <1>5, FewerTyped DEF TypeInv
  <2> QED  BY <1>2, <2>1, <2>2, <2>3 DEF TypeInv
<1>6. CASE NeedsMergeBase
  <2> DEFINE kept == Without(jobs \ {j}, baseHandle)
             base == Spawned("base", mode, kept, loadHandle)
  <2>1. jobs' = kept \cup {base}
        /\ UNCHANGED <<nextTask, taskMap, channel, invalidateAllPending, mergeBase, deferred>>
    BY <1>6 DEF Loaded
  <2>2. kept \subseteq jobs
    BY DEF Without
  <2> HIDE DEF kept
  <2>3. base \in Jobs
    BY <2>2, SpawnedTyped DEF TypeInv, MainTyped
  <2> HIDE DEF base
  <2>4. JobsTyped'
    BY <2>1, <2>2, <2>3, AnotherTyped DEF TypeInv
  <2>5. ActiveTyped' /\ QueueTyped'
    BY <1>1, <2>1, QueueStays DEF queueVars, TypeInv
  <2>6. MainTyped'
    BY <1>1, <1>4, <2>1 DEF TypeInv, MainTyped
  <2> QED  BY <1>2, <2>4, <2>5, <2>6 DEF TypeInv
<1> QED  BY <1>5, <1>6 DEF Loaded

LEMMA MergeBaseTypes ==
    ASSUME IInv, TypeInv, NEW j \in jobs, MergeBaseComputed(j)
    PROVE  TypeInv'
<1> DEFINE base == IF j.value.base = None THEN mergeBase ELSE j.value.base
<1>1. UNCHANGED <<active, handle, results, worldVars, enabled, mode, step, shown, gen, spoiled>>
      /\ jobs' = jobs \ {j} /\ Flush(base)
      /\ overtaken' \in BOOLEAN /\ baseFailed' \in BOOLEAN
  BY DEF MergeBaseComputed
<1>2. base \in 0..MaxCommits \cup {None}
  <2>1. j \in Jobs /\ j.value # None
    BY DEF MergeBaseComputed, TypeInv, JobsTyped
  <2>2. j.value.base \in 0..MaxCommits \cup {None}
    BY <2>1 DEF Jobs
  <2> QED  BY <2>2 DEF TypeInv, MainTyped
<1> HIDE DEF base
<1>3. WorldTyped'
  BY <1>1, WorldStays DEF TypeInv
<1>4. ActiveTyped' /\ QueueTyped'
  BY <1>1, <1>2, FlushTyped DEF IInv, TypeInv
<1>5. MainTyped'
  BY <1>1, <1>2 DEF Flush, TypeInv, MainTyped
<1>6. JobsTyped'
  BY <1>1, FewerTyped DEF TypeInv
<1> QED  BY <1>3, <1>4, <1>5, <1>6 DEF TypeInv

LEMMA ResultTypes == IInv /\ TypeInv /\ ResultArrives => TypeInv'
<1> SUFFICES ASSUME IInv, TypeInv, ResultArrives PROVE TypeInv'  OBVIOUS
<1> DEFINE r == Head(results)
           f == r.task.arg.file
<1>1. results # <<>> /\ results' = Tail(results)
      /\ UNCHANGED <<nextTask, taskMap, channel, active, handle, worldVars, enabled, mode, step,
                     invalidateAllPending, mergeBase, deferred, jobs, gen, overtaken, baseFailed>>
  BY DEF ResultArrives
<1>2. r \in Outcomes(nextTask) /\ results' \in Seq(Outcomes(nextTask))
  BY <1>1, HeadTailProperties DEF TypeInv, QueueTyped
<1>3. r.result \in {Failed} \cup Diffs /\ f \in Files
  BY <1>2 DEF Outcomes, Tasks, Args
<1>4. shown' = shown \/ (r.result # Failed /\ shown' = [shown EXCEPT ![f] = r.result])
  BY DEF ResultArrives
<1>5. spoiled' \in {spoiled, spoiled \cup {f}, spoiled \ {f}}
  BY DEF ResultArrives
<1> HIDE DEF r, f
<1>6. shown' \in [Files -> Diffs \cup {None}] /\ spoiled' \subseteq Files
  <2>1. shown \in [Files -> Diffs \cup {None}] /\ spoiled \subseteq Files
    BY DEF TypeInv, MainTyped
  <2> QED  BY <1>3, <1>4, <1>5, <2>1
<1>7. MainTyped'
  BY <1>1, <1>6 DEF TypeInv, MainTyped
<1>8. ActiveTyped' /\ QueueTyped'
  BY <1>1, <1>2 DEF TypeInv, ActiveTyped, QueueTyped
<1>9. WorldTyped' /\ JobsTyped'
  BY <1>1, WorldStays, FewerTyped DEF TypeInv
<1> QED  BY <1>7, <1>8, <1>9 DEF TypeInv

LEMMA StepTyped == IInv /\ TypeInv /\ [Next]_vars => TypeInv'
<1> SUFFICES ASSUME IInv, TypeInv, [Next]_vars PROVE TypeInv'  OBVIOUS
<1>1. CASE World
  BY <1>1, WorldTypes
<1>2. CASE User
  BY <1>2, UserTypes
<1>3. CASE Callback
  BY <1>3, FinishCancelTypes, HandleEventTypes, ResultTypes, LoadedTypes, MergeBaseTypes
     DEF Callback
<1>4. CASE Job
  BY <1>4, JobTypes DEF Job
<1>5. CASE Queue \/ Compute
  BY <1>5, QueueTypes
<1>6. CASE UNCHANGED vars
  <2>1. UNCHANGED <<queueVars, worldVars, mainVars>>
    BY <1>6 DEF vars
  <2>2. ActiveTyped' /\ QueueTyped' /\ WorldTyped'
    BY <2>1, QueueStays, WorldStays DEF TypeInv
  <2>3. MainTyped'
    BY <2>1, MainStays DEF TypeInv, mainVars, historyVars
  <2>4. JobsTyped'
    BY <2>1, FewerTyped DEF TypeInv, mainVars
  <2> QED  BY <2>2, <2>3, <2>4 DEF TypeInv
<1> QED  BY <1>1, <1>2, <1>3, <1>4, <1>5, <1>6 DEF Next

(* Every variable of the queue and of the diffs keeps its type: a task has *)
(* an id that was handed out, there is always one for the next command, a  *)
(* command that has ended left what its callback reads, and whatever is    *)
(* shown is a diff or nothing, in whatever order tasks and commands end.   *)
THEOREM TypesOfDiffs == Spec => []TypeOK
<1>1. IInv /\ TypeInv => TypeOK
  BY TypesTogether DEF IInv
<1> QED  BY <1>1, DiffInvariant, InitTyped, StepTyped, PTL DEF Spec

-----------------------------------------------------------------------------
(* Late callbacks.  Commands are known by their ids; while the last reload *)
(* is under way and no callback of a replaced command has come between,    *)
(* the flag is set and no merge base is being computed for it.             *)
OneIdEach == \A j, k \in jobs : j.id = k.id => j = k

CurrentLoad == \E j \in jobs : j.kind = "load" /\ j.id = loadHandle

Quiet == ~overtaken /\ CurrentLoad => invalidateAllPending /\ baseHandle = 0

QuietInv == OneIdEach /\ Quiet

LEMMA QuietInit == Init => QuietInv
BY DEF Init, QuietInv, OneIdEach, Quiet, CurrentLoad

LEMMA QuietStays ==
    QuietInv /\ UNCHANGED <<jobs, loadHandle, baseHandle, invalidateAllPending, overtaken>>
        => QuietInv'
BY DEF QuietInv, OneIdEach, Quiet, CurrentLoad

(* A command that is spawned has an id of its own. *)
LEMMA OneIdSpawned ==
    ASSUME JobsTyped, OneIdEach, NEW js, js \subseteq jobs, NEW kind, NEW m, NEW other,
           jobs' = js \cup {Spawned(kind, m, js, other)}
    PROVE  OneIdEach'
<1> DEFINE k == Spawned(kind, m, js, other)
<1>1. \A j \in js : j.id # k.id
  BY SpawnedId, FS_Subset DEF JobsTyped
<1> HIDE DEF k
<1> QED  BY <1>1 DEF OneIdEach, k

LEMMA QuietFinishCancel == TypeInv /\ QuietInv /\ FinishCancel => QuietInv'
<1> SUFFICES ASSUME TypeInv, QuietInv, FinishCancel PROVE QuietInv'  OBVIOUS
<1> DEFINE kept == Without(jobs, baseHandle)
           left == Without(kept, loadHandle)
<1>1. Quiet'
  BY DEF FinishCancel, InvalidateAll, Quiet
<1>2. kept \subseteq jobs /\ left \subseteq jobs
  BY DEF Without
<1>3. jobs' = kept \/ jobs' = left \cup {Spawned("load", mode, left, 0)}
  BY DEF FinishCancel
<1> HIDE DEF kept, left
<1>4. OneIdEach'
  <2>1. CASE jobs' = kept
    BY <1>2, <2>1 DEF QuietInv, OneIdEach
  <2>2. CASE jobs' = left \cup {Spawned("load", mode, left, 0)}
    BY <1>2, <2>2, OneIdSpawned DEF QuietInv, TypeInv
  <2> QED  BY <1>3, <2>1, <2>2
<1> QED  BY <1>1, <1>4 DEF QuietInv

(* The load that is under way arrives, after which it is under way no      *)
(* more, or one that was replaced.                                         *)
LEMMA QuietLoaded ==
    ASSUME TypeInv, QuietInv, NEW j \in jobs, Loaded(j)
    PROVE  QuietInv'
<1> DEFINE kept == Without(jobs \ {j}, baseHandle)
           base == Spawned("base", mode, kept, loadHandle)
<1>1. kept \subseteq jobs \ {j}
  BY DEF Without
<1>2. j.kind = "load" /\ loadHandle' = loadHandle /\ (j.id = loadHandle \/ overtaken')
      /\ (jobs' = jobs \ {j} \/ jobs' = kept \cup {base})
  BY DEF Loaded
<1>3. base.kind = "base"
  BY DEF Spawned
<1>4. OneIdEach'
  <2>1. CASE jobs' = jobs \ {j}
    BY <2>1 DEF QuietInv, OneIdEach
  <2>2. CASE jobs' = kept \cup {base}
    <3> HIDE DEF kept
    <3> QED  BY <1>1, <2>2, OneIdSpawned DEF QuietInv, TypeInv
  <2> QED  BY <1>2, <2>1, <2>2
<1> HIDE DEF kept, base
<1>5. Quiet'
  <2>1. j.id = loadHandle => ~CurrentLoad'
    BY <1>1, <1>2, <1>3 DEF QuietInv, OneIdEach, CurrentLoad
  <2> QED  BY <1>2, <2>1 DEF Quiet
<1> QED  BY <1>4, <1>5 DEF QuietInv

LEMMA QuietMergeBase ==
    ASSUME TypeInv, QuietInv, NEW j \in jobs, MergeBaseComputed(j)
    PROVE  QuietInv'
<1>1. jobs' = jobs \ {j} /\ loadHandle' = loadHandle
      /\ (~overtaken' => ~overtaken /\ j.id = baseHandle)
  BY DEF MergeBaseComputed
<1>2. j.id # 0
  BY DEF TypeInv, JobsTyped, Jobs
<1>3. OneIdEach'
  BY <1>1 DEF QuietInv, OneIdEach
<1>4. Quiet'
  <2>1. ~overtaken' => ~CurrentLoad
    BY <1>1, <1>2 DEF QuietInv, Quiet
  <2> QED  BY <1>1, <2>1 DEF Quiet, CurrentLoad
<1> QED  BY <1>3, <1>4 DEF QuietInv

LEMMA QuietJob ==
    ASSUME IInv, QuietInv, NEW j \in jobs, JobReads(j) \/ JobFails(j)
    PROVE  QuietInv'
<1>1. PICK v : JobEnds(j, v)
  BY DEF JobReads, JobFails
<1> DEFINE k == [id |-> j.id, kind |-> j.kind, mode |-> j.mode, value |-> v]
<1>2. k.id = j.id /\ k.kind = j.kind /\ jobs' = (jobs \ {j}) \cup {k}
  BY <1>1, JobGoesOn DEF IInv, JobsShaped
<1>3. UNCHANGED <<loadHandle, baseHandle, invalidateAllPending, overtaken>>
  BY <1>1 DEF JobEnds, historyVars
<1> HIDE DEF k
<1>4. OneIdEach'
  BY <1>2 DEF QuietInv, OneIdEach
<1>5. Quiet'
  BY <1>2, <1>3 DEF QuietInv, Quiet, CurrentLoad
<1> QED  BY <1>4, <1>5 DEF QuietInv

LEMMA QuietStep == IInv /\ TypeInv /\ QuietInv /\ [Next]_vars => QuietInv'
<1> SUFFICES ASSUME IInv, TypeInv, QuietInv, [Next]_vars PROVE QuietInv'  OBVIOUS
<1>1. CASE \/ World \/ User \/ HandleEvent \/ ResultArrives \/ Queue \/ Compute
           \/ UNCHANGED vars
  <2>1. UNCHANGED <<jobs, loadHandle, baseHandle, invalidateAllPending, overtaken>>
    BY <1>1 DEF World, Edit, Commit, LockChanges, User, Open, SetDiffMode, Reload, Close,
                HandleEvent, ResultArrives, Queue, Compute, vars, mainVars, historyVars
  <2> QED  BY <2>1, QuietStays
<1>2. CASE FinishCancel
  BY <1>2, QuietFinishCancel
<1>3. CASE \E j \in jobs : Loaded(j) \/ MergeBaseComputed(j)
  BY <1>3, QuietLoaded, QuietMergeBase
<1>4. CASE Job
  BY <1>4, QuietJob DEF Job
<1> QED  BY <1>1, <1>2, <1>3, <1>4 DEF Next, Callback

(* Single results are suppressed while the last reload is under way, with  *)
(* any number of reloads and merge bases aborted too late for theirs to be *)
(* stopped, until the callback of one of these runs.                       *)
THEOREM QuietWhileReloading == Spec => []SuppressedUnlessOvertaken
<1>1. QuietInv => SuppressedUnlessOvertaken
  BY DEF QuietInv, Quiet, CurrentLoad, SuppressedUnlessOvertaken
<1> QED  BY <1>1, DiffInvariant, InitTyped, StepTyped, QuietInit, QuietStep, StepKeeps, InitHolds,
            PTL DEF Spec
=============================================================================
