----------------------------- MODULE DiffState -----------------------------
(***************************************************************************)
(* app/src/code_review/diff_state/local.rs: the diffs of a code review     *)
(* pane, kept up to date with the repository by full reloads and, between  *)
(* them, by one task per changed file in a TaskQueue.                      *)
(*                                                                         *)
(* Three actors: git and the user's editors change files and commits, and  *)
(* the watcher reports it; the main thread runs one callback at a time;    *)
(* the queue's background future and the spawned git commands run beside   *)
(* it.  A callback that calls cancel_all is two steps, one for each lock   *)
(* that the queue takes, and step names what the second one has to do.     *)
(*                                                                         *)
(* A file's diff is the version of the file that was read, the mode it was *)
(* computed for and the commit it was compared with.                       *)
(***************************************************************************)
EXTENDS TaskQueue, FiniteSets, SequencesExt

CONSTANTS
    Files,        \* the files that change
    Causes,       \* what may happen: see AllCauses
    StartMode,    \* the diff mode when the pane is opened
    MaxEdits, MaxCommits, MaxLocks,  \* bounds: edits of a file, commits, changes of the lock
    MaxUser,      \* bound: what the user does
    MaxChanges,   \* bound: all of these together
    MaxEvents     \* bound: reports that wait for the main thread

AllCauses == {"edit", "commit", "lock", "mode", "refresh", "close", "error"}
Modes == {"Head", "Branch"}

ASSUME DiffBounds ==
    /\ Causes \subseteq AllCauses /\ StartMode \in Modes
    /\ {MaxEdits, MaxCommits, MaxLocks, MaxUser, MaxChanges, MaxEvents} \subseteq Nat
    /\ IsFiniteSet(Files)

ASSUME NoneIsNoCommit == None \notin Nat

VARIABLES
    tree,         \* version of each file in the working tree
    commit,       \* what is checked out: HEAD, and with it the merge base
    locked,       \* .git/index.lock exists
    locks,        \* bound: times that it appeared or went
    events,       \* repository_update channel: what the watcher reported
    userActs,     \* bound: reloads, changes of mode and closings so far
    enabled,      \* metadata_refresh_enabled: the pane is open
    mode,         \* mode
    step,         \* "ready", or what is left of a callback after cancel_all's first lock
    invalidateAllPending,
    mergeBase,    \* merge_base, of the branch modes
    deferred,     \* pending_file_updates
    jobs,         \* spawned git commands: full loads and merge bases
    loadHandle, baseHandle,  \* computing_diffs_abort_handle, merge_base_handle
    shown,        \* what the pane shows for each file
    gen,          \* history: calls of queue_full_invalidation so far
    spoiled,      \* history: files that were last updated from before the last reload,
                  \*   by what failed or without a merge base
    overtaken,    \* history: the callback of a replaced command ran since the last reload
    baseFailed    \* history: a merge base could not be computed since the last cancel

worldVars == <<tree, commit, locked, locks, events>>
mainVars == <<userActs, enabled, mode, step, invalidateAllPending, mergeBase, deferred,
              jobs, loadHandle, baseHandle, shown, gen, spoiled, overtaken, baseFailed>>
historyVars == <<spoiled, overtaken, baseFailed>>
vars == <<queueVars, worldVars, mainVars>>

DiffOf(f, m, base) == [version |-> tree[f], mode |-> m, base |-> base]

(* What git would compute now.  A file's own task compares with HEAD, or,  *)
(* in a branch mode, with the merge base that was cached.                  *)
Truth(f) == DiffOf(f, mode, commit)
LoadResult(m) == [f \in Files |-> DiffOf(f, m, commit)]
TaskResult(arg) == DiffOf(arg.file, arg.mode, IF arg.mode = "Head" THEN commit ELSE arg.base)

Diffs == [version : 0..MaxEdits, mode : Modes, base : 0..MaxCommits \cup {None}]
Args == [file : Files, mode : Modes, base : 0..MaxCommits \cup {None}, gen : Nat]
Jobs == [id : Nat \ {0}, kind : {"load", "base"}, mode : Modes,
         value : {None} \cup [diffs : {None} \cup [Files -> Diffs], base : {None} \cup 0..MaxCommits]]
Events == [files : SUBSET Files, kind : {"files", "commit", "lock", "lockedIndex"}]

TypeOK ==
    /\ taskMap \subseteq [id : 1..nextTask, arg : Args] /\ channel \in Seq(1..nextTask)
    /\ active.task \in {None} \cup [id : 1..nextTask, arg : Args]
    /\ active.result \in {None, Failed} \cup Diffs
    /\ handle \in 0..nextTask /\ active.attempts \in 0..MaxRetries
    /\ results \in Seq([task : [id : 1..nextTask, arg : Args], result : {Failed} \cup Diffs])
    /\ tree \in [Files -> 0..MaxEdits] /\ commit \in 0..MaxCommits
    /\ locked \in BOOLEAN /\ events \in Seq(Events)
    /\ enabled \in BOOLEAN /\ mode \in Modes
    /\ step \in {"ready", "reload", "suppress"} /\ invalidateAllPending \in BOOLEAN
    /\ mergeBase \in 0..MaxCommits \cup {None} /\ deferred \subseteq Files
    /\ jobs \subseteq Jobs /\ shown \in [Files -> Diffs \cup {None}]
    /\ spoiled \subseteq Files /\ overtaken \in BOOLEAN /\ baseFailed \in BOOLEAN

Init ==
    /\ QueueInit
    /\ tree = [f \in Files |-> 0] /\ commit = 0 /\ locked = FALSE /\ locks = 0
    /\ events = <<>> /\ userActs = 0
    /\ enabled = FALSE /\ mode = StartMode /\ step = "ready"
    /\ invalidateAllPending = FALSE /\ mergeBase = None /\ deferred = {}
    /\ jobs = {} /\ loadHandle = 0 /\ baseHandle = 0
    /\ shown = [f \in Files |-> None] /\ gen = 0
    /\ spoiled = {} /\ overtaken = FALSE /\ baseFailed = FALSE

-----------------------------------------------------------------------------
(* The repository and its watcher, which reports changes in order.         *)
Reports(fs, kind) ==
    /\ Len(events) < MaxEvents
    /\ events' = Append(events, [files |-> fs, kind |-> kind])
MoreChanges == FoldFunction(+, commit + locks + userActs, tree) < MaxChanges
Edited(fs) == [f \in Files |-> IF f \in fs THEN tree[f] + 1 ELSE tree[f]]

Edit(fs) ==
    /\ "edit" \in Causes /\ fs # {} /\ \A f \in fs : tree[f] < MaxEdits
    /\ MoreChanges
    /\ tree' = Edited(fs)
    /\ Reports(fs, "files")
    /\ UNCHANGED <<queueVars, mainVars, commit, locked, locks>>

(* A commit or a checkout.  While the index is locked the subscriber sends *)
(* InvalidationWithLockedIndex in its place.                               *)
Commit(fs) ==
    /\ "commit" \in Causes /\ commit < MaxCommits /\ \A f \in fs : tree[f] < MaxEdits
    /\ MoreChanges
    /\ commit' = commit + 1
    /\ tree' = Edited(fs)
    /\ Reports(fs, IF locked THEN "lockedIndex" ELSE "commit")
    /\ UNCHANGED <<queueVars, mainVars, locked, locks>>

(* index.lock appears or goes; both are reported alike.                    *)
LockChanges ==
    /\ "lock" \in Causes
    /\ locks < MaxLocks /\ MoreChanges
    /\ locked' = ~locked
    /\ locks' = locks + 1
    /\ Reports({}, "lock")
    /\ UNCHANGED <<queueVars, mainVars, tree, commit>>

-----------------------------------------------------------------------------
(* Spawned git commands.  abort() stops only what has not ended: the       *)
(* callback of what has ended runs on the main thread at any later time,   *)
(* after whatever other callbacks, though its command has been replaced.   *)
Spawned(kind, m, js, other) ==
    LET id == CHOOSE n \in 1..(Cardinality(js) + 2) :
                  n # other /\ \A j \in js : j.id # n
    IN [id |-> id, kind |-> kind, mode |-> m, value |-> None]

Without(js, id) == {j \in js : j.id # id \/ j.value # None}

(* The command has read the repository, or failed, and ends.  That it ends *)
(* later than it reads needs no step: until then it can be aborted, as if  *)
(* it had not read, and its callback is as late as may be.                 *)
JobEnds(j, v) ==
    /\ j \in jobs /\ j.value = None
    /\ jobs' = (jobs \ {j}) \cup {[j EXCEPT !.value = v]}
    /\ UNCHANGED <<queueVars, worldVars, userActs, enabled, mode, step, invalidateAllPending,
                   mergeBase, deferred, loadHandle, baseHandle, shown, gen, historyVars>>

JobReads(j) ==
    JobEnds(j, IF j.kind = "load" THEN [diffs |-> LoadResult(j.mode), base |-> None]
                                  ELSE [diffs |-> None, base |-> commit])
JobFails(j) ==
    /\ "error" \in Causes
    /\ JobEnds(j, [diffs |-> None, base |-> None])

(* The main thread can turn to something new. *)
Ready == step = "ready"

-----------------------------------------------------------------------------
(* queue_full_invalidation, up to the queue's second lock; whatever calls  *)
(* it goes on in FinishCancel.                                             *)
BeginCancel(rest) ==
    /\ CancelAborts
    /\ step' = rest
    /\ gen' = gen + 1
    /\ UNCHANGED <<nextTask, taskMap, channel, results>>

(* Mutant: the flag is not set. *)
InvalidateQueueOnly == mergeBase' = None /\ UNCHANGED invalidateAllPending

InvalidateAll == mergeBase' = None /\ invalidateAllPending' = TRUE

(* The rest of queue_full_invalidation and, unless only that was called,   *)
(* of load_diffs_for_current_repo.                                         *)
FinishCancel ==
    /\ step # "ready"
    /\ step' = "ready"
    /\ CancelClears
    /\ InvalidateAll
    /\ LET kept == Without(jobs, baseHandle)
           left == Without(kept, loadHandle)
           load == Spawned("load", mode, left, 0)
       IN IF step = "reload"
          THEN jobs' = left \cup {load} /\ loadHandle' = load.id
          ELSE jobs' = kept /\ UNCHANGED loadHandle
    /\ baseHandle' = 0
    /\ overtaken' = (overtaken /\ step # "reload") /\ baseFailed' = FALSE
    /\ UNCHANGED <<nextTask, channel, active, handle, results, worldVars, userActs, enabled,
                   mode, deferred, shown, gen, spoiled>>

ArgFor(f) == [file |-> f, mode |-> mode, base |-> mergeBase, gen |-> gen]

(* enqueue_file_invalidations. *)
EnqueueFiles(fs) ==
    IF invalidateAllPending
    THEN /\ deferred' = deferred \cup fs
         /\ UNCHANGED <<nextTask, taskMap, channel>>
    ELSE /\ Enqueue([i \in 1..Cardinality(fs) |-> ArgFor(SetToSeq(fs)[i])])
         /\ UNCHANGED deferred

(* handle_file_update, the updates that it answers with a full reload.     *)
Reloads(e) ==
    \/ e.kind = "commit"
    \/ e.kind \in {"lock", "files"} /\ invalidateAllPending

HandleEvent ==
    /\ Ready /\ events # <<>>
    /\ events' = Tail(events)
    /\ LET e == Head(events) IN
         \/ /\ e.kind = "lockedIndex" \/ (enabled /\ e.kind = "lock" /\ ~Reloads(e))
            /\ BeginCancel("suppress")
            /\ UNCHANGED deferred
         \/ /\ enabled /\ Reloads(e)
            /\ BeginCancel("reload")
            /\ UNCHANGED deferred
         \/ /\ enabled /\ e.kind = "files" /\ ~Reloads(e)
            /\ EnqueueFiles(e.files)
            /\ UNCHANGED <<active, handle, results, step, gen>>
         \/ /\ ~enabled /\ e.kind # "lockedIndex"
            /\ UNCHANGED <<queueVars, step, gen, deferred>>
    /\ UNCHANGED <<tree, commit, locked, locks, userActs, enabled, mode, invalidateAllPending,
                   mergeBase, jobs, loadHandle, baseHandle, shown, historyVars>>

(* The user opens the pane, asks for a reload or changes the mode.         *)
Reload(on, m) ==
    /\ Ready /\ userActs < MaxUser /\ MoreChanges
    /\ userActs' = userActs + 1
    /\ enabled' = on /\ mode' = m
    /\ BeginCancel("reload")
    /\ UNCHANGED <<worldVars, invalidateAllPending, mergeBase, deferred, jobs, loadHandle,
                   baseHandle, shown, historyVars>>

Open == (~enabled \/ "refresh" \in Causes) /\ Reload(TRUE, mode)
SetDiffMode(m) == "mode" \in Causes /\ enabled /\ m # mode /\ Reload(TRUE, m)

(* The pane is closed: it does not listen to the model any more.           *)
Close ==
    /\ "close" \in Causes /\ enabled /\ Ready /\ userActs < MaxUser /\ MoreChanges
    /\ userActs' = userActs + 1
    /\ enabled' = FALSE
    /\ UNCHANGED <<queueVars, worldVars, mode, step, invalidateAllPending, mergeBase, deferred,
                   jobs, loadHandle, baseHandle, shown, gen, historyVars>>

-----------------------------------------------------------------------------
(* flush_pending_invalidations, with base as the merge base.               *)
Flush(base) ==
    /\ invalidateAllPending' = FALSE
    /\ mergeBase' = base
    /\ deferred' = {}
    /\ Enqueue([i \in 1..Cardinality(deferred) |->
                   [ArgFor(SetToSeq(deferred)[i]) EXCEPT !.base = base]])

(* Mutant: files are updated with whatever merge base is cached. *)
NeedsNoMergeBase == FALSE

NeedsMergeBase == mode # "Head"

(* handle_updated_state_for_repo and recompute_merge_base_and_flush: the   *)
(* pane takes over the loaded diffs, or shows the error; a branch mode     *)
(* needs its merge base before single files can be updated again.          *)
Loaded(j) ==
    /\ j \in jobs /\ j.kind = "load" /\ j.value # None /\ Ready
    /\ shown' = IF ~enabled THEN shown
                ELSE IF j.value.diffs = None THEN [f \in Files |-> None] ELSE j.value.diffs
    /\ spoiled' = IF ~enabled THEN spoiled ELSE IF j.value.diffs = None THEN Files ELSE {}
    /\ overtaken' = (overtaken \/ j.id # loadHandle)
    /\ \/ /\ ~NeedsMergeBase
          /\ Flush(mergeBase)
          /\ jobs' = jobs \ {j}
          /\ UNCHANGED baseHandle
       \/ /\ NeedsMergeBase
          /\ LET kept == Without(jobs \ {j}, baseHandle)
                 base == Spawned("base", mode, kept, loadHandle)
             IN jobs' = kept \cup {base} /\ baseHandle' = base.id
          /\ UNCHANGED <<nextTask, taskMap, channel, invalidateAllPending, mergeBase, deferred>>
    /\ UNCHANGED <<active, handle, results, worldVars, userActs, enabled, mode, step,
                   loadHandle, gen, baseFailed>>

(* The callback of the merge base's computation; one that failed leaves    *)
(* merge_base as it is, and single files are updated again all the same.   *)
MergeBaseComputed(j) ==
    /\ j \in jobs /\ j.kind = "base" /\ j.value # None /\ Ready
    /\ jobs' = jobs \ {j}
    /\ baseHandle' = 0
    /\ Flush(IF j.value.base = None THEN mergeBase ELSE j.value.base)
    /\ overtaken' = (overtaken \/ j.id # baseHandle)
    /\ baseFailed' = (baseFailed \/ j.value.base = None)
    /\ UNCHANGED <<active, handle, results, worldVars, userActs, enabled, mode, step,
                   loadHandle, shown, gen, spoiled>>

(* What is taken of a task that a reload should have cancelled, that       *)
(* failed, or that had no merge base and takes its file out of the diff.   *)
Spoils(r) ==
    \/ r.task.arg.gen < gen \/ r.result = Failed
    \/ r.task.arg.mode # "Head" /\ r.task.arg.base = None

(* A result of the queue reaches the model and, unless a full reload is    *)
(* pending, the open pane, which has no use for it before its first load.  *)
ResultArrives ==
    /\ Ready /\ results # <<>>
    /\ results' = Tail(results)
    /\ LET r == Head(results)
           f == r.task.arg.file
           taken == ~invalidateAllPending /\ enabled /\ shown[f] # None
       IN /\ shown' = IF taken /\ r.result # Failed THEN [shown EXCEPT ![f] = r.result] ELSE shown
          /\ spoiled' = IF ~taken THEN spoiled
                        ELSE IF Spoils(r) THEN spoiled \cup {f} ELSE spoiled \ {f}
    /\ UNCHANGED <<nextTask, taskMap, channel, active, handle, worldVars, userActs, enabled, mode,
                   step, invalidateAllPending, mergeBase, deferred, jobs, loadHandle, baseHandle, gen,
                   overtaken, baseFailed>>

Compute ==
    /\ active.task # None
    /\ Computes(TaskResult(active.task.arg))
    /\ UNCHANGED <<worldVars, mainVars>>

Queue == ProcessQueue /\ UNCHANGED <<worldVars, mainVars>>

World == (\E fs \in SUBSET Files : Edit(fs) \/ Commit(fs)) \/ LockChanges
User == Open \/ Close \/ \E m \in Modes : SetDiffMode(m)
Callback ==
    \/ FinishCancel \/ HandleEvent \/ ResultArrives
    \/ \E j \in jobs : Loaded(j) \/ MergeBaseComputed(j)
Job == \E j \in jobs : JobReads(j) \/ JobFails(j)

Next == World \/ User \/ Callback \/ Job \/ Queue \/ Compute

Spec == Init /\ [][Next]_vars

(* As long as a callback, a git command or the background future can go    *)
(* on, one of them does.  Which one need not be said, since they cannot go *)
(* on for ever by themselves.  Nothing is assumed of the user and of the   *)
(* repository.                                                             *)
LiveSpec == Spec /\ WF_vars(Callback \/ Job \/ Queue \/ Compute)

-----------------------------------------------------------------------------
(* "stale queue results are suppressed until the reload completes": while  *)
(* the last full load is under way, single results are not taken, unless   *)
(* the callback of a load or merge base that was replaced, which abort()   *)
(* came too late for, has run since the load began: it clears the flag.    *)
SuppressedUnlessOvertaken ==
    Ready /\ ~overtaken /\ (\E j \in jobs : j.kind = "load" /\ j.id = loadHandle)
        => invalidateAllPending

(* cancel_all lets at most one task escape, the one the queue is at: none  *)
(* enqueued before it is still waiting.                                    *)
OnlyActiveEscapes == Ready => \A t \in taskMap : t.arg.gen = gen

(* "deferred rather than enqueued without a merge base": a branch mode's   *)
(* task waits without one only where a merge base could not be computed,   *)
(* after which single files are updated all the same and leave the pane.   *)
BaselessOnlyAfterFailure ==
    \A t \in taskMap : t.arg.mode # "Head" /\ t.arg.base = None => baseFailed

(* What the pane shows is what git would say, but for the files that are   *)
(* spoiled: last updated by a task from before the last reload that        *)
(* escaped, by a load or a task that failed, or without a merge base.      *)
Fresh == \A f \in Files : shown[f] = Truth(f) \/ f \in spoiled

(* Once things are quiet the open pane is fresh, unless the index was ever *)
(* locked, or the callback of a replaced load or merge base has run since  *)
(* the last reload began: that lets in what is stale.                      *)
EventuallyFresh == <>[](enabled /\ locks = 0 /\ ~overtaken => Fresh)

(* "Lock just appeared - suppress the per-file queue and wait for the      *)
(* lock-release event": once the lock is gone the pane is fresh again.     *)
FreshOnceReleased == <>[](enabled /\ ~locked /\ ~overtaken => Fresh)
=============================================================================
