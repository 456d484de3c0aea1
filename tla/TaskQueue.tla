----------------------------- MODULE TaskQueue -----------------------------
(***************************************************************************)
(* crates/warp_core/src/sync_queue.rs: a queue of tasks that one background*)
(* future runs one after the other, and that any thread can cancel.        *)
(*                                                                         *)
(* The tasks are in a map, the order of their ids is in a channel.  Two    *)
(* mutexes are taken separately, that of the map and that of the handle of *)
(* the task being run, so every step between two locks is an action.  The  *)
(* channel's bound rejects nothing: every try_send is made by a new clone  *)
(* of the sender, and each clone has a slot of its own.                    *)
(*                                                                         *)
(* The operations of this module are parts of steps: what a task computes  *)
(* and who enqueues and cancels is for the module that extends it to say.  *)
(***************************************************************************)
EXTENDS Integers, Sequences

CONSTANTS
    None,         \* no task, no result, no value
    Failed,       \* the result of a task that failed for good
    MaxRetries,   \* retries of a task whose error is transient
    Capacity      \* results that the broadcast channel holds

ASSUME QueueBounds == MaxRetries \in Nat /\ Capacity \in Nat \ {0}

VARIABLES
    nextTask,     \* TaskId of the last task enqueued
    taskMap,      \* tasks not yet picked: [id, arg]
    channel,      \* the ids, in the order in which they are picked
    active,       \* what process_queue is doing, and with which task
    handle,       \* id of the task in active_task_handle, 0 for None
    results       \* broadcast and not yet received: [task, result]

queueVars == <<nextTask, taskMap, channel, active, handle, results>>

Idle ==
    [pc |-> "idle", task |-> None, attempts |-> 0, result |-> None, aborted |-> FALSE]

QueueInit ==
    /\ nextTask = 0 /\ taskMap = {} /\ channel = <<>>
    /\ active = Idle /\ handle = 0 /\ results = <<>>

(* Mutant: a task whose id finds no room stays in the map. *)
EnqueueWhenFull(args) ==
    /\ nextTask' = nextTask + Len(args)
    /\ taskMap' = taskMap \cup {[id |-> nextTask + i, arg |-> args[i]] : i \in DOMAIN args}
    /\ channel' = IF channel = <<>> THEN [i \in DOMAIN args |-> nextTask + i] ELSE channel

(* enqueue, for each element of args in turn.                              *)
Enqueue(args) ==
    /\ nextTask' = nextTask + Len(args)
    /\ taskMap' = taskMap \cup {[id |-> nextTask + i, arg |-> args[i]] : i \in DOMAIN args}
    /\ channel' = channel \o [i \in DOMAIN args |-> nextTask + i]

(* cancel_all, its first lock: the active task's handle is taken, and the  *)
(* task aborted unless its future has ended.                               *)
CancelAborts ==
    /\ handle' = 0
    /\ active' = [active EXCEPT !.aborted = @ \/ handle # 0]

(* Mutant: only the active task is cancelled. *)
CancelClearsNothing == UNCHANGED taskMap

(* cancel_all, its second lock.                                            *)
CancelClears == taskMap' = {}

-----------------------------------------------------------------------------
(* process_queue.                                                          *)
PickTask ==
    /\ active.pc = "idle" /\ channel # <<>>
    /\ channel' = Tail(channel)
    /\ \E t \in taskMap :
         /\ t.id = Head(channel)
         /\ taskMap' = taskMap \ {t}
         /\ active' = [Idle EXCEPT !.pc = "picked", !.task = t]
    /\ UNCHANGED <<nextTask, handle, results>>

(* The task is not in the map any more: it was cancelled.                  *)
SkipTask ==
    /\ active.pc = "idle" /\ channel # <<>>
    /\ \A t \in taskMap : t.id # Head(channel)
    /\ channel' = Tail(channel)
    /\ UNCHANGED <<nextTask, taskMap, active, handle, results>>

KeepHandle ==
    /\ active.pc = "picked"
    /\ active' = [active EXCEPT !.pc = "running"]
    /\ handle' = active.task.id
    /\ UNCHANGED <<nextTask, taskMap, channel, results>>

(* An attempt of the active task computes v. *)
Computes(v) ==
    /\ active.pc = "running" /\ active.result = None /\ ~active.aborted
    /\ active' = [active EXCEPT !.result = v]
    /\ UNCHANGED <<nextTask, taskMap, channel, handle, results>>

(* Mutant: one retry more. *)
AttemptFailsMore ==
    /\ active.pc = "running" /\ active.result = None /\ ~active.aborted
    /\ \/ /\ active.attempts <= MaxRetries
          /\ active' = [active EXCEPT !.attempts = @ + 1]
       \/ active' = [active EXCEPT !.result = Failed]
    /\ UNCHANGED <<nextTask, taskMap, channel, handle, results>>

(* retry_with_backoff: an attempt fails; a transient error is retried.     *)
AttemptFails ==
    /\ active.pc = "running" /\ active.result = None /\ ~active.aborted
    /\ \/ /\ active.attempts < MaxRetries
          /\ active' = [active EXCEPT !.attempts = @ + 1]
       \/ active' = [active EXCEPT !.result = Failed]
    /\ UNCHANGED <<nextTask, taskMap, channel, handle, results>>

(* The abortable future ends, with the task's result or because of abort().*)
TaskEnds ==
    /\ active.pc = "running"
    /\ active.aborted \/ active.result # None
    /\ active' = [active EXCEPT !.pc = "ended", !.result = IF active.aborted THEN None ELSE @]
    /\ UNCHANGED <<nextTask, taskMap, channel, handle, results>>

(* Mutant: the handle is kept. *)
ForgetHandleLate ==
    /\ active.pc = "ended"
    /\ active' = IF active.result = None THEN Idle ELSE [active EXCEPT !.pc = "reporting"]
    /\ UNCHANGED <<nextTask, taskMap, channel, handle, results>>

(* active_task_handle is cleared; an aborted task reports nothing.         *)
ForgetHandle ==
    /\ active.pc = "ended"
    /\ active' = IF active.result = None THEN Idle ELSE [active EXCEPT !.pc = "reporting"]
    /\ handle' = 0
    /\ UNCHANGED <<nextTask, taskMap, channel, results>>

(* try_broadcast: a result that finds the channel full is dropped.         *)
Report ==
    /\ active.pc = "reporting"
    /\ active' = Idle
    /\ results' = IF Len(results) < Capacity
                  THEN Append(results, [task |-> active.task, result |-> active.result])
                  ELSE results
    /\ UNCHANGED <<nextTask, taskMap, channel, handle>>

(* The steps of the background future but for what a task computes.        *)
ProcessQueue ==
    PickTask \/ SkipTask \/ KeepHandle \/ AttemptFails \/ TaskEnds \/ ForgetHandle \/ Report

-----------------------------------------------------------------------------
(* No task is stranded in the map, where has_queued_task would find it for *)
(* ever: its id is still in the channel, and only once.                    *)
TicketForEach ==
    \A t \in taskMap : \E i \in DOMAIN channel :
        channel[i] = t.id /\ \A j \in DOMAIN channel \ {i} : channel[j] # t.id

(* cancel_all cannot abort a task that is not its business: the handle is  *)
(* that of the task being run, never of one before it.                     *)
HandleIsActives ==
    handle # 0 => active.pc \in {"running", "ended"} /\ handle = active.task.id
=============================================================================
