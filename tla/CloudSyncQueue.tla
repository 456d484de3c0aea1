--------------------------- MODULE CloudSyncQueue ---------------------------
(***************************************************************************)
(* SyncQueue (app/src/server/sync_queue.rs): the queue through which every *)
(* change of a cloud object goes to the server.  An item waits for the     *)
(* items it depends on; a call of dequeue() starts the first item that     *)
(* waits for nothing, and every answer calls dequeue() again.              *)
(*                                                                         *)
(* Items are numbered in the order in which they were enqueued, so the     *)
(* order of the Vec is the order of the numbers and the queue is a set.    *)
(* A QueueDependency, of either kind, is a pair of an item and the object  *)
(* it creates or updates.  queue_dependencies has one entry per queued     *)
(* item, kept here in the item itself.                                     *)
(***************************************************************************)
EXTENDS Naturals, FiniteSets

CONSTANTS
  Plain,      \* notebooks, preferences, ...: objects that refer to nothing
  Folders,    \* folders: created like the others, updated without a revision
  Enums,      \* workflow enums and env vars: objects that workflows refer to
  Workflows,  \* workflows
  Existing,   \* the objects that the server has when the program starts
  NoFolder,   \* no initial folder, or one that is named by its server id
  MaxItems,   \* bound: items enqueued in a run
  MaxStartup, \* bound: of those, the ones the program starts with
  MaxFaults,  \* bound: edits of other clients and answers lost, together
  MaxLogouts  \* bound: logouts in a run, those with no item between them as one

Objects == Plain \cup Folders \cup Enums \cup Workflows

ASSUME ConstantsAssumption ==
  /\ MaxItems \in Nat /\ MaxFaults \in Nat /\ MaxLogouts \in Nat
  /\ MaxStartup \in 0..MaxItems
  /\ Existing \subseteq Objects
  /\ NoFolder \notin Objects

\* An object is of one kind.
ASSUME KindsAssumption ==
  /\ Plain \cap (Folders \cup Enums \cup Workflows) = {}
  /\ Folders \cap (Enums \cup Workflows) = {}
  /\ Enums \cap Workflows = {}

Ids == 1..MaxItems
\* An object is named by the id that the client gave it or by the server's.
Names == {"client", "server"} \X Objects
Dependencies == Ids \X Objects
Kinds == {"create", "bulk", "update", "action"}
Outcomes == {"ok", "denied", "rejected", "failed", "skipped", "unresolved"}

Items == [id : Ids, kind : Kinds, objs : SUBSET Objects, name : {"client", "server"},
          refs : SUBSET Enums, folder : Folders \cup {NoFolder}, rev : Nat,
          deps : SUBSET Dependencies]

VARIABLES
  queue,       \* the items that wait
  inflight,    \* the items whose request was spawned and has not been answered
  waiting,     \* waiting_response: for each name, the items that await an answer
  known,       \* client_id_to_server and its inverse: objects with both ids
  dequeueing,  \* should_dequeue
  loop,        \* the bulk creation whose created objects are being handled
  synced,      \* CloudModel: the objects that it knows by their server id
  made,        \* CloudModel: each object's last creation by this client, or 0
  twice,       \* history: objects created again while a creation, reported as
               \* failed when it was enqueued, was still on its way
  cloudRev,    \* CloudModel: the revision the client has of each object
  serverRev,   \* the server's revision of each object, 0 if it has none
  content,     \* the item that last wrote the object at the server
  disturbed,   \* history: objects that something else than this queue changed
  reports,     \* history: what was emitted about each item, and silent skips
  halted,      \* history: a persistent error ended the last handler
  next,        \* the number of the next item
  cleared,     \* history: the number of the first item since the last logout
  logouts,     \* history: that number, for every logout
  faults       \* faults so far

server == <<cloudRev, serverRev, content, disturbed>>
vars == <<queue, inflight, waiting, known, dequeueing, loop, synced, made, twice, server,
          reports, halted, next, cleared, logouts, faults>>

-----------------------------------------------------------------------------
\* The names under which get_items_with_object_id finds a queued item.
Touches(i) ==
  IF i.kind = "action" THEN {}
  ELSE (IF i.kind = "update" THEN {i.name} ELSE {"client"}) \X i.objs

\* Mutant: items in flight are forgotten.
ItemsQueuedWithObjectId(q, w, name) ==
  {<<i.id, name[2]>> : i \in {j \in q : name \in Touches(j)}}

\* Queued and in-flight items that operate on the object of that name.
ItemsWithObjectId(q, w, name) ==
  {<<i.id, name[2]>> : i \in {j \in q : name \in Touches(j)}}
    \cup {<<id, name[2]>> : id \in w[name]}

OtherName(name) == <<IF name[1] = "client" THEN "server" ELSE "client", name[2]>>

\* Mutant: the object's other name is not looked up.
UpdateDependenciesByName(q, w, name) == ItemsWithObjectId(q, w, name)

UpdateDependencies(q, w, name) ==
  ItemsWithObjectId(q, w, name)
    \cup (IF name[2] \in known THEN ItemsWithObjectId(q, w, OtherName(name)) ELSE {})

\* References for which no server id is known; of those, the ones that no
\* queued or in-flight item will create.
Unresolved(refs) == refs \ known
Missing(q, w, refs) ==
  {e \in Unresolved(refs) : ItemsWithObjectId(q, w, <<"client", e>>) = {}}

\* What a queued item waits for.  A missing reference is an error: the
\* dependencies on the other references are then dropped as well.
InferredDependencies(q, w, i) ==
  (IF i.kind = "update"
     THEN UNION {UpdateDependencies(q, w, <<i.name, o>>) : o \in i.objs} ELSE {})
    \cup (IF Missing(q, w, i.refs) # {} THEN {}
          ELSE UNION {ItemsWithObjectId(q, w, <<"client", e>>) : e \in Unresolved(i.refs)})

\* try_server_id, of the item's object or of its initial folder, when the
\* objects in kn are those with both ids.
Sendable(i, kn) ==
  IF i.kind \in {"create", "bulk"} THEN i.folder \in kn \cup {NoFolder}
  ELSE i.name = "server" \/ i.objs \subseteq kn

\* handle_dependency_failure: the queued items that depend, through however
\* many others, on the dependencies in D: the least set closed under it.
DependsOn(i, D, T) == \E d \in i.deps : d \in D \/ \E t \in T : t.id = d[1]
Closed(q, D, T) == \A i \in q : DependsOn(i, D, T) => i \in T
\* Mutant: a failure is not passed on.
DirectDependents(q, D) == {i \in q : i.deps \cap D # {}}

Dependents(q, D) == {i \in q : \A T \in SUBSET q : Closed(q, D, T) => i \in T}

\* Under which names an item that leaves the queue goes to waiting_response.
\* A creation does so before its folder is looked up.
Awaits(i, kn) ==
  CASE i.kind \in {"create", "bulk"} -> {"client"} \X i.objs
    [] i.kind = "update" /\ Sendable(i, kn) -> {"server"} \X i.objs
    [] OTHER -> {}

First(S) == {i \in S : \A j \in S : i.id <= j.id}
Own(S) == {<<i.id, o>> : i \in S, o \in Objects}

(***************************************************************************)
(* dequeue(), from the queue q, the waiting table w, the requests fl, the  *)
(* reports rp and the known objects kn that the handler has computed so    *)
(* far, if dequeueing is on.  The first item                               *)
(* that waits for nothing leaves the queue.  When it cannot be sent, a     *)
(* creation or an action is skipped, an update fails with what depends on  *)
(* it, and dequeue() is called again; so what cannot be sent and stands    *)
(* before the first item that can leaves with it.                          *)
(***************************************************************************)
Dequeue(on, kn, q, w, fl, rp) ==
  LET ready  == {i \in q : on /\ i.deps = {}}
      head   == First({i \in ready : Sendable(i, kn)})
      passed == {i \in ready : ~Sendable(i, kn) /\ \A h \in head : i.id < h.id}
      lost   == {i \in passed : i.kind = "update"}
      failed == lost \cup Dependents(q, Own(lost))
  IN /\ queue' = q \ (head \cup passed \cup failed)
     /\ inflight' = fl \cup head
     /\ waiting' = [n \in Names |->
                      w[n] \cup {i.id : i \in {j \in head \cup passed : n \in Awaits(j, kn)}}]
     /\ reports' = rp \cup {<<i.id, "failed">> : i \in failed}
                      \cup {<<i.id, "skipped">> : i \in passed \ lost}
     /\ known' = kn
     /\ halted' = FALSE

-----------------------------------------------------------------------------
(* Starting, the connection, logging out. *)

Item(id, kind, objs, name, refs, folder, rev) ==
  [id |-> id, kind |-> kind, objs |-> objs, name |-> name, refs |-> refs,
   folder |-> folder, rev |-> rev, deps |-> {}]

\* from_cached_objects: an object with pending changes becomes a creation if it
\* has no server id, and an update otherwise.
Cached(id, o, refs) ==
  IF o \in Existing
  THEN Item(id, "update", {o}, "server", {}, NoFolder, IF o \in Folders THEN 0 ELSE 1)
  ELSE Item(id, "create", {o}, "client", IF o \in Workflows THEN refs ELSE {}, NoFolder, 0)

\* initialize_queue_dependencies: here an item may depend on a later one.
Initialized(q) ==
  {[i EXCEPT !.deps = InferredDependencies(q, [n \in Names |-> {}], i) \ Own({i})] : i \in q}

Init ==
  /\ known = {}
  /\ \E n \in 0..MaxStartup : \E order \in [1..n -> Objects], refs \in SUBSET (Enums \ Existing) :
       LET raw == {Cached(id, order[id], refs) : id \in 1..n}
       IN /\ \A a, b \in 1..n : order[a] = order[b] => a = b
          /\ queue = Initialized(raw)
          /\ reports = {<<i.id, "unresolved">> :
                          i \in {j \in raw : Missing(raw, [m \in Names |-> {}], j.refs) # {}}}
          /\ made = [o \in Objects |-> IF \E i \in raw : i.kind = "create" /\ o \in i.objs
                                       THEN CHOOSE id \in 1..n : order[id] = o ELSE 0]
          /\ next = n + 1
  /\ inflight = {} /\ waiting = [n \in Names |-> {}] /\ loop = {}
  /\ dequeueing = FALSE /\ halted = FALSE
  /\ synced = Existing
  /\ serverRev = [o \in Objects |-> IF o \in Existing THEN 1 ELSE 0] /\ cloudRev = serverRev
  /\ content = [o \in Objects |-> [id |-> 0, kind |-> "create"]]
  /\ disturbed = {} /\ twice = {} /\ cleared = 0 /\ logouts = {} /\ faults = 0

\* start_dequeueing: after every successful fetch of the changed objects.
StartDequeueing ==
  /\ loop = {}
  /\ dequeueing' = TRUE
  /\ Dequeue(TRUE, known, queue, waiting, inflight, reports)
  /\ UNCHANGED <<loop, synced, made, twice, server, next, cleared, logouts, faults>>

\* stop_dequeueing: the network went away.
StopDequeueing ==
  /\ loop = {} /\ dequeueing
  /\ dequeueing' = FALSE
  /\ UNCHANGED <<queue, inflight, waiting, known, loop, synced, made, twice, server,
                 reports, halted, next, cleared, logouts, faults>>

\* clear, on logout: the requests that were spawned are not aborted.  The next
\* login fetches what the server has.
Clear ==
  /\ loop = {} /\ next > 1 /\ Cardinality(logouts) < MaxLogouts
  /\ queue' = {} /\ known' = {} /\ waiting' = [n \in Names |-> {}]
  /\ cleared' = next /\ logouts' = logouts \cup {next}
  /\ made' = [o \in Objects |-> 0]
  /\ synced' = {o \in Objects : serverRev[o] > 0}
  /\ cloudRev' = serverRev
  /\ UNCHANGED <<inflight, dequeueing, loop, twice, serverRev, content, disturbed, reports,
                 halted, next, faults>>

-----------------------------------------------------------------------------
(* What UpdateManager enqueues. *)

\* enqueue.  With a missing reference the item is reported as failed, and is
\* queued all the same; the references looked at before it were replaced.
Enqueue(i) ==
  LET missing == Missing(queue, waiting, i.refs) # {}
  IN /\ loop = {}
     /\ \E refs \in SUBSET i.refs :
          /\ Unresolved(i.refs) \subseteq refs
          /\ ~missing => refs = Unresolved(i.refs)
          /\ Dequeue(dequeueing, known,
                     queue \cup {[i EXCEPT !.refs = refs,
                                    !.deps = InferredDependencies(queue, waiting, i)]},
                     waiting, inflight,
                     reports \cup (IF missing THEN {<<i.id, "unresolved">>} ELSE {}))
     /\ next' = next + 1
     /\ UNCHANGED <<dequeueing, loop, synced, server, cleared, logouts, faults>>

\* The client's model of the object is there, by one id or the other.
Local(o) == o \in synced \/ made[o] > 0
NameOf(o) == IF o \in synced THEN "server" ELSE "client"
RefsOf(o) == {refs \in SUBSET Enums : /\ refs # {} => o \in Workflows
                                      /\ \A e \in refs : made[e] > 0}

\* A new object, or one whose creation was reported as failed and that the
\* user, or handle_creation_denied_response, creates again.
Creatable(o) ==
  /\ o \notin synced
  /\ made[o] = 0 \/ \E x \in {"failed", "denied", "unresolved"} : <<made[o], x>> \in reports
  /\ \A r \in inflight : r.kind \in {"create", "bulk"} /\ o \in r.objs => r.id >= cleared

CreateObject(o) ==
  /\ next <= MaxItems /\ Creatable(o)
  /\ \E refs \in RefsOf(o), folder \in {f \in Folders \ {o} : made[f] > 0 /\ f \notin synced}
                                          \cup {NoFolder} :
       Enqueue(Item(next, "create", {o}, "client", refs, folder, 0))
  /\ made' = [made EXCEPT ![o] = next]
  /\ twice' = IF \E i \in queue \cup inflight : i.id = made[o] THEN twice \cup {o} ELSE twice

BulkCreateGenericStringObjects(objs) ==
  /\ next <= MaxItems /\ \A o \in objs : Creatable(o)
  /\ Enqueue(Item(next, "bulk", objs, "client", {}, NoFolder, 0))
  /\ made' = [o \in Objects |-> IF o \in objs THEN next ELSE made[o]]
  /\ UNCHANGED twice

UpdateObject(o) ==
  /\ next <= MaxItems /\ Local(o)
  /\ \E refs \in RefsOf(o) :
       Enqueue(Item(next, "update", {o}, NameOf(o), refs, NoFolder,
                    IF o \in Folders THEN 0 ELSE cloudRev[o]))
  /\ UNCHANGED <<made, twice>>

RecordObjectAction(o) ==
  /\ next <= MaxItems /\ Local(o)
  /\ Enqueue(Item(next, "action", {o}, NameOf(o), {}, NoFolder, 0))
  /\ UNCHANGED <<made, twice>>
-----------------------------------------------------------------------------
(* Answers.  A request is retried before it fails, and may wait for long.    *)

\* waiting_response without the item, once o's part of it is answered.
Answered(r, o) ==
  [waiting EXCEPT ![<<IF r.kind = "update" THEN "server" ELSE "client", o>>] = @ \ {r.id}]

\* Mutants: folders get a revision too; the revision stays.
RefreshedWithFolders(i, o, rev, kn) ==
  IF i.kind = "update" /\ o \in i.objs /\ Sendable(i, kn) THEN rev ELSE i.rev
RefreshedNever(i, o, rev, kn) == i.rev

\* update_items_with_new_revision: not folders, which have no revision.
Refreshed(i, o, rev, kn) ==
  IF i.kind = "update" /\ o \in i.objs \ Folders /\ Sendable(i, kn) THEN rev ELSE i.rev

\* handle_dependency_success.
Freed(q, d) == {[i EXCEPT !.deps = @ \ {d}] : i \in q}

\* update_dependencies_on_creation, then what handle_success_response does to
\* the queue.  The references to an object that was created in bulk stay.
Created(r, o, rev) ==
  {[i EXCEPT !.deps = @ \ {<<r.id, o>>},
             !.rev = Refreshed(i, o, rev, known \cup {o}),
             !.refs = IF r.kind = "create" /\ <<r.id, o>> \in i.deps THEN @ \ {o} ELSE @] : i \in queue}

\* The server writes what r brings; what it wrote before was not this queue's
\* doing when o was there already and r is a creation, or r is from before a logout.
ServerWrites(r, o) ==
  /\ serverRev' = [serverRev EXCEPT ![o] = @ + 1]
  /\ content' = [content EXCEPT ![o] = [id |-> r.id, kind |-> r.kind]]
  /\ disturbed' = disturbed \cup
       (IF r.id < cleared \/ (r.kind # "update" /\ serverRev[o] > 0) THEN {o} ELSE {})

Succeeded(r, o) ==
  /\ ServerWrites(r, o)
  /\ cloudRev' = [cloudRev EXCEPT ![o] = serverRev'[o]]

CreationSucceeds(r) ==
  /\ loop = {} /\ r.kind = "create"
  /\ \E o \in r.objs :
       /\ Succeeded(r, o)
       /\ synced' = synced \cup {o}
       /\ Dequeue(dequeueing, known \cup {o}, Created(r, o, serverRev'[o]), Answered(r, o),
                  inflight \ {r}, reports \cup {<<r.id, "ok">>})
  /\ UNCHANGED <<dequeueing, loop, made, twice, next, cleared, logouts, faults>>

\* The created objects are handled one after the other, and dequeue() is called
\* after each; nothing else runs before the last one.
BulkCreationSucceeds(r) ==
  /\ r.kind = "bulk" /\ loop \subseteq {r.id}
  /\ \E o \in r.objs :
       LET left == r.objs \ {o}
       IN /\ Succeeded(r, o)
          /\ synced' = synced \cup {o}
          /\ loop' = IF left = {} THEN {} ELSE {r.id}
          /\ Dequeue(dequeueing, known \cup {o}, Created(r, o, serverRev'[o]), Answered(r, o),
                     (inflight \ {r}) \cup (IF left = {} THEN {} ELSE {[r EXCEPT !.objs = left]}),
                     reports \cup (IF left = {} THEN {<<r.id, "ok">>} ELSE {}))
  /\ UNCHANGED <<dequeueing, made, twice, next, cleared, logouts, faults>>

\* Mutants: the next item is not started; the dependents are not freed.
CreationDeniedSilently(r) ==
  /\ loop = {} /\ r.kind = "create"
  /\ \E o \in r.objs :
       /\ queue' = Freed(queue, <<r.id, o>>) /\ waiting' = Answered(r, o)
       /\ inflight' = inflight \ {r} /\ reports' = reports \cup {<<r.id, "denied">>}
  /\ UNCHANGED <<known, halted, dequeueing, loop, synced, made, twice, server, next, cleared, logouts, faults>>

CreationDeniedKeepsDependents(r) ==
  /\ loop = {} /\ r.kind = "create"
  /\ \E o \in r.objs :
       Dequeue(dequeueing, known, queue, Answered(r, o),
               inflight \ {r}, reports \cup {<<r.id, "denied">>})
  /\ UNCHANGED <<dequeueing, loop, synced, made, twice, server, next, cleared, logouts, faults>>

\* UserFacingError: dependents go on as after a success.
CreationDenied(r) ==
  /\ loop = {} /\ r.kind = "create"
  /\ \E o \in r.objs :
       Dequeue(dequeueing, known, Freed(queue, <<r.id, o>>), Answered(r, o),
               inflight \ {r}, reports \cup {<<r.id, "denied">>})
  /\ UNCHANGED <<dequeueing, loop, synced, made, twice, server, next, cleared, logouts, faults>>

UpdateSucceeds(r) ==
  /\ loop = {} /\ r.kind = "update"
  /\ \E o \in r.objs :
       /\ r.rev \in {0, serverRev[o]}
       /\ Succeeded(r, o)
       /\ Dequeue(dequeueing, known,
                  {[i EXCEPT !.rev = Refreshed(i, o, serverRev'[o], known)] :
                     i \in Freed(queue, <<r.id, o>>)},
                  Answered(r, o), inflight \ {r}, reports \cup {<<r.id, "ok">>})
  /\ UNCHANGED <<dequeueing, loop, synced, made, twice, next, cleared, logouts, faults>>

\* The client takes the server's version of a workflow, and asks about others.
UpdateRejected(r) ==
  /\ loop = {} /\ r.kind = "update"
  /\ \E o \in r.objs :
       /\ r.rev \notin {0, serverRev[o]}
       /\ \E rev \in {cloudRev[o], serverRev[o]} : cloudRev' = [cloudRev EXCEPT ![o] = rev]
       /\ Dequeue(dequeueing, known, Freed(queue, <<r.id, o>>), Answered(r, o),
                  inflight \ {r}, reports \cup {<<r.id, "rejected">>})
  /\ UNCHANGED <<dequeueing, loop, synced, made, twice, serverRev, content, disturbed, next, cleared, logouts, faults>>

ActionRecorded(r) ==
  /\ loop = {} /\ r.kind = "action"
  /\ Dequeue(dequeueing, known, queue, waiting, inflight \ {r}, reports \cup {<<r.id, "ok">>})
  /\ UNCHANGED <<dequeueing, loop, synced, made, twice, server, next, cleared, logouts, faults>>

\* Mutant: what depended on the item leaves the queue without a report.
RequestFailsQuietly(r, persistent) ==
  LET rest == queue \ Dependents(queue, {<<r.id, o>> : o \in r.objs})
  IN /\ loop = {} /\ ~persistent
     /\ Dequeue(dequeueing, known, rest, [n \in Names |-> waiting[n] \ {r.id}],
                inflight \ {r}, reports \cup {<<r.id, "failed">>})
     /\ UNCHANGED <<dequeueing, loop, synced, made, twice, server, next, cleared, logouts, faults>>

\* The last retry failed, or a unique key conflicts; what depends on the item
\* fails too.  maybe_dequeue_on_error: after an error that the next request
\* would meet as well, dequeue() is not called.
RequestFails(r, persistent) ==
  LET lost == Dependents(queue, {<<r.id, o>> : o \in r.objs})
      rest == queue \ lost
      w    == [n \in Names |-> waiting[n] \ {r.id}]
      rp   == reports \cup {<<i.id, "failed">> : i \in lost \cup {r}}
  IN /\ loop = {}
     /\ \/ ~persistent /\ Dequeue(dequeueing, known, rest, w, inflight \ {r}, rp)
        \/ /\ persistent
           /\ queue' = rest /\ waiting' = w /\ inflight' = inflight \ {r}
           /\ reports' = rp /\ halted' = TRUE /\ UNCHANGED known
     /\ UNCHANGED <<dequeueing, loop, synced, made, twice, server, next, cleared, logouts, faults>>

\* The server applied the update, and the client, which did not hear of it,
\* will send it again.
AnswerLost(r) ==
  /\ loop = {} /\ faults < MaxFaults /\ r.kind = "update"
  /\ \E o \in r.objs :
       /\ r.rev \in {0, serverRev[o]}
       /\ serverRev' = [serverRev EXCEPT ![o] = @ + 1]
       /\ content' = [content EXCEPT ![o] = [id |-> r.id, kind |-> r.kind]]
       /\ disturbed' = disturbed \cup {o}
  /\ faults' = faults + 1
  /\ UNCHANGED <<queue, inflight, waiting, known, dequeueing, loop, synced, made, twice, cloudRev,
                 reports, halted, next, cleared, logouts>>

OtherClientEdits(o) ==
  /\ loop = {} /\ faults < MaxFaults /\ serverRev[o] > 0
  /\ serverRev' = [serverRev EXCEPT ![o] = @ + 1]
  /\ disturbed' = disturbed \cup {o}
  /\ faults' = faults + 1
  /\ UNCHANGED <<queue, inflight, waiting, known, dequeueing, loop, synced, made, twice, cloudRev,
                 content, reports, halted, next, cleared, logouts>>

Client ==
  \/ StopDequeueing \/ Clear
  \/ \E o \in Objects : CreateObject(o) \/ UpdateObject(o) \/ RecordObjectAction(o)
  \/ \E objs \in SUBSET Plain : Cardinality(objs) = 2 /\ BulkCreateGenericStringObjects(objs)
  \/ \E o \in Objects : OtherClientEdits(o)
  \/ \E r \in inflight : AnswerLost(r)

Answer(r) ==
  \/ CreationSucceeds(r) \/ BulkCreationSucceeds(r) \/ CreationDenied(r)
  \/ UpdateSucceeds(r) \/ UpdateRejected(r) \/ ActionRecorded(r)
  \/ RequestFails(r, FALSE) \/ RequestFails(r, TRUE)

Next == StartDequeueing \/ Client \/ \E r \in inflight : Answer(r)

Spec == Init /\ [][Next]_vars

\* Every request is answered: it is retried a fixed number of times.  The poll
\* for changed objects calls start_dequeueing as long as there is a network.
FairSpec ==
  /\ Spec
  /\ WF_vars(StartDequeueing)
  /\ \A id \in Ids : WF_vars(\E r \in inflight : r.id = id /\ Answer(r))

-----------------------------------------------------------------------------
\* Types of the variables; a folder's update never carries a revision.
TypeOK ==
  /\ queue \subseteq Items /\ inflight \subseteq Items
  /\ \A i \in queue \cup inflight : i.objs \subseteq Folders => i.rev = 0
  /\ waiting \in [Names -> SUBSET Ids]
  /\ known \subseteq Objects /\ synced \subseteq Objects /\ disturbed \subseteq Objects
  /\ twice \subseteq Objects
  /\ dequeueing \in BOOLEAN /\ halted \in BOOLEAN
  /\ loop \subseteq Ids
  /\ made \in [Objects -> 0..MaxItems]
  /\ serverRev \in [Objects -> Nat] /\ cloudRev \in [Objects -> Nat]
  /\ content \in [Objects -> [id : 0..MaxItems, kind : Kinds]]
  /\ reports \subseteq Ids \X Outcomes
  /\ next \in 1..MaxItems + 1 /\ cleared \in 0..MaxItems + 1 /\ faults \in 0..MaxFaults
  /\ logouts \subseteq 1..MaxItems + 1

\* The requests of items enqueued since the last logout.
Live == {r \in inflight : r.id >= cleared}
\* No logout came between the two items.
SameSession(a, b) == \A c \in logouts : a < c <=> b < c

\* The outcomes that were emitted when the item left the queue or was answered;
\* a creation or an action without a server id leaves with a line in the log.
Emitted(id) == {x \in {"ok", "denied", "rejected", "failed"} : <<id, x>> \in reports}
SilentlySkipped(id) == <<id, "skipped">> \in reports

\* No queued item waits for an answer that has come or will never come: what it
\* depends on is queued, in flight, or was skipped because its folder had no
\* server id.  (handle_dependency_success and handle_dependency_failure reach
\* every dependent, and get_items_with_object_id names no item that is gone.)
DependenciesAlive ==
  \A i \in queue : \A d \in i.deps :
    \/ \E j \in queue \cup Live : j.id = d[1] /\ d[2] \in j.objs
    \/ <<d[1], "skipped">> \in reports

\* The queue does not sit still: unless a persistent error ended the last
\* handler, an item that waits for nothing is waiting for a request in flight,
\* whose answer calls dequeue().
NoStall ==
  dequeueing /\ ~halted /\ (\E i \in queue : i.deps = {}) => inflight # {}

\* Two requests of one session that write the same object are never in flight
\* together, however they name it; except for a workflow that was reported as
\* failed while it was enqueued, and that the user created again.  (clear() does
\* not abort the requests that were spawned, so a request that outlived a logout
\* may be under way beside one of the next session: those pairs are excluded.)
OneWriterPerObject ==
  \A r, s \in inflight :
    r # s /\ "action" \notin {r.kind, s.kind} /\ SameSession(r.id, s.id)
      => r.objs \cap s.objs \subseteq twice

\* The client does not conflict with itself: an update since the last logout goes
\* out with the server's current revision, unless another client, an answer that
\* was lost, or a request from before a logout changed the object.
FreshRevision ==
  \A r \in Live : \A o \in r.objs \ disturbed :
    r.kind = "update" => r.rev \in {0, serverRev[o]}

\* "in correct serial order", as far as it goes: an older edit never replaces a
\* newer update of the same session at the server, not even when both outlived
\* the logout (a later creation, of an object that failed, may be overtaken).
\* Excluded is an older edit that outlived the logout and lands after an update
\* of the next session: nothing in the code keeps it from doing so.
SerialOrder ==
  [][\A o \in Objects :
       content'[o].id < content[o].id /\ SameSession(content'[o].id, content[o].id)
         => content[o].kind # "update"]_vars

\* Nothing enqueued since the last logout is forgotten: it is queued or in
\* flight, once, and has no outcome yet, or exactly one outcome was emitted for
\* it, or it was skipped and none was.  Two things the code does are excluded by
\* this wording: the skip itself, which dequeue() only logs, and the failure that
\* enqueue emits for a reference that nothing will create: the item is queued all
\* the same, so that this failure comes in addition to the item's outcome.
EachItemAccountedFor ==
  \A id \in Ids : cleared <= id /\ id < next =>
    IF \E i \in queue \cup inflight : i.id = id
    THEN /\ Emitted(id) = {} /\ ~SilentlySkipped(id)
         /\ Cardinality({i \in queue \cup inflight : i.id = id}) = 1
    ELSE Cardinality(Emitted(id)) = IF SilentlySkipped(id) THEN 0 ELSE 1

\* Every item leaves the queue in the end, unless it waits, directly or not, for
\* one that was skipped.
Blocked(id) ==
  \E i \in Dependents(queue, {d \in Dependencies : <<d[1], "skipped">> \in reports}) : i.id = id

Drains ==
  \A id \in Ids : (\E i \in queue : i.id = id) ~> (Blocked(id) \/ ~\E i \in queue : i.id = id)
=============================================================================
