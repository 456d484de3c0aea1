------------------------ MODULE CloudSyncOrderProofs ------------------------
(***************************************************************************)
(* Proofs about CloudSyncQueue, continued: one writer per object, fresh    *)
(* revisions, and the serial order of what reaches the server, for every   *)
(* value of the constants.                                                 *)
(*                                                                         *)
(* As in CloudSyncQueueProofs, the parts of the invariant are stated of    *)
(* what a handler hands to dequeue().  A writer is an item that creates or *)
(* updates an object; JInv counts it if it was enqueued since the last     *)
(* logout.  KInv adds what holds among the requests that outlived one.     *)
(***************************************************************************)
EXTENDS CloudSyncQueueProofs

Creates(i) == i.kind \in {"create", "bulk"}
Updates(i) == i.kind = "update"

\* An object goes by its client id until the server's is known; an update is on
\* its way only with the server's.
Named(q, fl, kn, sy, cl) ==
  /\ kn \subseteq sy
  /\ \A i \in q \cup fl : \A o \in i.objs : cl <= i.id =>
       /\ Updates(i) /\ i.name = "server" => o \in sy
       /\ Creates(i) \/ (Updates(i) /\ i.name = "client") => (o \in sy => o \in kn)
  /\ \A i \in fl : \A o \in i.objs : cl <= i.id /\ Updates(i) => o \in sy

\* waiting_response lists every writer that is in flight.
Listed(w, fl, cl) ==
  \A i \in fl : \A o \in i.objs : cl <= i.id =>
    /\ Updates(i) => i.id \in w[<<"server", o>>]
    /\ Creates(i) => i.id \in w[<<"client", o>>]

\* An update waits for every earlier writer of its object.
Ordered(q, fl, cl) ==
  \A i, j \in q \cup fl : \A o \in i.objs \cap j.objs :
    /\ cl <= i.id /\ i.id < j.id
    /\ Creates(i) \/ Updates(i)
    /\ Updates(j)
    => j \in q /\ <<i.id, o>> \in j.deps

\* The creation of an object is the last one, its object is not at the server,
\* and none from before a logout is under way.
Sole(q, fl, cl, sy, tw, mk) ==
  \A i \in q \cup fl : \A o \in i.objs \ tw :
    cl <= i.id /\ Creates(i) =>
      /\ mk[o] = i.id
      /\ o \notin sy
      /\ \A j \in fl : Creates(j) /\ o \in j.objs => cl <= j.id

\* Only workflows have references.
Referring(q, fl, rp) ==
  \A i \in q \cup fl : Creates(i) /\ <<i.id, "unresolved">> \in rp => i.objs \subseteq Workflows

Lanes(q, w, fl, rp, cl, kn, sy, tw, mk) ==
  /\ Named(q, fl, kn, sy, cl)
  /\ Listed(w, fl, cl)
  /\ Ordered(q, fl, cl)
  /\ Sole(q, fl, cl, sy, tw, mk)
  /\ Referring(q, fl, rp)

\* As FreshRevision, for what is queued as well.
Fresh(q, fl, cl, sr, ds) ==
  \A i \in q \cup fl : \A o \in i.objs \ ds :
    cl <= i.id /\ Updates(i) => i.rev \in {0, sr[o]}

\* No writer is behind the update that wrote its object.
Late(q, fl, cl, ct, nx) ==
  \A o \in Objects : ct[o].kind = "update" /\ cl <= ct[o].id =>
    /\ ct[o].id < nx
    /\ \A i \in q \cup fl : (Creates(i) \/ Updates(i)) /\ o \in i.objs /\ cl <= i.id
         => ct[o].id <= i.id

\* The client and the server agree on an object that only this queue changed.
Agreed ==
  /\ \A o \in synced : serverRev[o] > 0
  /\ \A o \in Objects \ disturbed : cloudRev[o] = serverRev[o]

JInv ==
  /\ IInv
  /\ Lanes(queue, waiting, inflight, reports, cleared, known, synced, twice, made)
  /\ Fresh(queue, inflight, cleared, serverRev, disturbed)
  /\ Late(queue, inflight, cleared, content, next)
  /\ Agreed

-----------------------------------------------------------------------------
(* dequeue(). *)

\* What is sent waited for nothing, could be sent, and is awaited.
Sends(kn, q, w, fl, rp, sent) ==
  /\ sent \subseteq q /\ \A i \in sent : i.deps = {} /\ Sendable(i, kn)
  /\ queue' \subseteq q \ sent
  /\ inflight' = fl \cup sent
  /\ \A n \in Names : w[n] \subseteq waiting'[n]
  /\ \A i \in sent : \A n \in Names : n \in Awaits(i, kn) => i.id \in waiting'[n]
  /\ \A id : <<id, "unresolved">> \in reports' => <<id, "unresolved">> \in rp

LEMMA DequeueSends ==
  ASSUME NEW on, NEW kn, NEW q, NEW w, NEW fl, NEW rp, Dequeue(on, kn, q, w, fl, rp)
  PROVE  \E sent : Sends(kn, q, w, fl, rp, sent)
<1> DEFINE ready  == {i \in q : on /\ i.deps = {}}
           head   == First({i \in ready : Sendable(i, kn)})
           passed == {i \in ready : ~Sendable(i, kn) /\ \A h \in head : i.id < h.id}
           lost   == {i \in passed : i.kind = "update"}
           failed == lost \cup Dependents(q, Own(lost))
<1>1. /\ queue' = q \ (head \cup passed \cup failed)
      /\ inflight' = fl \cup head
      /\ waiting' = [n \in Names |->
                       w[n] \cup {i.id : i \in {j \in head \cup passed : n \in Awaits(j, kn)}}]
      /\ reports' = rp \cup {<<i.id, "failed">> : i \in failed}
                       \cup {<<i.id, "skipped">> : i \in passed \ lost}
  BY DEF Dequeue
<1>2. head \subseteq q /\ \A i \in head : Sendable(i, kn) /\ i.deps = {}
  BY DEF First
<1> HIDE DEF head, passed, failed
<1>3. \A id : <<id, "unresolved">> \in reports' => <<id, "unresolved">> \in rp
  BY <1>1
<1>4. Sends(kn, q, w, fl, rp, head)
  BY <1>1, <1>2, <1>3 DEF Sends
<1> QED
  BY <1>4

\* dequeue() keeps the lanes of what it is given.
LEMMA DequeueLanes ==
  ASSUME NEW on, NEW kn, NEW q, NEW w, NEW fl, NEW rp, NEW cl \in Nat, NEW nx \in Nat,
         NEW sy, NEW tw, NEW mk, NEW sr, NEW ds, NEW ct,
         Core(q, w, fl, rp, cl, nx), Dequeue(on, kn, q, w, fl, rp),
         Lanes(q, w, fl, rp, cl, kn, sy, tw, mk),
         Fresh(q, fl, cl, sr, ds), Late(q, fl, cl, ct, nx)
  PROVE  /\ Lanes(queue', waiting', inflight', reports', cl, kn, sy, tw, mk)
         /\ Fresh(queue', inflight', cl, sr, ds)
         /\ Late(queue', inflight', cl, ct, nx)
<1>1. PICK sent : Sends(kn, q, w, fl, rp, sent)
  BY DequeueSends
<1>2. /\ sent \subseteq q /\ \A i \in sent : i.deps = {} /\ Sendable(i, kn)
      /\ queue' \subseteq q \ sent
      /\ inflight' = fl \cup sent
  BY <1>1 DEF Sends
<1>3. Numbered(q, fl, cl, nx) /\ \A i \in q \cup fl : i \in Items
  BY DEF Core, Typed
<1>4. /\ Named(q, fl, kn, sy, cl) /\ Listed(w, fl, cl) /\ Ordered(q, fl, cl)
      /\ Sole(q, fl, cl, sy, tw, mk) /\ Referring(q, fl, rp)
  BY DEF Lanes
<1>5. queue' \cup inflight' \subseteq q \cup fl
  BY <1>2
<1>6. Named(queue', inflight', kn, sy, cl)
  <2>1. ASSUME NEW i \in inflight', NEW o \in i.objs, cl <= i.id, Updates(i)
        PROVE  o \in sy
    <3>1. CASE i \in fl
      BY <1>4, <2>1, <3>1 DEF Named
    <3>2. CASE i \in sent
      <4>1. i.name = "server" \/ i.objs \subseteq kn
        BY <1>2, <2>1, <3>2 DEF Sendable, Updates
      <4> QED
        BY <1>2, <1>4, <2>1, <3>2, <4>1 DEF Named
    <3> QED
      BY <1>2, <3>1, <3>2
  <2> QED
    BY <1>4, <1>5, <2>1 DEF Named
<1>7. Listed(waiting', inflight', cl)
  <2> SUFFICES ASSUME NEW i \in inflight', NEW o \in i.objs, cl <= i.id
               PROVE  /\ Updates(i) => i.id \in waiting'[<<"server", o>>]
                      /\ Creates(i) => i.id \in waiting'[<<"client", o>>]
    BY DEF Listed
  <2>1. o \in Objects
    BY <1>3, <1>5 DEF Items
  <2>2. <<"server", o>> \in Names /\ <<"client", o>> \in Names
    BY <2>1 DEF Names
  <2>3. CASE i \in fl
    BY <1>1, <1>4, <2>2, <2>3 DEF Listed, Sends
  <2>4. CASE i \in sent
    <3>1. Updates(i) => <<"server", o>> \in Awaits(i, kn)
      BY <1>2, <2>4 DEF Awaits, Updates
    <3>2. Creates(i) => <<"client", o>> \in Awaits(i, kn)
      BY DEF Awaits, Creates
    <3> QED
      BY <1>1, <2>2, <2>4, <3>1, <3>2 DEF Sends
  <2> QED
    BY <1>2, <2>3, <2>4
<1>8. Ordered(queue', inflight', cl)
  BY <1>2, <1>3, <1>4, <1>5 DEF Ordered, Numbered
<1>9. Sole(queue', inflight', cl, sy, tw, mk)
  BY <1>2, <1>3, <1>4, <1>5 DEF Sole, Numbered
<1>10. Referring(queue', inflight', reports')
  BY <1>1, <1>4, <1>5 DEF Referring, Sends
<1>11. Fresh(queue', inflight', cl, sr, ds) /\ Late(queue', inflight', cl, ct, nx)
  BY <1>5 DEF Fresh, Late
<1> QED
  BY <1>6, <1>7, <1>8, <1>9, <1>10, <1>11 DEF Lanes

-----------------------------------------------------------------------------
(* Enqueueing. *)

\* get_items_with_object_id finds every writer of the object under one of its
\* names: an update waits for them all.
LEMMA WritersFound ==
  ASSUME NEW q, NEW w, NEW fl, NEW cl, NEW sy,
         Named(q, fl, known, sy, cl), Listed(w, fl, cl),
         NEW i, Updates(i), NEW o \in i.objs, i.name = IF o \in sy THEN "server" ELSE "client",
         NEW k \in q \cup fl, o \in k.objs, cl <= k.id, Creates(k) \/ Updates(k),
         k.name \in {"client", "server"}
  PROVE  <<k.id, o>> \in InferredDependencies(q, w, i)
<1> DEFINE found(n) == ItemsWithObjectId(q, w, n)
           s == <<"server", o>>
           c == <<"client", o>>
<1>1. found(<<i.name, o>>) \cup (IF o \in known THEN found(OtherName(<<i.name, o>>)) ELSE {})
        \subseteq InferredDependencies(q, w, i)
  BY DEF InferredDependencies, UpdateDependencies, Updates
<1>2. /\ o \in sy => <<i.name, o>> = s /\ OtherName(<<i.name, o>>) = c
      /\ o \notin sy => <<i.name, o>> = c
  BY DEF OtherName
<1>3. CASE Updates(k) /\ (k \in fl \/ k.name = "server")
  <2>1. o \in sy
    BY <1>3 DEF Named
  <2>2. s \in Touches(k) \/ k \in fl
    BY <1>3 DEF Touches, Updates
  <2>3. <<k.id, o>> \in found(s)
    BY <1>3, <2>2 DEF ItemsWithObjectId, Listed
  <2> HIDE DEF found
  <2> QED
    BY <1>1, <1>2, <2>1, <2>3
<1>4. CASE Creates(k) \/ (Updates(k) /\ k \in q /\ k.name = "client")
  <2>1. o \in sy => o \in known
    BY <1>4 DEF Named
  <2>2. c \in Touches(k) \/ (k \in fl /\ Creates(k))
    BY <1>4 DEF Touches, Updates, Creates
  <2>3. <<k.id, o>> \in found(c)
    BY <1>4, <2>2 DEF ItemsWithObjectId, Listed
  <2> HIDE DEF found
  <2> QED
    BY <1>1, <1>2, <2>1, <2>3
<1> QED
  BY <1>3, <1>4

\* What an enqueued creation, or an update, finds.
MayEnter(i, q, fl, rp2, cl, sy, tw, mk, tw2, mk2, nx) ==
  /\ i.id = nx /\ tw \subseteq tw2
  /\ \A o \in Objects : (Creates(i) /\ o \in i.objs) \/ mk2[o] = mk[o]
  /\ rp2 \subseteq {<<nx, "unresolved">>}
  /\ Creates(i) /\ rp2 # {} => i.objs \subseteq Workflows
  /\ \A o \in i.objs :
    /\ Creates(i) => /\ o \notin sy /\ mk2[o] = nx
                     /\ \A k \in fl : Creates(k) /\ o \in k.objs => cl <= k.id
                     /\ \A k \in q \cup fl : cl <= k.id /\ Creates(k) /\ o \in k.objs => o \in tw2
    /\ Updates(i) => /\ i.name = IF o \in sy THEN "server" ELSE "client"
                     /\ \A k \in q \cup fl :
                          cl <= k.id /\ (Creates(k) \/ Updates(k)) /\ o \in k.objs
                            => <<k.id, o>> \in i.deps

LEMMA EnqueueLanes ==
  ASSUME NEW q, NEW w, NEW fl, NEW rp, NEW cl \in Nat, NEW nx \in Nat,
         NEW kn, NEW sy, NEW tw, NEW mk, NEW tw2, NEW mk2, NEW i, NEW rp2,
         Core(q, w, fl, rp, cl, nx), Lanes(q, w, fl, rp, cl, kn, sy, tw, mk),
         MayEnter(i, q, fl, rp2, cl, sy, tw, mk, tw2, mk2, nx)
  PROVE  Lanes(q \cup {i}, w, fl, rp \cup rp2, cl, kn, sy, tw2, mk2)
<1> DEFINE q2 == q \cup {i}
<1>1. /\ Named(q, fl, kn, sy, cl) /\ Listed(w, fl, cl) /\ Ordered(q, fl, cl)
      /\ Sole(q, fl, cl, sy, tw, mk) /\ Referring(q, fl, rp)
  BY DEF Lanes
<1>2. \A k \in q \cup fl : k.id \in Nat /\ k.id < nx /\ k.objs \subseteq Objects
  BY ConstantsAssumption DEF Core, Typed, Numbered, Items, Ids
<1>3. /\ i.id = nx /\ tw \subseteq tw2
      /\ \A o \in Objects : (Creates(i) /\ o \in i.objs) \/ mk2[o] = mk[o]
      /\ rp2 \subseteq {<<nx, "unresolved">>}
      /\ Creates(i) /\ rp2 # {} => i.objs \subseteq Workflows
      /\ \A o \in i.objs : Creates(i) =>
           /\ o \notin sy /\ mk2[o] = nx
           /\ \A k \in fl : Creates(k) /\ o \in k.objs => cl <= k.id
           /\ \A k \in q \cup fl : cl <= k.id /\ Creates(k) /\ o \in k.objs => o \in tw2
  BY DEF MayEnter
<1>4. Named(q2, fl, kn, sy, cl)
  BY <1>1 DEF Named, MayEnter, Updates, Creates
<1>5. Ordered(q2, fl, cl)
  BY <1>1, <1>2 DEF Ordered, MayEnter
<1>6. Sole(q2, fl, cl, sy, tw2, mk2)
  <2> SUFFICES ASSUME NEW k \in q2 \cup fl, NEW o \in k.objs \ tw2, cl <= k.id, Creates(k)
               PROVE  /\ mk2[o] = k.id
                      /\ o \notin sy
                      /\ \A j \in fl : Creates(j) /\ o \in j.objs => cl <= j.id
    BY DEF Sole
  <2>1. CASE k = i
    BY <1>3, <2>1
  <2>2. CASE k \in q \cup fl
    <3>1. ~(Creates(i) /\ o \in i.objs)
      BY <1>3, <2>2
    <3>2. mk2[o] = mk[o] /\ o \notin tw
      BY <1>2, <1>3, <2>2, <3>1
    <3> QED
      BY <1>1, <2>2, <3>2 DEF Sole
  <2> QED
    BY <2>1, <2>2
<1>7. Referring(q2, fl, rp \cup rp2)
  <2> SUFFICES ASSUME NEW k \in q2 \cup fl, Creates(k), <<k.id, "unresolved">> \in rp \cup rp2
               PROVE  k.objs \subseteq Workflows
    BY DEF Referring
  <2>1. CASE k = i
    <3>1. \A id \in Ids, x \in Outcomes : <<id, x>> \in rp => id < nx
      BY DEF Core, Dated
    <3>2. rp \subseteq Ids \X Outcomes
      BY DEF Core, Typed
    <3>3. <<nx, "unresolved">> \notin rp
      <4>1. SUFFICES ASSUME <<nx, "unresolved">> \in rp
                     PROVE  FALSE
        OBVIOUS
      <4>2. nx \in Ids /\ "unresolved" \in Outcomes
        BY <3>2, <4>1
      <4> QED
        BY <3>1, <4>1, <4>2
    <3> QED
      BY <1>3, <2>1, <3>3
  <2>2. CASE k \in q \cup fl
    BY <1>1, <1>2, <1>3, <2>2 DEF Referring
  <2> QED
    BY <2>1, <2>2
<1> QED
  BY <1>1, <1>4, <1>5, <1>6, <1>7 DEF Lanes

LEMMA OrderAfter ==
  ASSUME IInv', Agreed',
         Lanes(queue', waiting', inflight', reports', cleared', known', synced', twice', made'),
         Fresh(queue', inflight', cleared', serverRev', disturbed'),
         Late(queue', inflight', cleared', content', next')
  PROVE  JInv'
<1> QED
  BY DEF JInv

\* enqueue, of an item that UpdateManager may make.
LEMMA EnqueueOrders ==
  ASSUME JInv, IInv', NEW i, WellMade(i), i.id = next, next <= MaxItems, Enqueue(i),
         twice \subseteq twice',
         \A o \in Objects : (Creates(i) /\ o \in i.objs) \/ made'[o] = made[o],
         Creates(i) /\ i.refs # {} => i.objs \subseteq Workflows,
         \A o \in i.objs :
           /\ Creates(i) =>
                /\ o \notin synced /\ made'[o] = next
                /\ \A k \in inflight : Creates(k) /\ o \in k.objs => cleared <= k.id
                /\ \A k \in queue \cup inflight :
                     cleared <= k.id /\ Creates(k) /\ o \in k.objs => o \in twice'
           /\ Updates(i) => i.name = NameOf(o) /\ i.rev \in {0, cloudRev[o]}
  PROVE  JInv'
<1>1. /\ IInv
      /\ Lanes(queue, waiting, inflight, reports, cleared, known, synced, twice, made)
      /\ Fresh(queue, inflight, cleared, serverRev, disturbed)
      /\ Late(queue, inflight, cleared, content, next) /\ Agreed
  BY DEF JInv
<1>2. PICK refs, rp2 :
        /\ rp2 \subseteq {<<next, "unresolved">>} /\ (rp2 # {} => i.refs # {})
        /\ WellMade(Queued(i, refs))
        /\ Core(queue \cup {Queued(i, refs)}, waiting, inflight, reports \cup rp2, cleared, next + 1)
        /\ Dequeue(dequeueing, known, queue \cup {Queued(i, refs)}, waiting, inflight,
                   reports \cup rp2)
  BY <1>1, EnqueueHands
<1> DEFINE j == Queued(i, refs)
<1>3. /\ j.id = next /\ j.kind = i.kind /\ j.objs = i.objs /\ j.name = i.name /\ j.rev = i.rev
      /\ j.deps = InferredDependencies(queue, waiting, i)
  BY DEF Queued, WellMade, Items
<1> HIDE DEF j
<1>4. /\ Core(queue, waiting, inflight, reports, cleared, next)
      /\ cleared \in Nat /\ next \in Nat /\ next + 1 \in Nat
      /\ i.objs \subseteq Objects
      /\ \A k \in queue \cup inflight : k.id \in Nat /\ k.id < next /\ k.name \in {"client", "server"}
  BY <1>1, InvariantParts, ConstantsAssumption DEF Core, Typed, Numbered, Items, Ids, WellMade
<1>5. /\ next' = next + 1 /\ known' = known
      /\ UNCHANGED <<synced, cloudRev, serverRev, content, disturbed, cleared>>
  BY <1>2 DEF Enqueue, Dequeue, server
<1>6. /\ Creates(i) <=> Creates(j)
      /\ Updates(i) <=> Updates(j)
  BY <1>3 DEF Creates, Updates
<1>7. MayEnter(j, queue, inflight, rp2, cleared, synced, twice, made, twice', made', next)
  <2>1. ASSUME NEW o \in i.objs, Updates(i)
        PROVE  /\ j.name = IF o \in synced THEN "server" ELSE "client"
               /\ \A k \in queue \cup inflight :
                    cleared <= k.id /\ (Creates(k) \/ Updates(k)) /\ o \in k.objs
                      => <<k.id, o>> \in j.deps
    <3>1. i.name = IF o \in synced THEN "server" ELSE "client"
      BY <2>1 DEF NameOf
    <3>2. Named(queue, inflight, known, synced, cleared) /\ Listed(waiting, inflight, cleared)
      BY <1>1 DEF Lanes
    <3> QED
      BY <1>3, <1>4, <2>1, <3>1, <3>2, WritersFound
  <2>2. /\ \A o \in Objects : (Creates(j) /\ o \in j.objs) \/ made'[o] = made[o]
        /\ Creates(j) /\ rp2 # {} => j.objs \subseteq Workflows
        /\ rp2 \subseteq {<<next, "unresolved">>} /\ j.id = next
    BY <1>2, <1>3, <1>6
  <2> QED
    BY <1>3, <1>6, <2>1, <2>2 DEF MayEnter
<1>8. Lanes(queue \cup {j}, waiting, inflight, reports \cup rp2, cleared, known, synced, twice', made')
  BY <1>1, <1>4, <1>7, EnqueueLanes
<1>9. Fresh(queue \cup {j}, inflight, cleared, serverRev, disturbed)
  BY <1>1, <1>3, <1>4, <1>6 DEF Fresh, Agreed
<1>10. Late(queue \cup {j}, inflight, cleared, content, next + 1)
  <2>1. \A o \in Objects : content[o].id \in Nat
    BY <1>1, InvariantParts, ConstantsAssumption DEF OtherTypes
  <2> QED
    BY <1>1, <1>3, <1>4, <2>1 DEF Late
<1>11. /\ Lanes(queue', waiting', inflight', reports', cleared, known, synced, twice', made')
       /\ Fresh(queue', inflight', cleared, serverRev, disturbed)
       /\ Late(queue', inflight', cleared, content, next + 1)
  BY <1>2, <1>4, <1>8, <1>9, <1>10, DequeueLanes DEF j
<1>12. Agreed'
  BY <1>1, <1>5 DEF Agreed
<1> QED
  BY <1>5, <1>11, <1>12, OrderAfter

\* An object is created again while its last creation is on its way only when
\* that one was reported as failed for a missing reference.
LEMMA CreatedAgain ==
  ASSUME JInv, NEW o \in Objects, Creatable(o), NEW k \in queue \cup inflight,
         cleared <= k.id, Creates(k), o \in k.objs, o \notin twice
  PROVE  k.id = made[o] /\ o \in Workflows
<1>1. /\ Sole(queue, inflight, cleared, synced, twice, made) /\ Referring(queue, inflight, reports)
      /\ Pending(queue, inflight, reports, cleared) /\ k.id \in Ids
  BY InvariantParts DEF JInv, Lanes, Core, Typed, Items
<1>2. made[o] = k.id /\ made[o] # 0
  BY <1>1, ConstantsAssumption DEF Sole, Ids
<1>3. <<k.id, "failed">> \notin reports /\ <<k.id, "denied">> \notin reports
  BY <1>1 DEF Pending, Settled, Outcomes
<1>4. <<k.id, "unresolved">> \in reports
  BY <1>2, <1>3 DEF Creatable
<1> QED
  BY <1>1, <1>2, <1>4 DEF Referring

LEMMA CreateOrders ==
  ASSUME JInv, IInv', NEW o \in Objects, CreateObject(o)
  PROVE  JInv'
<1>1. PICK refs \in RefsOf(o), folder \in Folders \cup {NoFolder} :
        Enqueue(Item(next, "create", {o}, "client", refs, folder, 0))
  BY DEF CreateObject
<1>2. /\ next <= MaxItems /\ made' = [made EXCEPT ![o] = next] /\ Creatable(o)
      /\ twice' = IF \E i \in queue \cup inflight : i.id = made[o] THEN twice \cup {o} ELSE twice
  BY DEF CreateObject
<1>3. /\ next \in Ids /\ refs \in SUBSET Enums /\ (refs # {} => o \in Workflows)
      /\ made \in [Objects -> 0..MaxItems]
  BY <1>1, <1>2, ConstantsAssumption DEF JInv, IInv, TypeOK, Ids, RefsOf
<1> DEFINE i == Item(next, "create", {o}, "client", refs, folder, 0)
<1>4. WellMade(i) /\ i.id = next /\ i.kind = "create" /\ i.objs = {o} /\ i.refs = refs
  BY <1>3 DEF Item, WellMade, Items, Kinds
<1> HIDE DEF i
<1>5. Creates(i) /\ ~Updates(i)
  BY <1>4 DEF Creates, Updates
<1>6. /\ o \notin synced /\ made'[o] = next
      /\ \A k \in inflight : Creates(k) /\ o \in k.objs => cleared <= k.id
  BY <1>2, <1>3 DEF Creatable, Creates
<1>7. \A k \in queue \cup inflight :
        cleared <= k.id /\ Creates(k) /\ o \in k.objs => o \in twice'
  BY <1>2, CreatedAgain
<1>8. twice \subseteq twice' /\ \A x \in Objects : x \in i.objs \/ made'[x] = made[x]
  BY <1>2, <1>3, <1>4
<1>9. Enqueue(i)
  BY <1>1 DEF i
<1> QED
  BY <1>2, <1>3, <1>4, <1>5, <1>6, <1>7, <1>8, <1>9, EnqueueOrders

LEMMA BulkOrders ==
  ASSUME JInv, IInv', NEW objs \in SUBSET Plain, BulkCreateGenericStringObjects(objs)
  PROVE  JInv'
<1>1. /\ next <= MaxItems /\ Enqueue(Item(next, "bulk", objs, "client", {}, NoFolder, 0))
      /\ made' = [o \in Objects |-> IF o \in objs THEN next ELSE made[o]] /\ UNCHANGED twice
      /\ \A o \in objs : Creatable(o)
  BY DEF BulkCreateGenericStringObjects
<1>2. next \in Ids /\ objs \subseteq Objects /\ made \in [Objects -> 0..MaxItems]
  BY <1>1, ConstantsAssumption DEF JInv, IInv, TypeOK, Ids, Objects
<1> DEFINE i == Item(next, "bulk", objs, "client", {}, NoFolder, 0)
<1>3. WellMade(i) /\ i.id = next /\ i.kind = "bulk" /\ i.objs = objs /\ i.refs = {}
  BY <1>2 DEF Item, WellMade, Items, Kinds
<1> HIDE DEF i
<1>4. Creates(i) /\ ~Updates(i)
  BY <1>3 DEF Creates, Updates
<1>5. ASSUME NEW o \in objs
      PROVE  /\ o \notin synced /\ made'[o] = next
             /\ \A k \in inflight : Creates(k) /\ o \in k.objs => cleared <= k.id
  BY <1>1, <1>2 DEF Creatable, Creates
<1>6. ASSUME NEW o \in objs, NEW k \in queue \cup inflight,
             cleared <= k.id, Creates(k), o \in k.objs
      PROVE  o \in twice'
  <2>1. o \in Objects /\ Creatable(o) /\ twice' = twice
    BY <1>1, <1>2
  <2>2. o \notin Workflows
    BY KindsAssumption
  <2> QED
    BY <1>6, <2>1, <2>2, CreatedAgain
<1>7. twice \subseteq twice' /\ \A x \in Objects : x \in i.objs \/ made'[x] = made[x]
  BY <1>1, <1>2, <1>3
<1>8. Enqueue(i)
  BY <1>1 DEF i
<1> QED
  BY <1>1, <1>3, <1>4, <1>5, <1>6, <1>7, <1>8, EnqueueOrders

LEMMA UpdateOrders ==
  ASSUME JInv, IInv', NEW o \in Objects, UpdateObject(o)
  PROVE  JInv'
<1>1. next <= MaxItems /\ UNCHANGED <<made, twice>>
  BY DEF UpdateObject
<1>2. next \in Ids /\ cloudRev[o] \in Nat /\ NameOf(o) \in {"client", "server"}
  BY <1>1, ConstantsAssumption DEF JInv, IInv, TypeOK, Ids, NameOf
<1>3. PICK refs \in SUBSET Enums, rev \in Nat :
        /\ o \in Folders => rev = 0
        /\ rev \in {0, cloudRev[o]}
        /\ Enqueue(Item(next, "update", {o}, NameOf(o), refs, NoFolder, rev))
  BY <1>2 DEF UpdateObject, RefsOf
<1> DEFINE i == Item(next, "update", {o}, NameOf(o), refs, NoFolder, rev)
<1>4. /\ WellMade(i) /\ i.id = next /\ i.kind = "update" /\ i.objs = {o}
      /\ i.name = NameOf(o) /\ i.rev = rev
  BY <1>2, <1>3 DEF Item, WellMade, Items, Kinds
<1> HIDE DEF i
<1>5. ~Creates(i)
  BY <1>4 DEF Creates
<1>6. Enqueue(i)
  BY <1>3 DEF i
<1>7. \A x \in i.objs : i.name = NameOf(x) /\ i.rev \in {0, cloudRev[x]}
  BY <1>3, <1>4
<1>8. twice \subseteq twice' /\ \A x \in Objects : made'[x] = made[x]
  BY <1>1
<1> QED
  BY <1>1, <1>4, <1>5, <1>6, <1>7, <1>8, EnqueueOrders

LEMMA ActionOrders ==
  ASSUME JInv, IInv', NEW o \in Objects, RecordObjectAction(o)
  PROVE  JInv'
<1>1. next <= MaxItems /\ UNCHANGED <<made, twice>>
  BY DEF RecordObjectAction
<1>2. next \in Ids /\ NameOf(o) \in {"client", "server"}
  BY <1>1, ConstantsAssumption DEF JInv, IInv, TypeOK, Ids, NameOf
<1> DEFINE i == Item(next, "action", {o}, NameOf(o), {}, NoFolder, 0)
<1>3. WellMade(i) /\ i.id = next /\ i.kind = "action"
  BY <1>2 DEF Item, WellMade, Items, Kinds
<1>4. Enqueue(i)
  BY DEF RecordObjectAction
<1> HIDE DEF i
<1>5. ~Creates(i) /\ ~Updates(i)
  BY <1>3 DEF Creates, Updates
<1>6. twice \subseteq twice' /\ \A x \in Objects : made'[x] = made[x]
  BY <1>1
<1> QED
  BY <1>1, <1>3, <1>4, <1>5, <1>6, EnqueueOrders

-----------------------------------------------------------------------------
(* What changes neither the queue nor the requests. *)

\* No writer of the object is behind an update that is on its way.
LEMMA NoneBehind ==
  ASSUME JInv, NEW r \in inflight, Updates(r), cleared <= r.id, NEW o \in r.objs,
         NEW i \in queue \cup inflight, Creates(i) \/ Updates(i), o \in i.objs, cleared <= i.id
  PROVE  r.id <= i.id
<1>1. /\ Ordered(queue, inflight, cleared) /\ Numbered(queue, inflight, cleared, next)
      /\ i.id \in Nat /\ r.id \in Nat
  BY InvariantParts, ConstantsAssumption DEF JInv, Lanes, Core, Typed, Items, Ids
<1>2. SUFFICES ASSUME i.id < r.id
               PROVE  FALSE
  BY <1>1
<1>3. r \in queue
  BY <1>1, <1>2 DEF Ordered
<1> QED
  BY <1>1, <1>3 DEF Numbered

LEMMA StartOrders ==
  ASSUME JInv, IInv', StartDequeueing
  PROVE  JInv'
<1>1. /\ Dequeue(TRUE, known, queue, waiting, inflight, reports)
      /\ known' = known
      /\ UNCHANGED <<synced, made, twice, cloudRev, serverRev, content, disturbed, next, cleared>>
  BY DEF StartDequeueing, Dequeue, server
<1>2. /\ Core(queue, waiting, inflight, reports, cleared, next) /\ cleared \in Nat /\ next \in Nat
      /\ Lanes(queue, waiting, inflight, reports, cleared, known, synced, twice, made)
      /\ Fresh(queue, inflight, cleared, serverRev, disturbed)
      /\ Late(queue, inflight, cleared, content, next) /\ Agreed
  BY InvariantParts DEF JInv
<1>3. /\ Lanes(queue', waiting', inflight', reports', cleared, known, synced, twice, made)
      /\ Fresh(queue', inflight', cleared, serverRev, disturbed)
      /\ Late(queue', inflight', cleared, content, next)
  BY <1>1, <1>2, DequeueLanes
<1>4. Agreed'
  BY <1>1, <1>2 DEF Agreed
<1> QED
  BY <1>1, <1>3, <1>4, OrderAfter

\* After a logout no writer counts, and the client knows what the server has.
LEMMA ClearOrders ==
  ASSUME JInv, IInv', Clear
  PROVE  JInv'
<1>1. /\ queue' = {} /\ known' = {} /\ cleared' = next /\ inflight' = inflight
      /\ reports' = reports /\ next' = next
      /\ synced' = {o \in Objects : serverRev[o] > 0} /\ cloudRev' = serverRev
      /\ UNCHANGED <<serverRev, content, disturbed>>
  BY DEF Clear
<1>2. /\ next \in Nat /\ cleared \in Nat /\ cleared <= next
      /\ \A i \in inflight : i.id \in Nat /\ i.id < next
      /\ \A o \in Objects : content[o].id \in Nat
  <2>1. IInv
    BY DEF JInv
  <2> QED
    BY <2>1, InvariantParts, ConstantsAssumption DEF OtherTypes, Core, Typed, Numbered, Items, Ids
<1>3. Named(queue', inflight', known', synced', cleared')
  BY <1>1, <1>2 DEF Named
<1>4. Listed(waiting', inflight', cleared') /\ Ordered(queue', inflight', cleared')
  BY <1>1, <1>2 DEF Listed, Ordered
<1>5. Sole(queue', inflight', cleared', synced', twice', made')
  BY <1>1, <1>2 DEF Sole
<1>6. Referring(queue', inflight', reports')
  BY <1>1 DEF JInv, Lanes, Referring
<1>7. Fresh(queue', inflight', cleared', serverRev', disturbed')
  BY <1>1, <1>2 DEF Fresh
<1>8. Late(queue', inflight', cleared', content', next')
  BY <1>1, <1>2 DEF JInv, Late
<1>9. Agreed'
  BY <1>1 DEF Agreed
<1> QED
  BY <1>3, <1>4, <1>5, <1>6, <1>7, <1>8, <1>9, OrderAfter DEF Lanes

LEMMA OthersOrder ==
  ASSUME JInv, IInv',
         \/ StopDequeueing
         \/ \E o \in Objects : OtherClientEdits(o)
         \/ \E r \in inflight : AnswerLost(r)
         \/ UNCHANGED vars
  PROVE  JInv'
<1>1. UNCHANGED <<queue, waiting, inflight, reports, cleared, next, known, synced, twice, made, cloudRev>>
  BY DEF StopDequeueing, OtherClientEdits, AnswerLost, vars, server
<1>2. /\ Lanes(queue, waiting, inflight, reports, cleared, known, synced, twice, made)
      /\ Fresh(queue, inflight, cleared, serverRev, disturbed)
      /\ Late(queue, inflight, cleared, content, next) /\ Agreed /\ OtherTypes
  BY InvariantParts DEF JInv
<1>3. Lanes(queue', waiting', inflight', reports', cleared', known', synced', twice', made')
  BY <1>1, <1>2
<1>4. CASE UNCHANGED <<serverRev, content, disturbed>>
  <2>1. /\ Fresh(queue', inflight', cleared', serverRev', disturbed')
        /\ Late(queue', inflight', cleared', content', next')
    BY <1>1, <1>2, <1>4
  <2>2. Agreed'
    BY <1>1, <1>2, <1>4 DEF Agreed
  <2> QED
    BY <1>3, <2>1, <2>2, OrderAfter
<1>5. ASSUME NEW o \in Objects, serverRev' = [serverRev EXCEPT ![o] = @ + 1],
             disturbed' = disturbed \cup {o}
      PROVE  Fresh(queue', inflight', cleared', serverRev', disturbed') /\ Agreed'
  <2>1. /\ \A x \in Objects \ {o} : serverRev'[x] = serverRev[x]
        /\ serverRev[o] \in Nat /\ serverRev'[o] = serverRev[o] + 1
    BY <1>2, <1>5 DEF OtherTypes
  <2>2. \A i \in queue \cup inflight : i.objs \subseteq Objects
    BY InvariantParts DEF JInv, Core, Typed, Items
  <2>3. Fresh(queue', inflight', cleared', serverRev', disturbed')
    BY <1>1, <1>2, <1>5, <2>1, <2>2 DEF Fresh
  <2>4. synced \subseteq Objects
    BY <1>2 DEF OtherTypes
  <2>5. Agreed'
    BY <1>1, <1>2, <1>5, <2>1, <2>4 DEF Agreed
  <2> QED
    BY <2>3, <2>5
<1>6. ASSUME NEW o \in Objects, OtherClientEdits(o)
      PROVE  JInv'
  <2>1. /\ serverRev' = [serverRev EXCEPT ![o] = @ + 1] /\ disturbed' = disturbed \cup {o}
        /\ content' = content
    BY <1>6 DEF OtherClientEdits
  <2>2. Fresh(queue', inflight', cleared', serverRev', disturbed') /\ Agreed'
    BY <1>5, <2>1
  <2>3. Late(queue', inflight', cleared', content', next')
    BY <1>1, <1>2, <2>1
  <2> QED
    BY <1>3, <2>2, <2>3, OrderAfter
<1>7. ASSUME NEW r \in inflight, AnswerLost(r)
      PROVE  JInv'
  <2>1. PICK o \in r.objs : /\ serverRev' = [serverRev EXCEPT ![o] = @ + 1]
                            /\ content' = [content EXCEPT ![o] = [id |-> r.id, kind |-> r.kind]]
                            /\ disturbed' = disturbed \cup {o}
    BY <1>7 DEF AnswerLost
  <2>2. o \in Objects /\ Updates(r) /\ r.id < next
    BY <1>7, InFlight, InvariantParts DEF JInv, AnswerLost, Updates, Core, Numbered
  <2>3. Fresh(queue', inflight', cleared', serverRev', disturbed') /\ Agreed'
    BY <1>5, <2>1, <2>2
  <2>4. Late(queue', inflight', cleared', content', next')
    <3>1. /\ content'[o].id = r.id
          /\ \A x \in Objects \ {o} : content'[x] = content[x]
      BY <1>2, <2>1, <2>2 DEF OtherTypes
    <3>2. \A i \in queue \cup inflight :
            cleared <= r.id /\ (Creates(i) \/ Updates(i)) /\ o \in i.objs /\ cleared <= i.id
              => r.id <= i.id
      BY <2>2, NoneBehind
    <3> QED
      BY <1>1, <1>2, <2>2, <3>1, <3>2 DEF Late
  <2> QED
    BY <1>3, <2>3, <2>4, OrderAfter
<1> QED
  BY <1>4, <1>6, <1>7 DEF StopDequeueing, vars, server

-----------------------------------------------------------------------------
(* Answers, up to their call of dequeue(). *)

\* The item i is what is left of j when nothing waits for d any more.
Remains(i, j) == i.id = j.id /\ i.kind = j.kind /\ i.name = j.name /\ i.objs \subseteq j.objs

\* Items, requests and awaited answers only go, and what d stands for has gone.
Shrinks(q2, w2, fl2, rp2, d) ==
  /\ \A i \in q2 : \E j \in queue : Remains(i, j) /\ j.deps \ {d} \subseteq i.deps
  /\ \A i \in fl2 : \E j \in inflight : Remains(i, j)
  /\ \A i \in q2 \cup fl2 : i.id = d[1] => d[2] \notin i.objs
  /\ \A i \in fl2 : \A n \in Names : n[2] \in i.objs /\ i.id \in waiting[n] => i.id \in w2[n]
  /\ \A id : <<id, "unresolved">> \in rp2 => <<id, "unresolved">> \in reports

\* The objects in O come to be known by both ids.
LEMMA ShrinkLanes ==
  ASSUME JInv, NEW q2, NEW w2, NEW fl2, NEW rp2, NEW d, Shrinks(q2, w2, fl2, rp2, d), NEW O,
         \A i \in q2 \cup fl2 : \A o \in i.objs \cap O : cleared <= i.id /\ Creates(i) => o \in twice
  PROVE  /\ Lanes(q2, w2, fl2, rp2, cleared, known \cup O, synced \cup O, twice, made)
         /\ Late(q2, fl2, cleared, content, next)
<1>1. /\ Named(queue, inflight, known, synced, cleared) /\ Listed(waiting, inflight, cleared)
      /\ Ordered(queue, inflight, cleared) /\ Sole(queue, inflight, cleared, synced, twice, made)
      /\ Referring(queue, inflight, reports) /\ Late(queue, inflight, cleared, content, next)
  BY DEF JInv, Lanes
<1>2. /\ Numbered(queue, inflight, cleared, next)
      /\ \A i \in queue \cup inflight : i.objs \subseteq Objects
  BY InvariantParts DEF JInv, Core, Typed, Items
<1>3. /\ \A i \in q2 : \E j \in queue : Remains(i, j) /\ j.deps \ {d} \subseteq i.deps
      /\ \A i \in fl2 : \E j \in inflight : Remains(i, j)
      /\ \A i \in q2 \cup fl2 : i.id = d[1] => d[2] \notin i.objs
      /\ \A i \in fl2 : \A n \in Names : n[2] \in i.objs /\ i.id \in waiting[n] => i.id \in w2[n]
      /\ \A id : <<id, "unresolved">> \in rp2 => <<id, "unresolved">> \in reports
  BY DEF Shrinks
<1>4. \A i \in q2 \cup fl2 : \E j \in queue \cup inflight : Remains(i, j)
  BY <1>3
<1>5. \A i, j : Remains(i, j) => /\ Creates(i) <=> Creates(j)
                                 /\ Updates(i) <=> Updates(j)
  BY DEF Remains, Creates, Updates
<1>6. Named(q2, fl2, known \cup O, synced \cup O, cleared)
  BY <1>1, <1>3, <1>4, <1>5 DEF Named, Remains
<1>7. Listed(w2, fl2, cleared)
  <2> SUFFICES ASSUME NEW i \in fl2, NEW o \in i.objs, cleared <= i.id
               PROVE  /\ Updates(i) => i.id \in w2[<<"server", o>>]
                      /\ Creates(i) => i.id \in w2[<<"client", o>>]
    BY DEF Listed
  <2>1. PICK j \in inflight : Remains(i, j)
    BY <1>3
  <2>2. o \in j.objs /\ o \in Objects /\ cleared <= j.id
    BY <1>2, <2>1 DEF Remains
  <2>3. <<"server", o>> \in Names /\ <<"client", o>> \in Names
    BY <2>2 DEF Names
  <2>4. /\ Updates(i) => i.id \in waiting[<<"server", o>>]
        /\ Creates(i) => i.id \in waiting[<<"client", o>>]
    BY <1>1, <1>5, <2>1, <2>2 DEF Listed, Remains
  <2> QED
    BY <1>3, <2>3, <2>4
<1>8. Ordered(q2, fl2, cleared)
  <2> SUFFICES ASSUME NEW i \in q2 \cup fl2, NEW j \in q2 \cup fl2, NEW o \in i.objs \cap j.objs,
                      cleared <= i.id, i.id < j.id, Creates(i) \/ Updates(i), Updates(j)
               PROVE  j \in q2 /\ <<i.id, o>> \in j.deps
    BY DEF Ordered
  <2>1. PICK i1 \in queue \cup inflight : Remains(i, i1)
    BY <1>4
  <2>2. ASSUME NEW j1 \in queue \cup inflight, Remains(j, j1)
        PROVE  j1 \in queue /\ <<i.id, o>> \in j1.deps
    BY <1>1, <1>5, <2>1, <2>2 DEF Ordered, Remains
  <2>3. j \in q2
    BY <1>2, <1>3, <2>2 DEF Numbered, Remains
  <2>4. PICK j1 \in queue : Remains(j, j1) /\ j1.deps \ {d} \subseteq j.deps
    BY <1>3, <2>3
  <2>5. <<i.id, o>> # d
    BY <1>3
  <2> QED
    BY <2>2, <2>3, <2>4, <2>5
<1>9. Sole(q2, fl2, cleared, synced \cup O, twice, made)
  <2> SUFFICES ASSUME NEW i \in q2 \cup fl2, NEW o \in i.objs \ twice, cleared <= i.id, Creates(i)
               PROVE  /\ made[o] = i.id
                      /\ o \notin synced \cup O
                      /\ \A j \in fl2 : Creates(j) /\ o \in j.objs => cleared <= j.id
    BY DEF Sole
  <2>1. PICK i1 \in queue \cup inflight : Remains(i, i1)
    BY <1>4
  <2>2. /\ made[o] = i.id /\ o \notin synced
        /\ \A j \in inflight : Creates(j) /\ o \in j.objs => cleared <= j.id
    BY <1>1, <1>5, <2>1 DEF Sole, Remains
  <2>3. \A j \in fl2 : Creates(j) /\ o \in j.objs => cleared <= j.id
    BY <1>3, <1>5, <2>2 DEF Remains
  <2> QED
    BY <2>2, <2>3
<1>10. Referring(q2, fl2, rp2)
  BY <1>1, <1>3, <1>4, <1>5 DEF Referring, Remains
<1>11. Late(q2, fl2, cleared, content, next)
  BY <1>1, <1>4, <1>5 DEF Late, Remains
<1> QED
  BY <1>6, <1>7, <1>8, <1>9, <1>10, <1>11 DEF Lanes

\* What stays in flight when o's part of r is answered.
Leaves(fl2, r, o) ==
  \A i \in fl2 : \/ i \in inflight /\ i # r
                 \/ Remains(i, r) /\ o \notin i.objs

\* The queue without the dependencies on r's part for o.
Unlocks(q2, r, o) ==
  \A i \in q2 : \E j \in queue : Same(i, j) /\ i.name = j.name /\ j.deps \ {<<r.id, o>>} \subseteq i.deps

LEMMA AnswerShrinks ==
  ASSUME IInv, NEW r \in inflight, NEW o \in r.objs, NEW q2, NEW fl2, NEW rp2,
         Unlocks(q2, r, o), Leaves(fl2, r, o),
         \A id : <<id, "unresolved">> \in rp2 => <<id, "unresolved">> \in reports
  PROVE  Shrinks(q2, Answered(r, o), fl2, rp2, <<r.id, o>>)
<1>1. Numbered(queue, inflight, cleared, next) /\ waiting \in [Names -> SUBSET Ids]
  BY InvariantParts DEF Core, Typed
<1>2. \A i \in q2 : \E j \in queue : Remains(i, j) /\ j.deps \ {<<r.id, o>>} \subseteq i.deps
  BY DEF Unlocks, Same, Remains
<1>3. \A i \in fl2 : (i \in inflight /\ i.id # r.id) \/ (Remains(i, r) /\ o \notin i.objs)
  BY <1>1 DEF Leaves, Numbered
<1>4. \A i \in fl2 : \E j \in inflight : Remains(i, j)
  BY <1>3 DEF Remains
<1>5. \A i \in q2 \cup fl2 : i.id = r.id => o \notin i.objs
  BY <1>1, <1>2, <1>3 DEF Remains, Numbered
<1>6. ASSUME NEW i \in fl2, NEW n \in Names, n[2] \in i.objs, i.id \in waiting[n]
      PROVE  i.id \in Answered(r, o)[n]
  <2>1. CASE i.id # r.id
    BY <1>1, <1>6, <2>1 DEF Answered
  <2>2. CASE n[2] # o
    BY <1>1, <1>6, <2>2 DEF Answered
  <2> QED
    BY <1>3, <1>6, <2>1, <2>2
<1> QED
  BY <1>2, <1>4, <1>5, <1>6 DEF Shrinks

LEMMA AnswerOrders ==
  ASSUME JInv, IInv', NEW kn, NEW q2, NEW w2, NEW fl2, NEW rp2,
         Core(q2, w2, fl2, rp2, cleared, next), Dequeue(dequeueing, kn, q2, w2, fl2, rp2),
         Lanes(q2, w2, fl2, rp2, cleared, kn, synced', twice, made),
         Fresh(q2, fl2, cleared, serverRev', disturbed'),
         Late(q2, fl2, cleared, content', next),
         Agreed', UNCHANGED <<made, twice, next, cleared>>
  PROVE  JInv'
<1>1. cleared \in Nat /\ next \in Nat
  BY InvariantParts DEF JInv
<1>2. /\ Lanes(queue', waiting', inflight', reports', cleared, kn, synced', twice, made)
      /\ Fresh(queue', inflight', cleared, serverRev', disturbed')
      /\ Late(queue', inflight', cleared, content', next)
  BY <1>1, DequeueLanes
<1>3. known' = kn
  BY DEF Dequeue
<1> QED
  BY <1>2, <1>3, OrderAfter

-----------------------------------------------------------------------------
(* What the server writes. *)

LEMMA Written ==
  ASSUME JInv, NEW r \in inflight, NEW o \in r.objs, Succeeded(r, o)
  PROVE  /\ o \in Objects
         /\ serverRev[o] \in Nat /\ serverRev'[o] = serverRev[o] + 1 /\ cloudRev'[o] = serverRev'[o]
         /\ content'[o].id = r.id /\ content'[o].kind = r.kind
         /\ \A x \in Objects \ {o} : /\ serverRev'[x] = serverRev[x] /\ cloudRev'[x] = cloudRev[x]
                                     /\ content'[x] = content[x]
         /\ disturbed \subseteq disturbed'
         /\ o \notin disturbed' => cleared <= r.id /\ (r.kind # "update" => serverRev[o] = 0)
<1>1. /\ serverRev' = [serverRev EXCEPT ![o] = @ + 1]
      /\ content' = [content EXCEPT ![o] = [id |-> r.id, kind |-> r.kind]]
      /\ disturbed' = disturbed \cup
           (IF r.id < cleared \/ (r.kind # "update" /\ serverRev[o] > 0) THEN {o} ELSE {})
      /\ cloudRev' = [cloudRev EXCEPT ![o] = serverRev'[o]]
  BY DEF Succeeded, ServerWrites
<1>2. /\ o \in Objects /\ r.id \in Nat /\ cleared \in Nat
      /\ serverRev \in [Objects -> Nat] /\ cloudRev \in [Objects -> Nat]
      /\ content \in [Objects -> [id : 0..MaxItems, kind : Kinds]]
  BY InFlight, InvariantParts, ConstantsAssumption DEF JInv, OtherTypes, Ids
<1>3. serverRev[o] \in Nat /\ serverRev'[o] = serverRev[o] + 1 /\ cloudRev'[o] = serverRev'[o]
  BY <1>1, <1>2
<1>4. content'[o].id = r.id /\ content'[o].kind = r.kind
  BY <1>1, <1>2
<1>5. \A x \in Objects \ {o} : /\ serverRev'[x] = serverRev[x] /\ cloudRev'[x] = cloudRev[x]
                               /\ content'[x] = content[x]
  BY <1>1, <1>2
<1>6. o \notin disturbed' => cleared <= r.id /\ (r.kind # "update" => serverRev[o] = 0)
  BY <1>1, <1>2, <1>3
<1> QED
  BY <1>1, <1>2, <1>3, <1>4, <1>5, <1>6

\* The queued updates of the object get the revision that the server gave it;
\* no other update of it is in flight.
LEMMA WrittenFresh ==
  ASSUME JInv, NEW r \in inflight, NEW o \in r.objs, Creates(r) \/ Updates(r), Succeeded(r, o),
         NEW q2, NEW fl2, NEW kn, NEW sy, Named(q2, fl2, kn, sy, cleared),
         Creates(r) => o \in sy, synced \subseteq sy,
         \A i \in q2 : \E j \in queue :
           Same(i, j) /\ i.name = j.name /\ i.rev = Refreshed(j, o, serverRev'[o], kn),
         \A i \in fl2 : (i \in inflight /\ i # r) \/ i.kind = "bulk"
  PROVE  Fresh(q2, fl2, cleared, serverRev', disturbed')
<1>1. /\ o \in Objects
      /\ \A x \in Objects \ {o} : serverRev'[x] = serverRev[x]
      /\ disturbed \subseteq disturbed'
      /\ o \notin disturbed' => cleared <= r.id /\ (r.kind # "update" => serverRev[o] = 0)
  BY Written
<1>2. /\ Fresh(queue, inflight, cleared, serverRev, disturbed)
      /\ Named(queue, inflight, known, synced, cleared) /\ Agreed
      /\ Numbered(queue, inflight, cleared, next)
  BY InvariantParts DEF JInv, Lanes, Core
<1>3. \A i \in queue \cup inflight : WellMade(i) /\ i.id \in Nat
  BY QueueWellMade, ConstantsAssumption DEF JInv, WellMade, Items, Ids
<1> SUFFICES ASSUME NEW i \in q2 \cup fl2, NEW x \in i.objs \ disturbed', cleared <= i.id, Updates(i)
             PROVE  i.rev \in {0, serverRev'[x]}
  BY DEF Fresh
<1>4. CASE i \in q2
  <2>1. PICK j \in queue : Same(i, j) /\ i.name = j.name /\ i.rev = Refreshed(j, o, serverRev'[o], kn)
    BY <1>4
  <2>2. /\ WellMade(j) /\ j.objs = {x} /\ x \in Objects /\ j.kind = "update" /\ cleared <= j.id
        /\ j.name \in {"client", "server"}
    BY <1>3, <2>1 DEF Same, WellMade, Updates, Items
  <2>3. CASE x # o
    <3>1. i.rev = j.rev
      BY <2>1, <2>2, <2>3 DEF Refreshed
    <3> QED
      BY <1>1, <1>2, <2>2, <2>3, <3>1 DEF Fresh, Updates
  <2>4. CASE x = o /\ o \in Folders
    <3>1. i.rev = j.rev /\ j.rev = 0
      BY <2>1, <2>2, <2>4 DEF Refreshed, WellMade
    <3> QED
      BY <3>1
  <2>5. CASE x = o /\ o \notin Folders
    <3>1. o \in sy
      BY <1>1, <1>2, <2>5 DEF Named
    <3>2. i.name = "server" \/ o \in kn
      BY <1>4, <2>1, <2>2, <2>5, <3>1 DEF Named
    <3>3. Sendable(j, kn)
      BY <2>1, <2>2, <2>5, <3>2 DEF Sendable
    <3> QED
      BY <2>1, <2>2, <2>5, <3>3 DEF Refreshed
  <2> QED
    BY <2>3, <2>4, <2>5
<1>5. CASE i \in fl2
  <2>1. i \in inflight /\ i # r /\ x \in Objects
    BY <1>3, <1>5 DEF Updates, WellMade, Items
  <2>2. CASE x # o
    BY <1>1, <1>2, <2>1, <2>2 DEF Fresh
  <2>3. CASE x = o /\ Updates(r)
    <3>1. r.id <= i.id /\ i.id <= r.id
      BY <1>1, <2>1, <2>3, NoneBehind
    <3> QED
      BY <1>2, <1>3, <2>1, <3>1 DEF Numbered
  <2>4. CASE x = o /\ Creates(r)
    <3>1. o \in synced
      BY <1>2, <2>1, <2>4 DEF Named
    <3>2. serverRev[o] > 0 /\ serverRev[o] = 0
      BY <1>1, <1>2, <2>4, <3>1 DEF Agreed, Creates
    <3> QED
      BY <3>2
  <2> QED
    BY <2>2, <2>3, <2>4
<1> QED
  BY <1>4, <1>5

LEMMA WrittenLate ==
  ASSUME JInv, NEW r \in inflight, NEW o \in r.objs, Succeeded(r, o),
         NEW q2, NEW w2, NEW fl2, NEW rp2, NEW d, Shrinks(q2, w2, fl2, rp2, d),
         Late(q2, fl2, cleared, content, next)
  PROVE  Late(q2, fl2, cleared, content', next)
<1>1. /\ content'[o].id = r.id /\ content'[o].kind = r.kind
      /\ \A x \in Objects \ {o} : content'[x] = content[x]
  BY Written
<1>2. r.id < next
  BY InvariantParts DEF JInv, Core, Numbered
<1>3. ASSUME NEW i \in q2 \cup fl2, Creates(i) \/ Updates(i), o \in i.objs, cleared <= i.id,
             Updates(r), cleared <= r.id
      PROVE  r.id <= i.id
  <2>1. PICK j \in queue \cup inflight : Remains(i, j)
    BY DEF Shrinks
  <2>2. (Creates(j) \/ Updates(j)) /\ o \in j.objs /\ cleared <= j.id /\ j.id = i.id
    BY <1>3, <2>1 DEF Remains, Creates, Updates
  <2> QED
    BY <1>3, <2>2, NoneBehind
<1> QED
  BY <1>1, <1>2, <1>3 DEF Late, Updates

LEMMA WrittenAgreed ==
  ASSUME JInv, NEW r \in inflight, NEW o \in r.objs, Succeeded(r, o), synced' \subseteq synced \cup {o}
  PROVE  Agreed'
<1>1. /\ serverRev[o] \in Nat /\ serverRev'[o] = serverRev[o] + 1 /\ cloudRev'[o] = serverRev'[o]
      /\ \A x \in Objects \ {o} : serverRev'[x] = serverRev[x] /\ cloudRev'[x] = cloudRev[x]
      /\ disturbed \subseteq disturbed'
  BY Written
<1>2. Agreed /\ synced \subseteq Objects
  BY InvariantParts DEF JInv, OtherTypes
<1> QED
  BY <1>1, <1>2 DEF Agreed

\* The queue with the object's revision, in the updates that name it.
Revises(q2, o, rev, kn) ==
  \A i \in q2 : \E j \in queue : Same(i, j) /\ i.name = j.name /\ i.rev = Refreshed(j, o, rev, kn)

\* What the handlers of successes hand to dequeue().
Handled(q2, fl2, rp2, kn, r, o) ==
  /\ Unlocks(q2, r, o) /\ Leaves(fl2, r, o)
  /\ Revises(q2, o, serverRev'[o], kn)
  /\ \A i \in fl2 : (i \in inflight /\ i # r) \/ i.kind = "bulk"
  /\ \A id : <<id, "unresolved">> \in rp2 => <<id, "unresolved">> \in reports

\* A success, of one object of a creation or of an update.
LEMMA SuccessOrders ==
  ASSUME JInv, IInv', NEW r \in inflight, NEW o \in r.objs, Creates(r) \/ Updates(r), Succeeded(r, o),
         NEW O, O = (IF Updates(r) THEN {} ELSE {o}), synced' = synced \cup O,
         UNCHANGED <<made, twice, next, cleared>>,
         NEW q2, NEW fl2, NEW rp2, Core(q2, Answered(r, o), fl2, rp2, cleared, next),
         Dequeue(dequeueing, known \cup O, q2, Answered(r, o), fl2, rp2),
         Handled(q2, fl2, rp2, known \cup O, r, o)
  PROVE  JInv'
<1>1. Shrinks(q2, Answered(r, o), fl2, rp2, <<r.id, o>>)
  BY AnswerShrinks DEF JInv, Handled
<1>2. ASSUME NEW i \in q2 \cup fl2, NEW x \in i.objs \cap O, cleared <= i.id, Creates(i), x \notin twice
      PROVE  FALSE
  <2>1. x = o /\ Creates(r)
    BY <1>2
  <2>2. i.id # r.id
    BY <1>1, <1>2, <2>1 DEF Shrinks
  <2>3. PICK j \in queue \cup inflight : Remains(i, j)
    BY <1>1 DEF Shrinks
  <2>4. Creates(j) /\ o \in j.objs /\ j.id = i.id
    BY <1>2, <2>1, <2>3 DEF Remains, Creates
  <2>5. Sole(queue, inflight, cleared, synced, twice, made)
    BY DEF JInv, Lanes
  <2>6. made[o] = i.id /\ cleared <= r.id
    BY <1>2, <2>1, <2>4, <2>5 DEF Sole
  <2>7. made[o] = r.id
    BY <1>2, <2>1, <2>5, <2>6 DEF Sole
  <2> QED
    BY <2>2, <2>6, <2>7
<1>3. /\ Lanes(q2, Answered(r, o), fl2, rp2, cleared, known \cup O, synced \cup O, twice, made)
      /\ Late(q2, fl2, cleared, content, next)
  BY <1>1, <1>2, ShrinkLanes
<1>4. Named(q2, fl2, known \cup O, synced \cup O, cleared)
  BY <1>3 DEF Lanes
<1>5. Creates(r) => o \in synced \cup O
  BY DEF Creates, Updates
<1>6. Fresh(q2, fl2, cleared, serverRev', disturbed')
  <2> DEFINE kn == known \cup O
             sy == synced \cup O
  <2>1. /\ Named(q2, fl2, kn, sy, cleared) /\ (Creates(r) => o \in sy) /\ synced \subseteq sy
        /\ \A i \in q2 : \E j \in queue :
             Same(i, j) /\ i.name = j.name /\ i.rev = Refreshed(j, o, serverRev'[o], kn)
    BY <1>4, <1>5 DEF Handled, Revises
  <2>2. \A i \in fl2 : (i \in inflight /\ i # r) \/ i.kind = "bulk"
    BY DEF Handled
  <2> HIDE DEF kn, sy
  <2> QED
    BY <2>1, <2>2, WrittenFresh
<1>7. Late(q2, fl2, cleared, content', next)
  BY <1>1, <1>3, WrittenLate
<1>8. Agreed'
  BY WrittenAgreed
<1> QED
  BY <1>3, <1>6, <1>7, <1>8, AnswerOrders

-----------------------------------------------------------------------------
(* The steps of the answers. *)

LEMMA FreedUnlocks ==
  ASSUME IInv, NEW r, NEW o
  PROVE  /\ Unlocks(Freed(queue, <<r.id, o>>), r, o)
         /\ \A i \in Freed(queue, <<r.id, o>>) : \E j \in queue :
              Same(i, j) /\ i.name = j.name /\ i.rev = j.rev
<1> DEFINE g(i) == [i EXCEPT !.deps = @ \ {<<r.id, o>>}]
<1>1. ASSUME NEW i \in queue
      PROVE  /\ Same(g(i), i) /\ g(i).name = i.name /\ g(i).rev = i.rev
             /\ g(i).deps = i.deps \ {<<r.id, o>>}
  BY QueueWellMade DEF WellMade, Items, Same
<1>2. Freed(queue, <<r.id, o>>) = {g(i) : i \in queue}
  BY DEF Freed
<1> HIDE DEF g
<1> QED
  BY <1>1, <1>2 DEF Unlocks

LEMMA CreatedUnlocks ==
  ASSUME IInv, NEW r, NEW o, NEW rev
  PROVE  /\ Unlocks(Created(r, o, rev), r, o)
         /\ Revises(Created(r, o, rev), o, rev, known \cup {o})
<1> DEFINE d == <<r.id, o>>
           refs(i) == IF r.kind = "create" /\ d \in i.deps THEN i.refs \ {o} ELSE i.refs
           v(i) == Refreshed(i, o, rev, known \cup {o})
           g(i) == [i EXCEPT !.deps = @ \ {d}, !.rev = v(i), !.refs = refs(i)]
<1>1. ASSUME NEW i \in queue
      PROVE  /\ Same(g(i), i) /\ g(i).name = i.name /\ g(i).rev = v(i)
             /\ g(i).deps = i.deps \ {d}
  <2> HIDE DEF v, refs
  <2> QED
    BY QueueWellMade DEF WellMade, Items, Same
<1>2. Created(r, o, rev) = {g(i) : i \in queue}
  BY DEF Created
<1> HIDE DEF g, v, d
<1>3. \A i \in Created(r, o, rev) : \E j \in queue :
        Same(i, j) /\ i.name = j.name /\ i.rev = v(j) /\ j.deps \ {d} \subseteq i.deps
  BY <1>1, <1>2
<1> QED
  BY <1>3 DEF Unlocks, Revises, v, d

LEMMA UpdatedUnlocks ==
  ASSUME IInv, NEW r, NEW o, NEW rev,
         NEW q2, q2 = {[i EXCEPT !.rev = Refreshed(i, o, rev, known)] : i \in Freed(queue, <<r.id, o>>)}
  PROVE  /\ Unlocks(q2, r, o)
         /\ Revises(q2, o, rev, known)
<1> DEFINE d == <<r.id, o>>
           f(i) == [i EXCEPT !.deps = @ \ {d}]
           h(i) == [i EXCEPT !.rev = Refreshed(i, o, rev, known)]
<1>1. ASSUME NEW i \in queue
      PROVE  /\ Same(h(f(i)), i) /\ h(f(i)).name = i.name
             /\ h(f(i)).rev = Refreshed(i, o, rev, known)
             /\ h(f(i)).deps = i.deps \ {d}
  <2>1. i \in Items
    BY QueueWellMade DEF WellMade
  <2>2. f(i) \in [id : Ids, kind : Kinds, objs : SUBSET Objects, name : {"client", "server"},
                  refs : SUBSET Enums, folder : Folders \cup {NoFolder}, rev : Nat,
                  deps : SUBSET Dependencies]
    BY <2>1 DEF Items
  <2>3. /\ f(i).id = i.id /\ f(i).kind = i.kind /\ f(i).objs = i.objs /\ f(i).name = i.name
        /\ f(i).folder = i.folder /\ f(i).rev = i.rev /\ f(i).deps = i.deps \ {d}
    BY <2>1 DEF Items
  <2> HIDE DEF f
  <2>4. Refreshed(f(i), o, rev, known) = Refreshed(i, o, rev, known)
    BY <2>3 DEF Refreshed, Sendable
  <2>5. /\ h(f(i)).id = f(i).id /\ h(f(i)).kind = f(i).kind /\ h(f(i)).objs = f(i).objs
        /\ h(f(i)).name = f(i).name /\ h(f(i)).deps = f(i).deps
        /\ h(f(i)).rev = Refreshed(f(i), o, rev, known)
    BY <2>2
  <2> HIDE DEF h
  <2> QED
    BY <2>3, <2>4, <2>5 DEF Same
<1>2. q2 = {h(f(i)) : i \in queue}
  BY DEF Freed
<1> HIDE DEF f, h
<1> QED
  BY <1>1, <1>2 DEF Unlocks, Revises

LEMMA CreationSucceedsOrders ==
  ASSUME JInv, IInv', NEW r \in inflight, CreationSucceeds(r)
  PROVE  JInv'
<1>1. PICK o \in r.objs :
        /\ Succeeded(r, o)
        /\ synced' = synced \cup {o}
        /\ Dequeue(dequeueing, known \cup {o}, Created(r, o, serverRev'[o]), Answered(r, o),
                   inflight \ {r}, reports \cup {<<r.id, "ok">>})
  BY DEF CreationSucceeds
<1>2. IInv /\ r.kind = "create" /\ UNCHANGED <<made, twice, next, cleared>>
  BY DEF CreationSucceeds, JInv
<1>3. serverRev'[o] \in Nat
  BY <1>1, <1>2, SuccessTypes
<1> DEFINE rev == serverRev'[o]
           q2 == Created(r, o, rev)
           fl2 == inflight \ {r}
           rp2 == reports \cup {<<r.id, "ok">>}
           O == {o}
<1>4. Trims(q2, <<r.id, o>>)
  BY <1>2, <1>3, CreatedTrims
<1> HIDE DEF rev
<1>5. /\ Unlocks(q2, r, o)
      /\ Revises(q2, o, rev, known \cup {o})
  BY <1>2, CreatedUnlocks
<1> HIDE DEF q2
<1>6. Core(q2, Answered(r, o), fl2, rp2, cleared, next)
  BY <1>2, <1>4, RequestAnswered DEF Settled, Outcomes
<1>7. /\ Leaves(fl2, r, o) /\ \A i \in fl2 : (i \in inflight /\ i # r) \/ i.kind = "bulk"
      /\ \A id : <<id, "unresolved">> \in rp2 => <<id, "unresolved">> \in reports
  BY DEF Leaves
<1>8. /\ Creates(r) /\ O = (IF Updates(r) THEN {} ELSE {o}) /\ synced' = synced \cup O
      /\ Dequeue(dequeueing, known \cup O, q2, Answered(r, o), fl2, rp2)
  BY <1>1, <1>2 DEF Creates, Updates, q2, rev
<1>9. Handled(q2, fl2, rp2, known \cup O, r, o)
  BY <1>5, <1>7 DEF Handled, rev
<1> HIDE DEF fl2, rp2, O
<1> QED
  BY <1>1, <1>2, <1>6, <1>8, <1>9, SuccessOrders

LEMMA BulkCreationSucceedsOrders ==
  ASSUME JInv, IInv', NEW r \in inflight, BulkCreationSucceeds(r)
  PROVE  JInv'
<1>1. PICK o \in r.objs :
        LET left == r.objs \ {o}
        IN /\ Succeeded(r, o)
           /\ synced' = synced \cup {o}
           /\ Dequeue(dequeueing, known \cup {o}, Created(r, o, serverRev'[o]), Answered(r, o),
                      (inflight \ {r}) \cup (IF left = {} THEN {} ELSE {[r EXCEPT !.objs = left]}),
                      reports \cup (IF left = {} THEN {<<r.id, "ok">>} ELSE {}))
  BY DEF BulkCreationSucceeds
<1>2. IInv /\ r.kind = "bulk" /\ UNCHANGED <<made, twice, next, cleared>>
  BY DEF BulkCreationSucceeds, JInv
<1>3. serverRev'[o] \in Nat
  BY <1>1, <1>2, SuccessTypes
<1> DEFINE rev == serverRev'[o]
           left == r.objs \ {o}
           q2 == Created(r, o, rev)
           fl2 == (inflight \ {r}) \cup (IF left = {} THEN {} ELSE {[r EXCEPT !.objs = left]})
           rp2 == reports \cup (IF left = {} THEN {<<r.id, "ok">>} ELSE {})
           O == {o}
<1>4. Trims(q2, <<r.id, o>>)
  BY <1>2, <1>3, CreatedTrims
<1> HIDE DEF rev
<1>5. /\ Unlocks(q2, r, o)
      /\ Revises(q2, o, rev, known \cup {o})
  BY <1>2, CreatedUnlocks
<1> HIDE DEF q2
<1>6. Core(q2, Answered(r, o), fl2, rp2, cleared, next)
  BY <1>2, <1>4, ObjectAnswered DEF Settled, Outcomes
<1>7. /\ Leaves(fl2, r, o) /\ \A i \in fl2 : (i \in inflight /\ i # r) \/ i.kind = "bulk"
      /\ \A id : <<id, "unresolved">> \in rp2 => <<id, "unresolved">> \in reports
  <2> DEFINE s == [r EXCEPT !.objs = left]
  <2>1. r \in Items
    BY <1>2, QueueWellMade DEF WellMade
  <2>2. Remains(s, r) /\ o \notin s.objs /\ s.kind = "bulk"
    BY <1>2, <2>1 DEF Remains, Items
  <2>3. \A i \in fl2 : (i \in inflight /\ i # r) \/ i = s
    OBVIOUS
  <2> HIDE DEF s, fl2
  <2> QED
    BY <2>2, <2>3 DEF Leaves
<1>8. /\ Creates(r) /\ O = (IF Updates(r) THEN {} ELSE {o}) /\ synced' = synced \cup O
      /\ Dequeue(dequeueing, known \cup O, q2, Answered(r, o), fl2, rp2)
  BY <1>1, <1>2 DEF Creates, Updates, q2, rev
<1>10. Handled(q2, fl2, rp2, known \cup O, r, o)
  BY <1>5, <1>7 DEF Handled, rev
<1>9. Succeeded(r, o)
  BY <1>1
<1> HIDE DEF fl2, rp2, O, left
<1> QED
  BY <1>2, <1>6, <1>8, <1>9, <1>10, SuccessOrders

LEMMA UpdateSucceedsOrders ==
  ASSUME JInv, IInv', NEW r \in inflight, UpdateSucceeds(r)
  PROVE  JInv'
<1> DEFINE q(o, rev) == {[i EXCEPT !.rev = Refreshed(i, o, rev, known)] :
                           i \in Freed(queue, <<r.id, o>>)}
<1>1. PICK o \in r.objs :
        /\ Succeeded(r, o)
        /\ Dequeue(dequeueing, known, q(o, serverRev'[o]), Answered(r, o), inflight \ {r},
                   reports \cup {<<r.id, "ok">>})
  BY DEF UpdateSucceeds
<1>2. IInv /\ r.kind = "update" /\ UNCHANGED <<synced, made, twice, next, cleared>>
  BY DEF UpdateSucceeds, JInv
<1>3. serverRev'[o] \in Nat
  BY <1>1, <1>2, SuccessTypes
<1> DEFINE rev == serverRev'[o]
           q2 == q(o, rev)
           fl2 == inflight \ {r}
           rp2 == reports \cup {<<r.id, "ok">>}
           O == {}
<1>4. Trims(q2, <<r.id, o>>)
  BY <1>2, <1>3, UpdatedTrims
<1>5. known \cup O = known /\ synced \cup O = synced
  OBVIOUS
<1> HIDE DEF O, rev
<1>6. /\ Unlocks(q2, r, o)
      /\ Revises(q2, o, rev, known)
  BY <1>2, UpdatedUnlocks
<1>7. Dequeue(dequeueing, known, q2, Answered(r, o), fl2, rp2)
  BY <1>1 DEF rev
<1> HIDE DEF q, q2
<1>8. Core(q2, Answered(r, o), fl2, rp2, cleared, next)
  BY <1>2, <1>4, RequestAnswered DEF Settled, Outcomes
<1>9. /\ Leaves(fl2, r, o) /\ \A i \in fl2 : (i \in inflight /\ i # r) \/ i.kind = "bulk"
      /\ \A id : <<id, "unresolved">> \in rp2 => <<id, "unresolved">> \in reports
  BY DEF Leaves
<1> HIDE DEF fl2, rp2
<1>10. /\ Updates(r) /\ O = (IF Updates(r) THEN {} ELSE {o}) /\ synced' = synced \cup O
       /\ Dequeue(dequeueing, known \cup O, q2, Answered(r, o), fl2, rp2)
  BY <1>2, <1>5, <1>7 DEF Updates, O
<1>11. Handled(q2, fl2, rp2, known, r, o)
  BY <1>6, <1>9 DEF Handled, rev
<1>12. Handled(q2, fl2, rp2, known \cup O, r, o)
  BY <1>5, <1>11
<1> QED
  BY <1>1, <1>2, <1>8, <1>10, <1>12, SuccessOrders

\* An answer after which the server has what it had.
LEMMA RefusalOrders ==
  ASSUME JInv, IInv', NEW q2, NEW w2, NEW fl2, NEW rp2, NEW d, Shrinks(q2, w2, fl2, rp2, d),
         Core(q2, w2, fl2, rp2, cleared, next), fl2 \subseteq inflight,
         \A i \in q2 : \E j \in queue : Same(i, j) /\ i.rev = j.rev,
         \/ Dequeue(dequeueing, known, q2, w2, fl2, rp2)
         \/ /\ queue' = q2 /\ waiting' = w2 /\ inflight' = fl2 /\ reports' = rp2
            /\ UNCHANGED known,
         Agreed', UNCHANGED <<synced, made, twice, serverRev, content, disturbed, next, cleared>>
  PROVE  JInv'
<1> DEFINE O == {}
<1>1. \A i \in q2 \cup fl2 : \A o \in i.objs \cap O : cleared <= i.id /\ Creates(i) => o \in twice
  OBVIOUS
<1>2. known \cup O = known /\ synced \cup O = synced
  OBVIOUS
<1> HIDE DEF O
<1>3. /\ Lanes(q2, w2, fl2, rp2, cleared, known \cup O, synced \cup O, twice, made)
      /\ Late(q2, fl2, cleared, content, next)
  BY <1>1, ShrinkLanes
<1>4. Lanes(q2, w2, fl2, rp2, cleared, known, synced, twice, made)
  BY <1>2, <1>3
<1>5. Fresh(q2, fl2, cleared, serverRev, disturbed)
  BY DEF JInv, Fresh, Same, Updates
<1>6. CASE Dequeue(dequeueing, known, q2, w2, fl2, rp2)
  BY <1>3, <1>4, <1>5, <1>6, AnswerOrders
<1>7. CASE /\ queue' = q2 /\ waiting' = w2 /\ inflight' = fl2 /\ reports' = rp2
           /\ UNCHANGED known
  BY <1>3, <1>4, <1>5, <1>7, OrderAfter
<1> QED
  BY <1>6, <1>7

\* A creation is denied, or an update is rejected.
LEMMA FreedOrders ==
  ASSUME JInv, IInv', NEW r \in inflight, r.kind \in {"create", "update"}, NEW o \in r.objs,
         NEW x \in Settled,
         Dequeue(dequeueing, known, Freed(queue, <<r.id, o>>), Answered(r, o),
                 inflight \ {r}, reports \cup {<<r.id, x>>}),
         Agreed', UNCHANGED <<synced, made, twice, serverRev, content, disturbed, next, cleared>>
  PROVE  JInv'
<1> DEFINE q2 == Freed(queue, <<r.id, o>>)
           fl2 == inflight \ {r}
           rp2 == reports \cup {<<r.id, x>>}
<1>1. IInv
  BY DEF JInv
<1>2. Trims(q2, <<r.id, o>>)
  BY <1>1, FreedTrims
<1>3. /\ Unlocks(q2, r, o)
      /\ \A i \in q2 : \E j \in queue : Same(i, j) /\ i.rev = j.rev
  BY <1>1, FreedUnlocks
<1> HIDE DEF q2
<1>4. Core(q2, Answered(r, o), fl2, rp2, cleared, next)
  BY <1>1, <1>2, RequestAnswered
<1>5. /\ Leaves(fl2, r, o) /\ fl2 \subseteq inflight
      /\ \A id : <<id, "unresolved">> \in rp2 => <<id, "unresolved">> \in reports
  BY DEF Leaves, Settled
<1>6. Dequeue(dequeueing, known, q2, Answered(r, o), fl2, rp2)
  BY DEF q2
<1> HIDE DEF fl2, rp2
<1>7. Shrinks(q2, Answered(r, o), fl2, rp2, <<r.id, o>>)
  BY <1>1, <1>3, <1>5, AnswerShrinks
<1> QED
  BY <1>3, <1>4, <1>5, <1>6, <1>7, RefusalOrders

LEMMA RefusedOrders ==
  ASSUME JInv, IInv', NEW r \in inflight, CreationDenied(r) \/ UpdateRejected(r)
  PROVE  JInv'
<1>1. /\ Agreed /\ "denied" \in Settled /\ "rejected" \in Settled
      /\ UNCHANGED <<synced, made, twice, serverRev, content, disturbed, next, cleared>>
  BY DEF JInv, Settled, Outcomes, CreationDenied, UpdateRejected, server
<1>2. CASE CreationDenied(r)
  <2>1. PICK o \in r.objs :
          Dequeue(dequeueing, known, Freed(queue, <<r.id, o>>), Answered(r, o),
                  inflight \ {r}, reports \cup {<<r.id, "denied">>})
    BY <1>2 DEF CreationDenied
  <2>2. Agreed' /\ r.kind \in {"create", "update"}
    BY <1>1, <1>2 DEF Agreed, CreationDenied, server
  <2> QED
    BY <1>1, <2>1, <2>2, FreedOrders
<1>3. CASE UpdateRejected(r)
  <2>1. PICK o \in r.objs :
          /\ \E rev \in {cloudRev[o], serverRev[o]} : cloudRev' = [cloudRev EXCEPT ![o] = rev]
          /\ Dequeue(dequeueing, known, Freed(queue, <<r.id, o>>), Answered(r, o),
                     inflight \ {r}, reports \cup {<<r.id, "rejected">>})
    BY <1>3 DEF UpdateRejected
  <2>2. o \in Objects /\ cloudRev \in [Objects -> Nat] /\ r.kind \in {"create", "update"}
    BY <1>3, InFlight, InvariantParts DEF JInv, OtherTypes, UpdateRejected
  <2>3. /\ cloudRev'[o] \in {cloudRev[o], serverRev[o]}
        /\ \A x \in Objects \ {o} : cloudRev'[x] = cloudRev[x]
    BY <2>1, <2>2
  <2>4. Agreed'
    BY <1>1, <2>2, <2>3 DEF Agreed
  <2> QED
    BY <1>1, <2>1, <2>2, <2>4, FreedOrders
<1> QED
  BY <1>2, <1>3

\* What a request leaves when nothing waits for it.
LEMMA GoneShrinks ==
  ASSUME IInv, NEW r \in inflight, NEW q2 \in SUBSET queue, NEW w2, NEW rp2,
         \A n \in Names : waiting[n] \ {r.id} \subseteq w2[n],
         \A id : <<id, "unresolved">> \in rp2 => <<id, "unresolved">> \in reports
  PROVE  Shrinks(q2, w2, inflight \ {r}, rp2, <<r.id, r.id>>)
<1>1. \A i \in q2 \cup (inflight \ {r}) : i.id # r.id
  BY InvariantParts DEF Core, Numbered
<1>2. \A i : Remains(i, i)
  BY DEF Remains
<1> QED
  BY <1>1, <1>2 DEF Shrinks

LEMMA GoneOrders ==
  ASSUME JInv, IInv', NEW r \in inflight,
         ActionRecorded(r) \/ RequestFails(r, FALSE) \/ RequestFails(r, TRUE)
  PROVE  JInv'
<1>1. /\ IInv /\ Agreed
      /\ UNCHANGED <<synced, made, twice, cloudRev, serverRev, content, disturbed, next, cleared>>
  BY DEF JInv, ActionRecorded, RequestFails, server
<1>2. Agreed'
  BY <1>1 DEF Agreed
<1>3. \A i \in queue : Same(i, i)
  BY DEF Same
<1>4. CASE ActionRecorded(r)
  <2> DEFINE fl2 == inflight \ {r}
             rp2 == reports \cup {<<r.id, "ok">>}
  <2>1. Core(queue, waiting, fl2, rp2, cleared, next)
    BY <1>1, <1>4, ActionCore DEF ActionRecorded
  <2>2. Dequeue(dequeueing, known, queue, waiting, fl2, rp2)
    BY <1>4 DEF ActionRecorded
  <2>3. Shrinks(queue, waiting, fl2, rp2, <<r.id, r.id>>)
    BY <1>1, GoneShrinks
  <2>4. fl2 \subseteq inflight
    OBVIOUS
  <2> HIDE DEF fl2, rp2
  <2> QED
    BY <1>1, <1>2, <1>3, <2>1, <2>2, <2>3, <2>4, RefusalOrders
<1>5. CASE RequestFails(r, FALSE) \/ RequestFails(r, TRUE)
  <2> DEFINE q2 == FailureRest(r)
             w2 == FailureWaiting(r)
             fl2 == inflight \ {r}
             rp2 == FailureReports(r)
  <2>1. Core(q2, w2, fl2, rp2, cleared, next)
    BY <1>1, FailureCore
  <2>2. \/ Dequeue(dequeueing, known, q2, w2, fl2, rp2)
        \/ /\ queue' = q2 /\ waiting' = w2 /\ inflight' = fl2 /\ reports' = rp2
           /\ UNCHANGED known
    BY <1>5 DEF RequestFails, FailureRest, FailureWaiting, FailureReports
  <2>3. /\ q2 \in SUBSET queue
        /\ \A n \in Names : waiting[n] \ {r.id} \subseteq w2[n]
        /\ \A id : <<id, "unresolved">> \in rp2 => <<id, "unresolved">> \in reports
    BY DEF FailureRest, FailureWaiting, FailureReports
  <2> HIDE DEF q2, w2, rp2
  <2>4. Shrinks(q2, w2, fl2, rp2, <<r.id, r.id>>)
    BY <1>1, <2>3, GoneShrinks
  <2>5. fl2 \subseteq inflight /\ \A i \in q2 : \E j \in queue : Same(i, j) /\ i.rev = j.rev
    BY <1>3, <2>3
  <2> HIDE DEF fl2
  <2> QED
    BY <1>1, <1>2, <2>1, <2>2, <2>4, <2>5, RefusalOrders
<1> QED
  BY <1>4, <1>5

-----------------------------------------------------------------------------
(* The initial states. *)

LEMMA CachedItem ==
  ASSUME NEW id, NEW o, NEW refs
  PROVE  LET i == Cached(id, o, refs)
         IN /\ i.id = id /\ i.objs = {o}
            /\ o \in Existing => i.kind = "update" /\ i.name = "server" /\ i.rev \in {0, 1}
            /\ o \notin Existing => i.kind = "create" /\ (i.refs # {} => o \in Workflows)
<1>1. CASE o \in Existing
  BY <1>1 DEF Cached, Item
<1>2. CASE o \notin Existing
  BY <1>2 DEF Cached, Item
<1> QED
  BY <1>1, <1>2

LEMMA InitOrders == Init => JInv
<1> SUFFICES ASSUME Init
             PROVE  JInv
  OBVIOUS
<1>1. PICK n \in 0..MaxStartup : \E order \in [1..n -> Objects], refs \in SUBSET (Enums \ Existing) :
        LET raw == {Cached(id, order[id], refs) : id \in 1..n}
        IN /\ \A a, b \in 1..n : order[a] = order[b] => a = b
           /\ queue = Initialized(raw)
           /\ reports = {<<i.id, "unresolved">> :
                           i \in {j \in raw : Missing(raw, NoAnswers, j.refs) # {}}}
           /\ made = [o \in Objects |-> IF \E i \in raw : i.kind = "create" /\ o \in i.objs
                                        THEN CHOOSE id \in 1..n : order[id] = o ELSE 0]
           /\ next = n + 1
  BY DEF Init, NoAnswers
<1>2. PICK order \in [1..n -> Objects], refs \in SUBSET (Enums \ Existing) :
        LET raw == {Cached(id, order[id], refs) : id \in 1..n}
        IN /\ \A a, b \in 1..n : order[a] = order[b] => a = b
           /\ queue = Initialized(raw)
           /\ reports = {<<i.id, "unresolved">> :
                           i \in {j \in raw : Missing(raw, NoAnswers, j.refs) # {}}}
           /\ made = [o \in Objects |-> IF \E i \in raw : i.kind = "create" /\ o \in i.objs
                                        THEN CHOOSE id \in 1..n : order[id] = o ELSE 0]
           /\ next = n + 1
  BY <1>1
<1> DEFINE g(id) == Cached(id, order[id], refs)
           raw == {g(id) : id \in 1..n}
<1>3. /\ inflight = {} /\ known = {} /\ synced = Existing /\ disturbed = {} /\ twice = {}
      /\ serverRev = [o \in Objects |-> IF o \in Existing THEN 1 ELSE 0]
      /\ cloudRev = serverRev
      /\ content = [o \in Objects |-> [id |-> 0, kind |-> "create"]]
  BY DEF Init
<1>4. \A id \in 1..n :
        /\ g(id).id = id /\ g(id).objs = {order[id]} /\ order[id] \in Objects /\ g(id) \in Items
        /\ order[id] \in Existing =>
             g(id).kind = "update" /\ g(id).name = "server" /\ g(id).rev \in {0, 1}
        /\ order[id] \notin Existing =>
             g(id).kind = "create" /\ (g(id).refs # {} => order[id] \in Workflows)
  <2>1. 1..n \subseteq Ids /\ refs \in SUBSET Enums
    BY ConstantsAssumption DEF Ids
  <2>2. \A id \in 1..n : g(id) \in Items
    BY <2>1, CachedWellMade DEF WellMade
  <2> QED
    BY <2>2, CachedItem
<1>5. /\ queue = Initialized(raw)
      /\ \A a, b \in 1..n : order[a] = order[b] => a = b
      /\ reports = {<<i.id, "unresolved">> :
                      i \in {j \in raw : Missing(raw, NoAnswers, j.refs) # {}}}
  BY <1>2
<1>6. \A o \in Objects : (\E i \in raw : i.kind = "create" /\ o \in i.objs) =>
        made[o] = CHOOSE id \in 1..n : order[id] = o
  BY <1>2
<1> HIDE DEF g
<1>7. \A i \in queue : \E id \in 1..n :
        /\ i.id = id /\ i.objs = {order[id]} /\ i.kind = g(id).kind
        /\ i.name = g(id).name /\ i.rev = g(id).rev
  <2> DEFINE deps(j) == InferredDependencies(raw, NoAnswers, j) \ Own({j})
             f(j) == [j EXCEPT !.deps = deps(j)]
  <2>1. queue = {f(j) : j \in raw}
    BY <1>5 DEF Initialized, NoAnswers
  <2>2. \A j \in raw : j \in Items
    BY <1>4
  <2> HIDE DEF deps
  <2>3. \A j \in raw : /\ f(j).id = j.id /\ f(j).objs = j.objs /\ f(j).kind = j.kind
                       /\ f(j).name = j.name /\ f(j).rev = j.rev
    BY <2>2 DEF Items
  <2> HIDE DEF f
  <2>4. \A i \in queue : \E id \in 1..n : i = f(g(id)) /\ g(id) \in raw
    BY <2>1
  <2> HIDE DEF raw
  <2> QED
    BY <1>4, <2>3, <2>4
<1>8. ASSUME NEW id \in 1..n, g(id).kind = "create"
      PROVE  made[order[id]] = id /\ order[id] \notin Existing
  <2> DEFINE o == order[id]
             c == CHOOSE a \in 1..n : order[a] = o
  <2>1. \E a \in 1..n : order[a] = o
    OBVIOUS
  <2>2. c \in 1..n /\ order[c] = o
    BY <2>1
  <2>3. c = id
    BY <1>5, <2>2
  <2>4. g(id) \in raw /\ o \in g(id).objs /\ o \in Objects
    BY <1>4
  <2> HIDE DEF o, raw
  <2>5. made[o] = c
    BY <1>6, <1>8, <2>4
  <2> QED
    BY <1>4, <1>8, <2>3, <2>5 DEF o
<1>9. Named(queue, inflight, known, synced, cleared)
  <2> SUFFICES ASSUME NEW i \in queue, NEW o \in i.objs
               PROVE  /\ Updates(i) /\ i.name = "server" => o \in Existing
                      /\ Creates(i) \/ (Updates(i) /\ i.name = "client") => o \notin Existing
    BY <1>3 DEF Named
  <2>1. PICK id \in 1..n : /\ i.objs = {order[id]} /\ i.kind = g(id).kind
                           /\ i.name = g(id).name
    BY <1>7
  <2>2. o = order[id]
    BY <2>1
  <2> QED
    BY <1>4, <2>1, <2>2 DEF Updates, Creates
<1>10. Listed(waiting, inflight, cleared)
  BY <1>3 DEF Listed
<1>11. Ordered(queue, inflight, cleared)
  <2> SUFFICES ASSUME NEW i \in queue, NEW j \in queue, NEW o \in i.objs \cap j.objs, i.id < j.id
               PROVE  FALSE
    BY <1>3 DEF Ordered
  <2>1. PICK a \in 1..n, b \in 1..n : i.id = a /\ j.id = b /\ order[a] = o /\ order[b] = o
    BY <1>7
  <2>2. a = b
    BY <1>5, <2>1
  <2> QED
    BY <2>1, <2>2
<1>12. Sole(queue, inflight, cleared, synced, twice, made)
  <2> SUFFICES ASSUME NEW i \in queue, NEW o \in i.objs, Creates(i)
               PROVE  made[o] = i.id /\ o \notin synced
    BY <1>3 DEF Sole
  <2>1. PICK id \in 1..n : i.id = id /\ i.objs = {order[id]} /\ i.kind = g(id).kind
    BY <1>7
  <2>2. g(id).kind = "create"
    BY <1>4, <2>1 DEF Creates
  <2> QED
    BY <1>3, <1>8, <2>1, <2>2
<1>13. Referring(queue, inflight, reports)
  <2> SUFFICES ASSUME NEW i \in queue, Creates(i), <<i.id, "unresolved">> \in reports
               PROVE  i.objs \subseteq Workflows
    BY <1>3 DEF Referring
  <2>1. PICK id \in 1..n : i.id = id /\ i.objs = {order[id]} /\ i.kind = g(id).kind
    BY <1>7
  <2>2. PICK a \in 1..n : g(a).id = i.id /\ Missing(raw, NoAnswers, g(a).refs) # {}
    <3>1. \E j \in raw : j.id = i.id /\ Missing(raw, NoAnswers, j.refs) # {}
      <4> HIDE DEF raw
      <4> QED
        BY <1>5
    <3> QED
      BY <3>1
  <2>3. \A q, w, rs : Missing(q, w, rs) # {} => rs # {}
    BY DEF Missing, Unresolved
  <2>4. a = id
    BY <1>4, <2>1, <2>2
  <2>5. g(id).refs # {}
    <3>1. g(a).refs # {}
      BY <2>2, <2>3
    <3> QED
      BY <2>4, <3>1
  <2>6. order[id] \notin Existing
    BY <1>4, <2>1 DEF Creates
  <2> QED
    BY <1>4, <2>1, <2>6, <2>5
<1>14. Fresh(queue, inflight, cleared, serverRev, disturbed)
  <2> SUFFICES ASSUME NEW i \in queue, NEW o \in i.objs, Updates(i)
               PROVE  i.rev \in {0, serverRev[o]}
    BY <1>3 DEF Fresh
  <2>1. PICK id \in 1..n : i.objs = {order[id]} /\ i.kind = g(id).kind /\ i.rev = g(id).rev
    BY <1>7
  <2>2. order[id] \in Existing /\ g(id).rev \in {0, 1}
    BY <1>4, <2>1 DEF Updates
  <2> QED
    BY <1>3, <1>4, <2>1, <2>2
<1>15. Late(queue, inflight, cleared, content, next)
  BY <1>3 DEF Late
<1>16. Agreed
  BY <1>3, ConstantsAssumption DEF Agreed
<1> QED
  BY <1>9, <1>10, <1>11, <1>12, <1>13, <1>14, <1>15, <1>16, InitInvariant DEF JInv, Lanes

-----------------------------------------------------------------------------
(* The theorems. *)

LEMMA NextOrders == JInv /\ [Next]_vars => JInv'
<1> SUFFICES ASSUME JInv, [Next]_vars
             PROVE  JInv'
  OBVIOUS
<1>1. IInv'
  BY NextInvariant DEF JInv
<1>2. CASE StartDequeueing
  BY <1>1, <1>2, StartOrders
<1>3. CASE Client
  <2>1. CASE StopDequeueing \/ \E o \in Objects : OtherClientEdits(o)
    BY <1>1, <2>1, OthersOrder
  <2>2. CASE \E r \in inflight : AnswerLost(r)
    BY <1>1, <2>2, OthersOrder
  <2>3. CASE Clear
    BY <1>1, <2>3, ClearOrders
  <2>4. ASSUME NEW o \in Objects, CreateObject(o) \/ UpdateObject(o) \/ RecordObjectAction(o)
        PROVE  JInv'
    BY <1>1, <2>4, CreateOrders, UpdateOrders, ActionOrders
  <2>5. ASSUME NEW objs \in SUBSET Plain, BulkCreateGenericStringObjects(objs)
        PROVE  JInv'
    BY <1>1, <2>5, BulkOrders
  <2> QED
    BY <1>3, <2>1, <2>2, <2>3, <2>4, <2>5 DEF Client
<1>4. ASSUME NEW r \in inflight, Answer(r)
      PROVE  JInv'
  <2>1. CASE CreationSucceeds(r)
    BY <1>1, <2>1, CreationSucceedsOrders
  <2>2. CASE BulkCreationSucceeds(r)
    BY <1>1, <2>2, BulkCreationSucceedsOrders
  <2>3. CASE CreationDenied(r) \/ UpdateRejected(r)
    BY <1>1, <2>3, RefusedOrders
  <2>4. CASE UpdateSucceeds(r)
    BY <1>1, <2>4, UpdateSucceedsOrders
  <2>5. CASE ActionRecorded(r) \/ RequestFails(r, FALSE) \/ RequestFails(r, TRUE)
    BY <1>1, <2>5, GoneOrders
  <2> QED
    BY <1>4, <2>1, <2>2, <2>3, <2>4, <2>5 DEF Answer
<1>5. CASE UNCHANGED vars
  BY <1>1, <1>5, OthersOrder
<1> QED
  BY <1>2, <1>3, <1>4, <1>5 DEF Next

\* The stronger invariant, of who may write which object and when, holds in
\* every reachable state.
THEOREM OrderInvariant == Spec => []JInv
<1> QED
  BY InitOrders, NextOrders, PTL DEF Spec

\* The client does not conflict with itself: an update goes out with the
\* server's current revision unless something else changed the object.
THEOREM FreshWhenSent == Spec => []FreshRevision
<1>1. JInv => FreshRevision
  <2> SUFFICES ASSUME JInv, NEW r \in Live, NEW o \in r.objs \ disturbed, r.kind = "update"
               PROVE  r.rev \in {0, serverRev[o]}
    BY DEF FreshRevision
  <2>1. r \in inflight /\ r.id >= cleared /\ cleared \in Nat /\ inflight \subseteq Items
    BY InvariantParts DEF JInv, Live, Core, Typed
  <2>2. cleared <= r.id
    BY <2>1, ConstantsAssumption DEF Items, Ids
  <2> QED
    BY <2>1, <2>2 DEF JInv, Fresh, Updates
<1> QED
  BY <1>1, OrderInvariant, PTL

\* What is written at the server: by a request in flight, or nothing.
LEMMA Writers ==
  ASSUME JInv, [Next]_vars, NEW o \in Objects, content'[o] # content[o]
  PROVE  \E r \in inflight :
           /\ o \in r.objs /\ (Creates(r) \/ Updates(r))
           /\ content'[o] = [id |-> r.id, kind |-> r.kind]
<1>1. content \in [Objects -> [id : 0..MaxItems, kind : Kinds]]
  BY InvariantParts DEF JInv, OtherTypes
<1>2. ASSUME NEW r \in inflight, Creates(r) \/ Updates(r),
             NEW x \in r.objs, content' = [content EXCEPT ![x] = [id |-> r.id, kind |-> r.kind]]
      PROVE  \E s \in inflight :
               /\ o \in s.objs /\ (Creates(s) \/ Updates(s))
               /\ content'[o] = [id |-> s.id, kind |-> s.kind]
  <2>1. x = o
    BY <1>1, <1>2
  <2> QED
    BY <1>1, <1>2, <2>1
<1>3. ASSUME NEW r \in inflight,
             CreationSucceeds(r) \/ BulkCreationSucceeds(r) \/ UpdateSucceeds(r) \/ AnswerLost(r)
      PROVE  /\ Creates(r) \/ Updates(r)
             /\ \E x \in r.objs : content' = [content EXCEPT ![x] = [id |-> r.id, kind |-> r.kind]]
  BY <1>3 DEF CreationSucceeds, BulkCreationSucceeds, UpdateSucceeds, AnswerLost, Succeeded,
              ServerWrites, Creates, Updates
<1>4. ASSUME NEW r \in inflight, Answer(r) \/ AnswerLost(r)
      PROVE  CreationSucceeds(r) \/ BulkCreationSucceeds(r) \/ UpdateSucceeds(r) \/ AnswerLost(r)
  BY <1>4 DEF Answer, CreationDenied, UpdateRejected, ActionRecorded, RequestFails, server
<1>5. \E r \in inflight : Answer(r) \/ AnswerLost(r)
  <2>1. content' # content
    OBVIOUS
  <2>2. ~UNCHANGED vars /\ ~StartDequeueing /\ ~StopDequeueing /\ ~Clear
    BY <2>1 DEF vars, server, StartDequeueing, StopDequeueing, Clear
  <2>3. \A i : ~Enqueue(i)
    BY <2>1 DEF Enqueue, server
  <2>4. \A x : ~CreateObject(x) /\ ~UpdateObject(x) /\ ~RecordObjectAction(x) /\ ~OtherClientEdits(x)
    BY <2>1, <2>3 DEF CreateObject, UpdateObject, RecordObjectAction, OtherClientEdits
  <2>5. \A objs : ~BulkCreateGenericStringObjects(objs)
    BY <2>3 DEF BulkCreateGenericStringObjects
  <2> QED
    BY <2>2, <2>4, <2>5 DEF Next, Client
<1> QED
  BY <1>2, <1>3, <1>4, <1>5

-----------------------------------------------------------------------------
(* Requests that outlived a logout, against each other.                     *)

Writes(i) == Creates(i) \/ Updates(i)

\* Of two old requests that write an object, the later one is its creation.
OldWriters ==
  \A i, j \in inflight : \A o \in i.objs \cap j.objs :
    Writes(i) /\ Writes(j) /\ i.id < j.id /\ j.id < cleared /\ SameSession(i.id, j.id)
      => o \in twice /\ ~Updates(j)

\* No old writer is behind the old update that wrote its object.
OldLate ==
  \A o \in Objects : content[o].kind = "update" /\ content[o].id < cleared =>
    \A i \in inflight : Writes(i) /\ o \in i.objs /\ SameSession(i.id, content[o].id)
      => content[o].id <= i.id

Sessions == logouts \subseteq 0..cleared /\ (cleared > 0 => cleared \in logouts)

KInv == JInv /\ Sessions /\ OldWriters /\ OldLate

LEMMA Numbers ==
  ASSUME JInv
  PROVE  /\ cleared \in Nat /\ next \in Nat /\ cleared <= next
         /\ \A i \in queue \cup inflight : i.id \in Nat /\ i.id < next
         /\ \A i \in queue : cleared <= i.id
         /\ \A i, j \in inflight : i.id = j.id => i = j
         /\ \A i \in inflight : i.objs \subseteq Objects
         /\ \A o \in Objects : content[o].id \in Nat
<1>1. IInv
  BY DEF JInv
<1> QED
  BY <1>1, InvariantParts, ConstantsAssumption DEF OtherTypes, Core, Typed, Numbered, Items, Ids

\* Items before and after the last logout are of different sessions.
LEMMA OneSession ==
  ASSUME JInv, Sessions, NEW a \in Nat, NEW b \in Nat, SameSession(a, b)
  PROVE  a < cleared <=> b < cleared
<1> QED
  BY Numbers DEF Sessions, SameSession

\* Of two requests of the current session that write an object, the later one is
\* the second creation of a workflow.
LEMMA NewWriters ==
  ASSUME JInv, NEW i \in inflight, NEW j \in inflight, NEW o \in i.objs \cap j.objs,
         Writes(i), Writes(j), i.id < j.id, cleared <= i.id
  PROVE  o \in twice /\ ~Updates(j)
<1>1. /\ Named(queue, inflight, known, synced, cleared) /\ Ordered(queue, inflight, cleared)
      /\ Sole(queue, inflight, cleared, synced, twice, made)
      /\ \A x \in queue, y \in inflight : x.id # y.id
  BY InvariantParts DEF JInv, Lanes, Core, Numbered
<1>2. cleared <= j.id /\ i.id \in Nat /\ j.id \in Nat /\ cleared \in Nat
  BY Numbers
<1>3. ~Updates(j)
  BY <1>1, <1>2 DEF Ordered, Writes
<1>4. o \in twice
  <2> SUFFICES ASSUME o \notin twice
               PROVE  FALSE
    OBVIOUS
  <2>1. Creates(j)
    BY <1>3 DEF Writes
  <2>2. made[o] = j.id /\ o \notin synced
    BY <1>1, <1>2, <2>1 DEF Sole
  <2>3. CASE Creates(i)
    <3>1. made[o] = i.id
      BY <1>1, <2>3 DEF Sole
    <3> QED
      BY <1>2, <2>2, <3>1
  <2>4. CASE Updates(i)
    BY <1>1, <2>2, <2>4 DEF Named
  <2> QED
    BY <2>3, <2>4 DEF Writes
<1> QED
  BY <1>3, <1>4

\* dequeue() sends nothing that is from before a logout.
LEMMA NoneOlder ==
  ASSUME JInv, NEW on, NEW kn, NEW q, NEW w, NEW fl, NEW rp, Dequeue(on, kn, q, w, fl, rp),
         \A i \in q : \/ i.id = next
                     \/ \E j \in queue : i.id = j.id,
         \A i \in fl : \E j \in inflight : Remains(i, j)
  PROVE  \A i \in inflight' : i.id < cleared => \E j \in inflight : Remains(i, j)
<1>1. PICK sent : sent \subseteq q /\ inflight' = fl \cup sent
  <2>1. \E sent : Sends(kn, q, w, fl, rp, sent)
    BY DequeueSends
  <2> QED
    BY <2>1 DEF Sends
<1>2. \A i \in q : i.id \in Nat /\ cleared <= i.id
  BY Numbers
<1>3. cleared \in Nat
  BY Numbers
<1> QED
  BY <1>1, <1>2, <1>3

\* So the requests from before a logout only go.
OldGo ==
  /\ cleared' = cleared /\ logouts' = logouts /\ twice \subseteq twice'
  /\ \A i \in inflight' : i.id < cleared => \E j \in inflight : Remains(i, j)

LEMMA EnqueueOldGo ==
  ASSUME JInv, NEW kind, NEW objs, NEW name, NEW refs, NEW folder, NEW rev,
         Enqueue(Item(next, kind, objs, name, refs, folder, rev)), twice \subseteq twice'
  PROVE  OldGo
<1> DEFINE i == Item(next, kind, objs, name, refs, folder, rev)
<1>1. PICK rs, rp : Dequeue(dequeueing, known,
                      queue \cup {[i EXCEPT !.refs = rs, !.deps = InferredDependencies(queue, waiting, i)]},
                      waiting, inflight, rp)
  BY DEF Enqueue
<1> DEFINE j == [i EXCEPT !.refs = rs, !.deps = InferredDependencies(queue, waiting, i)]
           q == queue \cup {j}
<1>2. j.id = next
  BY DEF Item
<1> HIDE DEF i, j
<1>3. \A x \in inflight : \E y \in inflight : Remains(x, y)
  BY DEF Remains
<1>4. \A x \in q : x.id = next \/ \E y \in queue : x.id = y.id
  BY <1>2
<1>5. Dequeue(dequeueing, known, q, waiting, inflight, rp)
  BY <1>1 DEF j
<1> HIDE DEF q
<1>6. \A x \in inflight' : x.id < cleared => \E y \in inflight : Remains(x, y)
  BY <1>3, <1>4, <1>5, NoneOlder
<1>7. cleared' = cleared /\ logouts' = logouts
  BY DEF Enqueue
<1> QED
  BY <1>6, <1>7 DEF OldGo

LEMMA AnswerOldGo ==
  ASSUME JInv, NEW r \in inflight, Answer(r)
  PROVE  OldGo
<1>1. /\ UNCHANGED <<cleared, logouts, twice>>
  BY DEF Answer, CreationSucceeds, BulkCreationSucceeds, CreationDenied, UpdateSucceeds,
         UpdateRejected, ActionRecorded, RequestFails
<1>2. IInv /\ \A x \in inflight : \E y \in inflight : Remains(x, y)
  BY DEF JInv, Remains
<1> DEFINE FromQueue(q) == \A i \in q : \E j \in queue : i.id = j.id
           FromFlight(fl) == \A i \in fl : \E j \in inflight : Remains(i, j)
<1>3. ASSUME NEW q, NEW w, NEW fl, NEW rp, NEW kn, FromQueue(q), FromFlight(fl),
             Dequeue(dequeueing, kn, q, w, fl, rp)
      PROVE  OldGo
  <2>1. \A i \in inflight' : i.id < cleared => \E j \in inflight : Remains(i, j)
    BY <1>3, NoneOlder
  <2> QED
    BY <1>1, <2>1 DEF OldGo
<1>4. FromFlight(inflight \ {r})
  BY <1>2
<1>5. ASSUME NEW q, NEW o, Unlocks(q, r, o)
      PROVE  FromQueue(q)
  BY <1>5 DEF Unlocks, Same
<1> HIDE DEF FromQueue, FromFlight
<1>6. CASE CreationSucceeds(r)
  <2>1. PICK o : Dequeue(dequeueing, known \cup {o}, Created(r, o, serverRev'[o]), Answered(r, o),
                         inflight \ {r}, reports \cup {<<r.id, "ok">>})
    BY <1>6 DEF CreationSucceeds
  <2>2. Unlocks(Created(r, o, serverRev'[o]), r, o)
    BY <1>2, CreatedUnlocks
  <2> QED
    BY <1>3, <1>4, <1>5, <2>1, <2>2
<1>7. CASE BulkCreationSucceeds(r)
  <2> DEFINE Left(o) == r.objs \ {o}
             Flight(o) == (inflight \ {r}) \cup
                            (IF Left(o) = {} THEN {} ELSE {[r EXCEPT !.objs = Left(o)]})
             Told(o) == reports \cup (IF Left(o) = {} THEN {<<r.id, "ok">>} ELSE {})
  <2>1. PICK o \in r.objs : Dequeue(dequeueing, known \cup {o}, Created(r, o, serverRev'[o]),
                                    Answered(r, o), Flight(o), Told(o))
    BY <1>7 DEF BulkCreationSucceeds
  <2>2. Unlocks(Created(r, o, serverRev'[o]), r, o)
    BY <1>2, CreatedUnlocks
  <2>3. Remains([r EXCEPT !.objs = Left(o)], r)
    BY <1>2, QueueWellMade DEF WellMade, Items, Remains
  <2>4. FromFlight(Flight(o))
    BY <1>2, <2>3 DEF FromFlight
  <2> HIDE DEF Flight, Told
  <2> QED
    BY <1>3, <1>5, <2>1, <2>2, <2>4
<1>8. CASE CreationDenied(r) \/ UpdateRejected(r)
  <2>1. PICK o, rp : Dequeue(dequeueing, known, Freed(queue, <<r.id, o>>), Answered(r, o),
                             inflight \ {r}, rp)
    <3>1. CASE CreationDenied(r)
      BY <3>1 DEF CreationDenied
    <3>2. CASE UpdateRejected(r)
      BY <3>2 DEF UpdateRejected
    <3> QED
      BY <1>8, <3>1, <3>2
  <2>2. Unlocks(Freed(queue, <<r.id, o>>), r, o)
    BY <1>2, FreedUnlocks
  <2> QED
    BY <1>3, <1>4, <1>5, <2>1, <2>2
<1>9. CASE UpdateSucceeds(r)
  <2> DEFINE Rest(o) == {[i EXCEPT !.rev = Refreshed(i, o, serverRev'[o], known)] :
                           i \in Freed(queue, <<r.id, o>>)}
  <2>1. PICK o : Dequeue(dequeueing, known, Rest(o), Answered(r, o),
                         inflight \ {r}, reports \cup {<<r.id, "ok">>})
    BY <1>9 DEF UpdateSucceeds
  <2>2. Unlocks(Rest(o), r, o)
    <3>1. \A rev, q2 : q2 = {[i EXCEPT !.rev = Refreshed(i, o, rev, known)] :
                             i \in Freed(queue, <<r.id, o>>)} => Unlocks(q2, r, o)
      BY <1>2, UpdatedUnlocks
    <3> QED
      BY <3>1
  <2> HIDE DEF Rest
  <2> QED
    BY <1>3, <1>4, <1>5, <2>1, <2>2
<1>10. CASE ActionRecorded(r) \/ RequestFails(r, FALSE) \/ RequestFails(r, TRUE)
  <2>1. CASE inflight' = inflight \ {r}
    BY <1>1, <1>4, <2>1 DEF OldGo, FromFlight
  <2>2. CASE inflight' # inflight \ {r}
    <3>1. PICK q, w, rp : q \subseteq queue /\ Dequeue(dequeueing, known, q, w, inflight \ {r}, rp)
      BY <1>10, <2>2 DEF ActionRecorded, RequestFails
    <3>2. FromQueue(q)
      BY <3>1 DEF FromQueue
    <3> QED
      BY <1>3, <1>4, <3>1, <3>2
  <2> QED
    BY <2>1, <2>2
<1> QED
  BY <1>6, <1>7, <1>8, <1>9, <1>10 DEF Answer

LEMMA NextOldGo ==
  ASSUME JInv, [Next]_vars, ~Clear
  PROVE  OldGo
<1>1. \A x \in inflight : Remains(x, x)
  BY DEF Remains
<1>2. CASE StartDequeueing
  <2>1. \A i \in inflight' : i.id < cleared => \E j \in inflight : Remains(i, j)
    BY <1>1, <1>2, NoneOlder DEF StartDequeueing
  <2> QED
    BY <1>2, <2>1 DEF StartDequeueing, OldGo
<1>3. CASE UNCHANGED <<inflight, cleared, logouts, twice>>
  BY <1>1, <1>3 DEF OldGo
<1>4. CASE \/ UNCHANGED vars \/ StopDequeueing
           \/ \E o \in Objects : OtherClientEdits(o)
           \/ \E r \in inflight : AnswerLost(r)
  <2>1. UNCHANGED <<inflight, cleared, logouts, twice>>
    BY <1>4 DEF vars, StopDequeueing, OtherClientEdits, AnswerLost
  <2> QED
    BY <1>3, <2>1
<1>5. ASSUME NEW o \in Objects, CreateObject(o)
      PROVE  OldGo
  BY <1>5, EnqueueOldGo DEF CreateObject
<1>6. ASSUME NEW o \in Objects, UpdateObject(o) \/ RecordObjectAction(o)
      PROVE  OldGo
  BY <1>6, EnqueueOldGo DEF UpdateObject, RecordObjectAction
<1>7. ASSUME NEW objs \in SUBSET Plain, BulkCreateGenericStringObjects(objs)
      PROVE  OldGo
  BY <1>7, EnqueueOldGo DEF BulkCreateGenericStringObjects
<1>8. ASSUME NEW r \in inflight, Answer(r)
      PROVE  OldGo
  BY <1>8, AnswerOldGo
<1> QED
  BY <1>2, <1>4, <1>5, <1>6, <1>7, <1>8 DEF Next, Client

\* At a logout, what was true of the requests of the session is true of old ones.
LEMMA ClearSessions ==
  ASSUME KInv, Clear
  PROVE  Sessions' /\ OldWriters' /\ OldLate'
<1>1. /\ JInv /\ Sessions /\ OldWriters /\ OldLate
      /\ cleared' = next /\ logouts' = logouts \cup {next}
      /\ UNCHANGED <<inflight, twice, content>>
  BY DEF KInv, Clear
<1>2. /\ cleared \in Nat /\ next \in Nat /\ cleared <= next
      /\ \A i \in inflight : i.id \in Nat /\ i.objs \subseteq Objects
      /\ \A o \in Objects : content[o].id \in Nat
  BY <1>1, Numbers
<1>3. \A a, b \in Nat : SameSession(a, b)' => SameSession(a, b)
  BY <1>1 DEF SameSession
<1>4. Sessions'
  BY <1>1, <1>2 DEF Sessions
<1>5. OldWriters'
  <2> SUFFICES ASSUME NEW i \in inflight, NEW j \in inflight, NEW o \in i.objs \cap j.objs,
                      Writes(i), Writes(j), i.id < j.id, SameSession(i.id, j.id)
               PROVE  o \in twice /\ ~Updates(j)
    BY <1>1, <1>2, <1>3 DEF OldWriters
  <2>1. CASE j.id < cleared
    BY <1>1, <2>1 DEF OldWriters
  <2>2. CASE cleared <= i.id
    BY <1>1, <2>2, NewWriters
  <2> QED
    BY <1>1, <1>2, <2>1, <2>2, OneSession
<1>6. OldLate'
  <2> SUFFICES ASSUME NEW o \in Objects, content[o].kind = "update",
                      NEW i \in inflight, Writes(i), o \in i.objs, SameSession(i.id, content[o].id)
               PROVE  content[o].id <= i.id
    BY <1>1, <1>2, <1>3 DEF OldLate
  <2>1. CASE content[o].id < cleared
    BY <1>1, <2>1 DEF OldLate
  <2>2. CASE cleared <= content[o].id /\ cleared <= i.id
    BY <1>1, <2>2 DEF JInv, Late, Writes
  <2> QED
    BY <1>1, <1>2, <2>1, <2>2, OneSession
<1> QED
  BY <1>4, <1>5, <1>6

LEMMA NextSessions == KInv /\ [Next]_vars => KInv'
<1> SUFFICES ASSUME KInv, [Next]_vars
             PROVE  KInv'
  OBVIOUS
<1>1. JInv /\ Sessions /\ OldWriters /\ OldLate /\ JInv'
  BY NextOrders DEF KInv
<1>2. CASE Clear
  BY <1>1, <1>2, ClearSessions DEF KInv
<1>3. CASE ~Clear
  <2>1. OldGo
    BY <1>1, <1>3, NextOldGo
  <2>2. /\ cleared \in Nat
        /\ \A i \in inflight : i.id \in Nat /\ i.objs \subseteq Objects
        /\ \A i \in inflight' : i.id \in Nat
        /\ \A o \in Objects : content[o].id \in Nat /\ content'[o].id \in Nat
    <3>1. (/\ \A i \in queue \cup inflight : i.id \in Nat /\ i.id < next
           /\ \A o \in Objects : content[o].id \in Nat)'
      BY <1>1, Numbers, PTL
    <3> QED
      BY <1>1, <3>1, Numbers
  <2>3. \A a, b \in Nat : SameSession(a, b)' <=> SameSession(a, b)
    BY <2>1 DEF OldGo, SameSession
  <2>4. \A i, j : Remains(i, j) => /\ i.id = j.id /\ i.objs \subseteq j.objs
                                   /\ (Writes(i) <=> Writes(j)) /\ (Updates(i) <=> Updates(j))
    BY DEF Remains, Writes, Creates, Updates
  <2>5. Sessions'
    BY <1>1, <2>1 DEF Sessions, OldGo
  <2>6. OldWriters'
    <3> SUFFICES ASSUME NEW i \in inflight', NEW j \in inflight', NEW o \in i.objs \cap j.objs,
                        Writes(i), Writes(j), i.id < j.id, j.id < cleared, SameSession(i.id, j.id)
                 PROVE  o \in twice /\ ~Updates(j)
      BY <2>1, <2>2, <2>3 DEF OldWriters, OldGo
    <3>1. PICK x \in inflight : Remains(i, x)
      BY <2>1, <2>2 DEF OldGo
    <3>2. PICK y \in inflight : Remains(j, y)
      BY <2>1 DEF OldGo
    <3> QED
      BY <1>1, <2>4, <3>1, <3>2 DEF OldWriters
  <2>7. OldLate'
    <3> SUFFICES ASSUME NEW o \in Objects, content'[o].kind = "update", content'[o].id < cleared,
                        NEW i \in inflight', Writes(i), o \in i.objs,
                        SameSession(i.id, content[o].id)'
                 PROVE  content'[o].id <= i.id
      BY <2>1 DEF OldLate, OldGo
    <3>1. content'[o].id \in Nat
      BY <2>2
    <3>2. SameSession(i.id, content'[o].id)
      BY <2>1, <2>2, <3>1 DEF SameSession, OldGo
    <3>3. i.id < cleared
      BY <1>1, <2>2, <3>1, <3>2, OneSession
    <3>4. PICK x \in inflight : Remains(i, x)
      BY <2>1, <3>3 DEF OldGo
    <3>5. x.id = i.id /\ Writes(x) /\ o \in x.objs
      BY <2>4, <3>4
    <3>6. CASE content'[o] = content[o]
      BY <1>1, <3>2, <3>5, <3>6 DEF OldLate
    <3>7. CASE content'[o] # content[o]
      <4>1. PICK r \in inflight : o \in r.objs /\ content'[o] = [id |-> r.id, kind |-> r.kind]
        BY <1>1, <3>7, Writers
      <4>2. content'[o].id = r.id /\ r.kind = "update"
        BY <4>1
      <4>3. SUFFICES ASSUME x.id < r.id
                     PROVE  FALSE
        BY <2>2, <3>5, <4>2
      <4>4. Updates(r) /\ Writes(r) /\ o \in x.objs \cap r.objs /\ r.id < cleared
            /\ SameSession(x.id, r.id)
        BY <3>2, <3>5, <4>1, <4>2 DEF Updates, Writes
      <4> QED
        BY <1>1, <3>5, <4>3, <4>4 DEF OldWriters
    <3> QED
      BY <3>6, <3>7
  <2> QED
    BY <1>1, <2>5, <2>6, <2>7 DEF KInv
<1> QED
  BY <1>2, <1>3

\* With what holds of the requests that outlived a logout, the invariant is
\* inductive for any number of logouts.
THEOREM SessionInvariant == Spec => []KInv
<1>1. Init => KInv
  <2>1. Init => inflight = {} /\ cleared = 0 /\ logouts = {}
    BY DEF Init
  <2> QED
    BY <2>1, InitOrders DEF KInv, Sessions, OldWriters, OldLate
<1> QED
  BY <1>1, NextSessions, PTL DEF Spec

\* Two requests of one session that write the same object are never in flight
\* together, by whatever name they go, not even when they outlived the logout.
THEOREM OneWriter == Spec => []OneWriterPerObject
<1>1. KInv => OneWriterPerObject
  <2> SUFFICES ASSUME KInv, NEW r \in inflight, NEW s \in inflight, r # s,
                      "action" \notin {r.kind, s.kind}, SameSession(r.id, s.id),
                      NEW o \in r.objs \cap s.objs
               PROVE  o \in twice
    BY DEF OneWriterPerObject
  <2>1. JInv /\ Sessions /\ OldWriters
    BY DEF KInv
  <2>2. cleared \in Nat /\ r.id \in Nat /\ s.id \in Nat /\ r.id # s.id
    BY <2>1, Numbers
  <2>3. Writes(r) /\ Writes(s)
    <3>1. r \in Items /\ s \in Items
      BY <2>1, InvariantParts DEF JInv, Core, Typed
    <3> QED
      BY <3>1 DEF Writes, Creates, Updates, Items, Kinds
  <2>4. SameSession(s.id, r.id)
    BY DEF SameSession
  <2>5. ASSUME NEW i \in inflight, NEW j \in inflight, Writes(i), Writes(j), o \in i.objs \cap j.objs,
               SameSession(i.id, j.id), i.id \in Nat, j.id \in Nat, i.id < j.id
        PROVE  o \in twice
    <3>1. CASE cleared <= i.id
      BY <2>1, <2>5, <3>1, NewWriters
    <3>2. CASE i.id < cleared
      <4>1. j.id < cleared
        BY <2>1, <2>5, <3>2, OneSession
      <4> QED
        BY <2>1, <2>5, <4>1 DEF OldWriters
    <3> QED
      BY <2>2, <2>5, <3>1, <3>2
  <2>6. CASE r.id < s.id
    BY <2>2, <2>3, <2>5, <2>6
  <2>7. CASE s.id < r.id
    BY <2>2, <2>3, <2>4, <2>5, <2>7
  <2> QED
    BY <2>2, <2>6, <2>7
<1> QED
  BY <1>1, SessionInvariant, PTL

\* The queue keeps the serial order of a session: an older edit never replaces a
\* newer update at the server, though both may have outlived the logout.
THEOREM WritesInOrder == Spec => SerialOrder
<1>1. KInv /\ [Next]_vars =>
        [\A o \in Objects :
           content'[o].id < content[o].id /\ SameSession(content'[o].id, content[o].id)
             => content[o].kind # "update"]_vars
  <2> SUFFICES ASSUME KInv, [Next]_vars, NEW o \in Objects,
                      content'[o].id < content[o].id, SameSession(content'[o].id, content[o].id),
                      content[o].kind = "update"
               PROVE  FALSE
    OBVIOUS
  <2>1. JInv /\ Sessions /\ OldLate
    BY DEF KInv
  <2>2. content[o].id \in Nat /\ cleared \in Nat
    BY <2>1, Numbers
  <2>3. PICK r \in inflight : o \in r.objs /\ Writes(r) /\ content'[o].id = r.id
    <3>1. content'[o] # content[o]
      BY <2>2
    <3>2. PICK r \in inflight : /\ o \in r.objs /\ (Creates(r) \/ Updates(r))
                                /\ content'[o] = [id |-> r.id, kind |-> r.kind]
      BY <2>1, <3>1, Writers
    <3> QED
      BY <3>2 DEF Writes
  <2>4. r.id \in Nat /\ r.id < content[o].id /\ SameSession(r.id, content[o].id)
    BY <2>1, <2>3, Numbers
  <2>5. CASE cleared <= r.id
    <3>1. content[o].id <= r.id
      BY <2>1, <2>2, <2>3, <2>4, <2>5 DEF JInv, Late, Writes
    <3> QED
      BY <2>2, <2>4, <3>1
  <2>6. CASE r.id < cleared
    <3>1. content[o].id < cleared
      BY <2>1, <2>2, <2>4, <2>6, OneSession
    <3>2. content[o].id <= r.id
      BY <2>1, <2>3, <2>4, <3>1 DEF OldLate
    <3> QED
      BY <2>2, <2>4, <3>2
  <2> QED
    BY <2>2, <2>4, <2>5, <2>6
<1> QED
  BY <1>1, SessionInvariant, PTL DEF Spec, SerialOrder
=============================================================================
