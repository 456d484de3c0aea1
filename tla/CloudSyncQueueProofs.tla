------------------------ MODULE CloudSyncQueueProofs ------------------------
(***************************************************************************)
(* Proofs about CloudSyncQueue, for every value of its constants: the      *)
(* types, that no queued item waits for what is gone, that the queue does  *)
(* not sit still, and what is emitted about each item.                     *)
(*                                                                         *)
(* A handler computes a queue q, a waiting table w, the requests fl and    *)
(* the reports rp, and then calls dequeue().  The parts of the invariant   *)
(* are therefore stated of q, w, fl and rp, with the numbers cl and nx of  *)
(* the first item after the last logout and of the next one: each action   *)
(* establishes them for what it hands to dequeue(), and one lemma shows    *)
(* that dequeue() keeps them.                                              *)
(***************************************************************************)
EXTENDS CloudSyncQueue, FiniteSetTheorems, WellFoundedInduction, TLAPS

Settled == Outcomes \ {"unresolved"}

Typed(q, w, fl, rp) ==
  /\ q \subseteq Items /\ fl \subseteq Items
  /\ \A i \in q \cup fl : i.objs \subseteq Folders => i.rev = 0
  /\ w \in [Names -> SUBSET Ids]
  /\ rp \subseteq Ids \X Outcomes

\* An item other than a bulk creation is about one object, and a bulk creation
\* has no revision.
Single(q, fl) ==
  \A i \in q \cup fl :
    IF i.kind = "bulk" THEN i.rev = 0 ELSE \E o \in Objects : i.objs = {o}

\* Numbers identify items.
Numbered(q, fl, cl, nx) ==
  /\ \A i, j \in q : i.id = j.id => i = j
  /\ \A i, j \in fl : i.id = j.id => i = j
  /\ \A i \in q, j \in fl : i.id # j.id
  /\ \A i \in q : cl <= i.id /\ i.id < nx
  /\ \A i \in fl : i.id < nx

Skipped(rp, id) == <<id, "skipped">> \in rp
Provides(j, d) == j.id = d[1] /\ d[2] \in j.objs /\ j.kind # "action"
Answers(j, n) ==
  /\ n[2] \in j.objs /\ j.kind # "action"
  /\ n[1] = IF j.kind = "update" THEN "server" ELSE "client"

\* What a queued item waits for is queued, in flight, or was skipped.
Alive(q, fl, rp, cl) ==
  \A i \in q : \A d \in i.deps :
    \/ \E j \in q : Provides(j, d)
    \/ \E j \in fl : cl <= j.id /\ Provides(j, d)
    \/ Skipped(rp, d[1])

\* What waiting_response lists is in flight, under that name, or was skipped.
Awaited(w, fl, rp, cl) ==
  \A n \in Names : \A id \in w[n] :
    \/ \E j \in fl : cl <= j.id /\ j.id = id /\ Answers(j, n)
    \/ Skipped(rp, id)

\* Who is queued or in flight has no outcome yet, the others have one.
Pending(q, fl, rp, cl) ==
  \A i \in q \cup fl : cl <= i.id => \A x \in Settled : <<i.id, x>> \notin rp
Finished(q, fl, rp, cl, nx) ==
  \A id \in Ids : cl <= id /\ id < nx /\ (\A i \in q \cup fl : i.id # id) =>
    \E x \in Settled : \A y \in Settled : <<id, y>> \in rp <=> y = x
Dated(rp, nx) == \A id \in Ids, x \in Outcomes : <<id, x>> \in rp => id < nx

Core(q, w, fl, rp, cl, nx) ==
  /\ Typed(q, w, fl, rp) /\ Single(q, fl) /\ Numbered(q, fl, cl, nx)
  /\ Alive(q, fl, rp, cl) /\ Awaited(w, fl, rp, cl)
  /\ Pending(q, fl, rp, cl) /\ Finished(q, fl, rp, cl, nx) /\ Dated(rp, nx)

IInv == TypeOK /\ cleared <= next /\ Core(queue, waiting, inflight, reports, cleared, next)

\* The types of the variables that Core says nothing about.
OtherTypes ==
  /\ known \subseteq Objects /\ synced \subseteq Objects /\ disturbed \subseteq Objects
  /\ twice \subseteq Objects
  /\ dequeueing \in BOOLEAN /\ halted \in BOOLEAN
  /\ loop \subseteq Ids
  /\ made \in [Objects -> 0..MaxItems]
  /\ serverRev \in [Objects -> Nat] /\ cloudRev \in [Objects -> Nat]
  /\ content \in [Objects -> [id : 0..MaxItems, kind : Kinds]]
  /\ next \in 1..MaxItems + 1 /\ cleared \in 0..MaxItems + 1 /\ faults \in 0..MaxFaults
  /\ logouts \subseteq 1..MaxItems + 1

-----------------------------------------------------------------------------
(* Failures and what depends on them. *)

\* handle_dependency_failure reaches everything that depends on what failed.
LEMMA DependentsClosed ==
  ASSUME NEW q, NEW D
  PROVE  Closed(q, D, Dependents(q, D))
<1> SUFFICES ASSUME NEW i \in q, DependsOn(i, D, Dependents(q, D)),
                    NEW T \in SUBSET q, Closed(q, D, T)
             PROVE  i \in T
  BY DEF Closed, Dependents
<1>1. Dependents(q, D) \subseteq T
  BY DEF Dependents
<1>2. DependsOn(i, D, T)
  BY <1>1 DEF DependsOn
<1> QED
  BY <1>2 DEF Closed

\* It reaches nothing that waits for nothing.
LEMMA DependentsWait ==
  ASSUME NEW q, NEW D
  PROVE  \A i \in Dependents(q, D) : i \in q /\ i.deps # {}
<1> DEFINE T == {i \in q : i.deps # {}}
<1>1. Closed(q, D, T)
  BY DEF Closed, DependsOn
<1> QED
  BY <1>1 DEF Dependents

\* Items that are left do not depend on D or on an item that failed with it.
LEMMA RestIndependent ==
  ASSUME NEW q, NEW D, NEW i \in q, i \notin Dependents(q, D), NEW d \in i.deps
  PROVE  d \notin D /\ \A t \in Dependents(q, D) : t.id # d[1]
<1>1. ~DependsOn(i, D, Dependents(q, D))
  BY DependentsClosed DEF Closed
<1> QED
  BY <1>1 DEF DependsOn

-----------------------------------------------------------------------------
(* What a call of dequeue() does: some items are sent, some are skipped    *)
(* and some fail, no item does two of these, and nothing that is left      *)
(* depends on an item that failed.                                         *)
Dequeues(q, w, fl, rp, sent, skip, fail) ==
  /\ sent \subseteq q /\ skip \subseteq q /\ fail \subseteq q
  /\ \A i \in sent : i \notin skip /\ i \notin fail
  /\ \A i \in skip : i \notin fail
  /\ \A i \in q : \A d \in i.deps : i \notin fail => \A j \in fail : j.id # d[1]
  /\ queue' = q \ (sent \cup skip \cup fail)
  /\ inflight' = fl \cup sent
  /\ waiting' \in [Names -> SUBSET Ids]
  /\ \A n \in Names : \A id \in waiting'[n] :
       \/ id \in w[n]
       \/ \E j \in sent : j.id = id /\ Answers(j, n)
       \/ \E j \in skip : j.id = id
  /\ reports' \subseteq Ids \X Outcomes
  /\ \A id, x : <<id, x>> \in reports' <=>
       \/ <<id, x>> \in rp
       \/ x = "failed" /\ \E i \in fail : i.id = id
       \/ x = "skipped" /\ \E i \in skip : i.id = id

LEMMA DequeueSteps ==
  ASSUME NEW on, NEW kn, NEW q, NEW w, NEW fl, NEW rp,
         Typed(q, w, fl, rp), Dequeue(on, kn, q, w, fl, rp)
  PROVE  \E sent, skip, fail : Dequeues(q, w, fl, rp, sent, skip, fail)
<1> DEFINE ready  == {i \in q : on /\ i.deps = {}}
           head   == First({i \in ready : Sendable(i, kn)})
           passed == {i \in ready : ~Sendable(i, kn) /\ \A h \in head : i.id < h.id}
           lost   == {i \in passed : i.kind = "update"}
           deps   == Dependents(q, Own(lost))
           failed == lost \cup deps
           skip   == passed \ lost
<1>1. /\ queue' = q \ (head \cup passed \cup failed)
      /\ inflight' = fl \cup head
      /\ waiting' = [n \in Names |->
                       w[n] \cup {i.id : i \in {j \in head \cup passed : n \in Awaits(j, kn)}}]
      /\ reports' = rp \cup {<<i.id, "failed">> : i \in failed}
                       \cup {<<i.id, "skipped">> : i \in passed \ lost}
  BY DEF Dequeue
<1>2. /\ head \subseteq q /\ \A i \in head : Sendable(i, kn) /\ i.deps = {}
      /\ passed \subseteq q /\ \A i \in passed : ~Sendable(i, kn) /\ i.deps = {}
  BY DEF First
<1>3. deps \subseteq q /\ \A i \in deps : i.deps # {}
  BY DependentsWait
<1> HIDE DEF head, passed, deps
<1>4. /\ head \subseteq q /\ skip \subseteq q /\ failed \subseteq q
      /\ \A i \in head : i \notin skip /\ i \notin failed
      /\ \A i \in skip : i \notin failed
  BY <1>2, <1>3
<1>5. ASSUME NEW i \in q, NEW d \in i.deps, i \notin failed, NEW j \in failed
      PROVE  j.id # d[1]
  <2>1. d \notin Own(lost) /\ \A t \in deps : t.id # d[1]
    BY <1>5, RestIndependent DEF deps
  <2>2. PICK id \in Ids, o \in Objects : d = <<id, o>>
    BY DEF Typed, Items, Dependencies
  <2>3. CASE j \in lost
    BY <2>1, <2>2, <2>3 DEF Own
  <2> QED
    BY <2>1, <2>3
<1>6. queue' = q \ (head \cup skip \cup failed)
  BY <1>1
<1>7. /\ waiting' \in [Names -> SUBSET Ids]
      /\ \A n \in Names : \A id \in waiting'[n] :
           \/ id \in w[n]
           \/ \E j \in head : j.id = id /\ Answers(j, n)
           \/ \E j \in skip : j.id = id
  <2>1. \A i \in q : i.id \in Ids
    BY DEF Typed, Items
  <2>2. \A n \in Names : {i.id : i \in {j \in head \cup passed : n \in Awaits(j, kn)}} \subseteq Ids
    BY <1>2, <2>1
  <2>3. waiting' \in [Names -> SUBSET Ids]
    BY <1>1, <2>2 DEF Typed
  <2>4. ASSUME NEW n \in Names, NEW j \in head, n \in Awaits(j, kn)
        PROVE  Answers(j, n)
    BY <2>4, <1>2 DEF Awaits, Answers, Sendable, Names
  <2>5. ASSUME NEW n \in Names, NEW j \in passed, n \in Awaits(j, kn)
        PROVE  j \in skip
    BY <2>5, <1>2 DEF Awaits
  <2>6. ASSUME NEW n \in Names, NEW id \in waiting'[n], id \notin w[n]
        PROVE  \E j \in head \cup passed : j.id = id /\ n \in Awaits(j, kn)
    BY <2>6, <1>1
  <2> QED
    BY <2>3, <2>4, <2>5, <2>6
<1>8. /\ reports' \subseteq Ids \X Outcomes
      /\ \A id, x : <<id, x>> \in reports' <=>
           \/ <<id, x>> \in rp
           \/ x = "failed" /\ \E i \in failed : i.id = id
           \/ x = "skipped" /\ \E i \in skip : i.id = id
  <2>1. \A i \in q : i.id \in Ids
    BY DEF Typed, Items
  <2> HIDE DEF failed, skip
  <2>2. reports' = rp \cup {<<i.id, "failed">> : i \in failed}
                     \cup {<<i.id, "skipped">> : i \in skip}
    BY <1>1 DEF skip
  <2> QED
    BY <1>4, <2>1, <2>2 DEF Typed, Outcomes
<1> HIDE DEF failed, skip
<1>9. Dequeues(q, w, fl, rp, head, skip, failed)
  BY <1>1, <1>4, <1>5, <1>6, <1>7, <1>8 DEF Dequeues
<1> QED
  BY <1>9

\* dequeue() keeps the invariant of what it is given.
LEMMA DequeueCore ==
  ASSUME NEW on, NEW kn, NEW q, NEW w, NEW fl, NEW rp, NEW cl \in Nat, NEW nx \in Nat,
         Core(q, w, fl, rp, cl, nx), Dequeue(on, kn, q, w, fl, rp)
  PROVE  Core(queue', waiting', inflight', reports', cl, nx)
<1>1. PICK sent, skip, fail : Dequeues(q, w, fl, rp, sent, skip, fail)
  BY DequeueSteps DEF Core
<1>2. /\ sent \subseteq q /\ skip \subseteq q /\ fail \subseteq q
      /\ \A i \in sent : i \notin skip /\ i \notin fail
      /\ \A i \in skip : i \notin fail
      /\ \A i \in q : \A d \in i.deps : i \notin fail => \A j \in fail : j.id # d[1]
  BY <1>1 DEF Dequeues
<1>3. queue' = q \ (sent \cup skip \cup fail) /\ inflight' = fl \cup sent
  BY <1>1 DEF Dequeues
<1>4. /\ waiting' \in [Names -> SUBSET Ids]
      /\ \A n \in Names : \A id \in waiting'[n] :
           \/ id \in w[n]
           \/ \E j \in sent : j.id = id /\ Answers(j, n)
           \/ \E j \in skip : j.id = id
  BY <1>1 DEF Dequeues
<1>5. /\ reports' \subseteq Ids \X Outcomes
      /\ \A id, x : <<id, x>> \in reports' <=>
           \/ <<id, x>> \in rp
           \/ x = "failed" /\ \E i \in fail : i.id = id
           \/ x = "skipped" /\ \E i \in skip : i.id = id
  BY <1>1 DEF Dequeues
<1>6. /\ Typed(q, w, fl, rp) /\ Single(q, fl) /\ Numbered(q, fl, cl, nx)
      /\ Alive(q, fl, rp, cl) /\ Awaited(w, fl, rp, cl)
      /\ Pending(q, fl, rp, cl) /\ Finished(q, fl, rp, cl, nx) /\ Dated(rp, nx)
  BY DEF Core
<1>7. Typed(queue', waiting', inflight', reports')
  BY <1>2, <1>3, <1>4, <1>5, <1>6 DEF Typed
<1>8. Single(queue', inflight')
  BY <1>2, <1>3, <1>6 DEF Single
<1>9. Numbered(queue', inflight', cl, nx)
  BY <1>2, <1>3, <1>6 DEF Numbered
<1>10. Alive(queue', inflight', reports', cl)
  <2> SUFFICES ASSUME NEW i \in queue', NEW d \in i.deps
               PROVE  \/ \E j \in queue' : Provides(j, d)
                      \/ \E j \in inflight' : cl <= j.id /\ Provides(j, d)
                      \/ Skipped(reports', d[1])
    BY DEF Alive
  <2>1. \/ \E j \in q : Provides(j, d)
        \/ \E j \in fl : cl <= j.id /\ Provides(j, d)
        \/ Skipped(rp, d[1])
    BY <1>3, <1>6 DEF Alive
  <2>2. CASE \E j \in q : Provides(j, d)
    <3>1. PICK j \in q : Provides(j, d)
      BY <2>2
    <3>2. j \notin fail
      BY <1>2, <1>3, <3>1 DEF Provides
    <3>3. CASE j \in sent
      BY <1>3, <1>6, <3>1, <3>3 DEF Numbered
    <3>4. CASE j \in skip
      BY <1>5, <3>1, <3>4 DEF Skipped, Provides
    <3> QED
      BY <1>3, <3>1, <3>2, <3>3, <3>4
  <2> QED
    BY <1>3, <1>5, <2>1, <2>2 DEF Skipped
<1>11. Awaited(waiting', inflight', reports', cl)
  <2> SUFFICES ASSUME NEW n \in Names, NEW id \in waiting'[n]
               PROVE  \/ \E j \in inflight' : cl <= j.id /\ j.id = id /\ Answers(j, n)
                      \/ Skipped(reports', id)
    BY DEF Awaited
  <2>1. CASE id \in w[n]
    BY <1>3, <1>5, <1>6, <2>1 DEF Awaited, Skipped
  <2>2. CASE \E j \in sent : j.id = id /\ Answers(j, n)
    BY <1>2, <1>3, <1>6, <2>2 DEF Numbered
  <2>3. CASE \E j \in skip : j.id = id
    BY <1>5, <2>3 DEF Skipped
  <2> QED
    BY <1>4, <2>1, <2>2, <2>3
<1>12. Pending(queue', inflight', reports', cl)
  <2> SUFFICES ASSUME NEW i \in queue' \cup inflight', cl <= i.id, NEW x \in Settled
               PROVE  <<i.id, x>> \notin reports'
    BY DEF Pending
  <2>1. <<i.id, x>> \notin rp
    BY <1>2, <1>3, <1>6 DEF Pending
  <2>2. ASSUME NEW j \in fail \cup skip PROVE j.id # i.id
    BY <1>2, <1>3, <1>6, <2>2 DEF Numbered
  <2> QED
    BY <1>5, <2>1, <2>2
<1>13. Finished(queue', inflight', reports', cl, nx)
  <2> SUFFICES ASSUME NEW id \in Ids, cl <= id, id < nx,
                      \A i \in queue' \cup inflight' : i.id # id
               PROVE  \E x \in Settled : \A y \in Settled : <<id, y>> \in reports' <=> y = x
    BY DEF Finished
  <2>1. CASE \A i \in q \cup fl : i.id # id
    <3>1. PICK x \in Settled : \A y \in Settled : <<id, y>> \in rp <=> y = x
      BY <1>6, <2>1 DEF Finished
    <3>2. \A y \in Settled : <<id, y>> \in reports' <=> <<id, y>> \in rp
      BY <1>2, <1>5, <2>1
    <3> QED
      BY <3>1, <3>2
  <2>2. CASE ~\A i \in q \cup fl : i.id # id
    <3>1. PICK i \in skip \cup fail : i.id = id
      BY <1>2, <1>3, <2>2
    <3>2. \A j \in q : j.id = id => j = i
      BY <1>2, <1>6, <3>1 DEF Numbered
    <3>3. \A y \in Settled : <<id, y>> \notin rp
      BY <1>2, <1>6, <3>1 DEF Pending
    <3>4. CASE i \in fail
      <4>1. \A y \in Settled : <<id, y>> \in reports' <=> y = "failed"
        BY <1>2, <1>5, <3>1, <3>2, <3>3, <3>4
      <4> QED
        BY <4>1 DEF Settled, Outcomes
    <3>5. CASE i \in skip
      <4>1. \A y \in Settled : <<id, y>> \in reports' <=> y = "skipped"
        BY <1>2, <1>5, <3>1, <3>2, <3>3, <3>5
      <4> QED
        BY <4>1 DEF Settled, Outcomes
    <3> QED
      BY <3>1, <3>4, <3>5
  <2> QED
    BY <2>1, <2>2
<1>14. Dated(reports', nx)
  BY <1>2, <1>5, <1>6 DEF Dated, Numbered
<1> QED
  BY <1>7, <1>8, <1>9, <1>10, <1>11, <1>12, <1>13, <1>14 DEF Core

-----------------------------------------------------------------------------
(* Enqueueing: what an item is made to wait for is there. *)

Known(q, fl, rp, cl, d) ==
  \/ \E j \in q : Provides(j, d)
  \/ \E j \in fl : cl <= j.id /\ Provides(j, d)
  \/ Skipped(rp, d[1])

\* get_items_with_object_id names items that are queued, in flight or skipped.
LEMMA ItemsFound ==
  ASSUME NEW q, NEW w, NEW fl, NEW rp, NEW cl, NEW n \in Names,
         Typed(q, w, fl, rp), Awaited(w, fl, rp, cl),
         NEW d \in ItemsWithObjectId(q, w, n)
  PROVE  d \in Dependencies /\ Known(q, fl, rp, cl, d)
<1>1. n[1] \in {"client", "server"} /\ n[2] \in Objects
  BY DEF Names
<1>2. CASE \E j \in q : n \in Touches(j) /\ d = <<j.id, n[2]>>
  <2>1. PICK j \in q : n \in Touches(j) /\ d = <<j.id, n[2]>>
    BY <1>2
  <2>2. j.kind # "action" /\ n[2] \in j.objs
    BY <1>1, <2>1 DEF Touches
  <2>3. j.id \in Ids
    BY DEF Typed, Items
  <2> QED
    BY <1>1, <2>1, <2>2, <2>3 DEF Provides, Known, Dependencies
<1>3. CASE \E id \in w[n] : d = <<id, n[2]>>
  <2>1. PICK id \in w[n] : d = <<id, n[2]>>
    BY <1>3
  <2>2. id \in Ids
    BY <2>1 DEF Typed
  <2>3. \/ \E j \in fl : cl <= j.id /\ j.id = id /\ Answers(j, n)
        \/ Skipped(rp, id)
    BY <2>1 DEF Awaited
  <2> QED
    BY <1>1, <2>1, <2>2, <2>3 DEF Answers, Provides, Known, Dependencies
<1> QED
  BY <1>2, <1>3 DEF ItemsWithObjectId

LEMMA DependenciesFound ==
  ASSUME NEW q, NEW w, NEW fl, NEW rp, NEW cl, NEW i \in Items,
         Typed(q, w, fl, rp), Awaited(w, fl, rp, cl),
         NEW d \in InferredDependencies(q, w, i)
  PROVE  d \in Dependencies /\ Known(q, fl, rp, cl, d)
<1>1. i.objs \subseteq Objects /\ i.name \in {"client", "server"} /\ i.refs \subseteq Objects
  BY DEF Items, Objects
<1>2. ASSUME NEW o \in i.objs, d \in UpdateDependencies(q, w, <<i.name, o>>)
      PROVE  \E n \in Names : d \in ItemsWithObjectId(q, w, n)
  <2>1. <<i.name, o>> \in Names /\ OtherName(<<i.name, o>>) \in Names
    BY <1>1, <1>2 DEF Names, OtherName
  <2> QED
    BY <1>2, <2>1 DEF UpdateDependencies
<1>3. ASSUME NEW e \in Unresolved(i.refs), d \in ItemsWithObjectId(q, w, <<"client", e>>)
      PROVE  \E n \in Names : d \in ItemsWithObjectId(q, w, n)
  <2>1. <<"client", e>> \in Names
    BY <1>1, <1>3 DEF Names, Unresolved
  <2> QED
    BY <1>3, <2>1
<1>4. PICK n \in Names : d \in ItemsWithObjectId(q, w, n)
  BY <1>2, <1>3 DEF InferredDependencies
<1> QED
  BY <1>4, ItemsFound

\* An item, its objects and its kind fit together.
WellMade(i) ==
  /\ i \in Items
  /\ i.objs \subseteq Folders => i.rev = 0
  /\ IF i.kind = "bulk" THEN i.rev = 0 ELSE \E o \in Objects : i.objs = {o}

\* enqueue, up to its call of dequeue().
LEMMA EnqueueCore ==
  ASSUME NEW q, NEW w, NEW fl, NEW rp, NEW cl \in Nat, NEW nx \in Ids, cl <= nx,
         Core(q, w, fl, rp, cl, nx),
         NEW i, WellMade(i), i.id = nx, NEW rp2 \in SUBSET {<<nx, "unresolved">>},
         \A d \in i.deps : Known(q, fl, rp, cl, d)
  PROVE  Core(q \cup {i}, w, fl, rp \cup rp2, cl, nx + 1)
<1> DEFINE q2 == q \cup {i}
<1>1. /\ Typed(q, w, fl, rp) /\ Single(q, fl) /\ Numbered(q, fl, cl, nx)
      /\ Alive(q, fl, rp, cl) /\ Awaited(w, fl, rp, cl)
      /\ Pending(q, fl, rp, cl) /\ Finished(q, fl, rp, cl, nx) /\ Dated(rp, nx)
  BY DEF Core
<1>2. nx \in Nat /\ \A j \in q \cup fl : j.id \in Nat
  BY <1>1, ConstantsAssumption DEF Ids, Typed, Items
<1>3. \A id : \A x \in Settled : <<id, x>> \in rp \cup rp2 <=> <<id, x>> \in rp
  BY DEF Settled
<1>4. Typed(q2, w, fl, rp \cup rp2)
  BY <1>1 DEF Typed, WellMade, Outcomes
<1>5. Single(q2, fl)
  BY <1>1 DEF Single, WellMade
<1>6. Numbered(q2, fl, cl, nx + 1)
  BY <1>1, <1>2 DEF Numbered
<1>7. Alive(q2, fl, rp \cup rp2, cl)
  BY <1>1 DEF Alive, Known, Skipped
<1>8. Awaited(w, fl, rp \cup rp2, cl)
  BY <1>1 DEF Awaited, Skipped
<1>9. Pending(q2, fl, rp \cup rp2, cl)
  <2>1. \A x \in Settled : <<i.id, x>> \notin rp
    BY <1>1, <1>2 DEF Dated, Settled
  <2> QED
    BY <1>1, <1>3, <2>1 DEF Pending
<1>10. Finished(q2, fl, rp \cup rp2, cl, nx + 1)
  <2> SUFFICES ASSUME NEW id \in Ids, cl <= id, id < nx + 1,
                      \A j \in q2 \cup fl : j.id # id
               PROVE  \E x \in Settled : \A y \in Settled : <<id, y>> \in rp \cup rp2 <=> y = x
    BY DEF Finished
  <2>1. id < nx
    BY <1>2, ConstantsAssumption DEF Ids
  <2> QED
    BY <1>1, <1>3, <2>1 DEF Finished
<1>11. Dated(rp \cup rp2, nx + 1)
  BY <1>1, <1>2, ConstantsAssumption DEF Dated, Ids
<1> QED
  BY <1>4, <1>5, <1>6, <1>7, <1>8, <1>9, <1>10, <1>11 DEF Core

-----------------------------------------------------------------------------
(* Answers, up to their call of dequeue(). *)

Same(i, j) == i.id = j.id /\ i.kind = j.kind /\ i.objs = j.objs

\* Of the request r, the objects in left are still to be handled; x is what is
\* emitted when none is.
LEMMA AnswerCore ==
  ASSUME NEW q, NEW w, NEW fl, NEW rp, NEW cl \in Nat, NEW nx \in Nat,
         Core(q, w, fl, rp, cl, nx),
         NEW r \in fl, NEW left \in SUBSET Objects, left # {} => r.kind = "bulk",
         NEW x \in Settled, NEW q2, NEW w2 \in [Names -> SUBSET Ids],
         \A i \in q2 : WellMade(i),
         \A i, j \in q2 : i.id = j.id => i = j,
         \A i \in q2 : \E j \in q : Same(i, j) /\ i.deps \subseteq j.deps,
         \A j \in q : \E i \in q2 : Same(i, j),
         \A i \in q2 : \A d \in i.deps : Provides(r, d) => d[2] \in left,
         \A n \in Names : w2[n] \subseteq w[n],
         \A n \in Names : r.id \in w2[n] /\ Answers(r, n) => n[2] \in left
  PROVE  Core(q2, w2, (fl \ {r}) \cup (IF left = {} THEN {} ELSE {[r EXCEPT !.objs = left]}),
              rp \cup (IF left = {} THEN {<<r.id, x>>} ELSE {}), cl, nx)
<1> DEFINE fl2 == (fl \ {r}) \cup (IF left = {} THEN {} ELSE {[r EXCEPT !.objs = left]})
           rp2 == rp \cup (IF left = {} THEN {<<r.id, x>>} ELSE {})
<1>1. /\ Typed(q, w, fl, rp) /\ Single(q, fl) /\ Numbered(q, fl, cl, nx)
      /\ Alive(q, fl, rp, cl) /\ Awaited(w, fl, rp, cl)
      /\ Pending(q, fl, rp, cl) /\ Finished(q, fl, rp, cl, nx) /\ Dated(rp, nx)
  BY DEF Core
<1>2. r \in Items /\ r.id \in Ids
  BY <1>1 DEF Typed, Items
<1>3. ASSUME left # {}
      PROVE  LET s == [r EXCEPT !.objs = left]
             IN s \in Items /\ s.id = r.id /\ s.kind = "bulk" /\ s.objs = left /\ s.rev = 0
  <2>1. r.kind = "bulk" /\ r.rev = 0
    BY <1>1, <1>3 DEF Single
  <2> QED
    BY <1>2, <2>1 DEF Items
<1>4. \A j \in fl2 : \/ j \in fl /\ j # r
                     \/ /\ left # {} /\ j \in Items /\ j.id = r.id /\ j.kind = "bulk"
                        /\ j.objs = left /\ j.rev = 0
  BY <1>3
<1>5. /\ \A j \in fl : j # r => j \in fl2
      /\ left # {} => \E j \in fl2 : j.id = r.id /\ j.kind = "bulk" /\ j.objs = left
  BY <1>3
<1>6. /\ \A id, y : <<id, y>> \in rp2 <=> <<id, y>> \in rp \/ (left = {} /\ id = r.id /\ y = x)
      /\ x # "unresolved" /\ rp2 \subseteq Ids \X Outcomes
  BY <1>1, <1>2 DEF Settled, Typed
<1> HIDE DEF fl2, rp2
<1>7. Typed(q2, w2, fl2, rp2)
  BY <1>1, <1>4, <1>6 DEF Typed, WellMade
<1>8. Single(q2, fl2)
  BY <1>1, <1>4 DEF Single, WellMade
<1>9. Numbered(q2, fl2, cl, nx)
  <2>1. \A i, j \in fl2 : i.id = j.id => i = j
    <3> DEFINE s == [r EXCEPT !.objs = left]
    <3>1. \A j \in fl : j.id = r.id => j = r
      BY <1>1 DEF Numbered
    <3>2. \A j \in fl2 : (j \in fl /\ j # r) \/ (j = s /\ j.id = r.id)
      BY <1>3 DEF fl2
    <3> HIDE DEF s
    <3> QED
      BY <1>1, <3>1, <3>2 DEF Numbered
  <2>2. \A i \in fl2 : \E j \in fl : i.id = j.id
    BY <1>4
  <2> QED
    BY <1>1, <2>1, <2>2 DEF Numbered, Same
<1>10. Alive(q2, fl2, rp2, cl)
  <2> SUFFICES ASSUME NEW i \in q2, NEW d \in i.deps
               PROVE  \/ \E j \in q2 : Provides(j, d)
                      \/ \E j \in fl2 : cl <= j.id /\ Provides(j, d)
                      \/ Skipped(rp2, d[1])
    BY DEF Alive
  <2>1. \/ \E j \in q : Provides(j, d)
        \/ \E j \in fl : cl <= j.id /\ Provides(j, d)
        \/ Skipped(rp, d[1])
    BY <1>1 DEF Alive
  <2>2. CASE \E j \in q : Provides(j, d)
    BY <2>2 DEF Provides, Same
  <2>3. CASE \E j \in fl : cl <= j.id /\ Provides(j, d)
    <3>1. PICK j \in fl : cl <= j.id /\ Provides(j, d)
      BY <2>3
    <3>2. CASE j = r
      BY <1>5, <3>1, <3>2 DEF Provides
    <3> QED
      BY <1>5, <3>1, <3>2
  <2>4. CASE Skipped(rp, d[1])
    BY <1>6, <2>4 DEF Skipped
  <2> QED
    BY <2>1, <2>2, <2>3, <2>4
<1>11. Awaited(w2, fl2, rp2, cl)
  <2> SUFFICES ASSUME NEW n \in Names, NEW id \in w2[n]
               PROVE  \/ \E j \in fl2 : cl <= j.id /\ j.id = id /\ Answers(j, n)
                      \/ Skipped(rp2, id)
    BY DEF Awaited
  <2>1. \/ \E j \in fl : cl <= j.id /\ j.id = id /\ Answers(j, n)
        \/ Skipped(rp, id)
    BY <1>1 DEF Awaited
  <2>2. CASE \E j \in fl : cl <= j.id /\ j.id = id /\ Answers(j, n)
    <3>1. PICK j \in fl : cl <= j.id /\ j.id = id /\ Answers(j, n)
      BY <2>2
    <3>2. CASE j = r
      BY <1>5, <3>1, <3>2 DEF Answers
    <3> QED
      BY <1>5, <3>1, <3>2
  <2>3. CASE Skipped(rp, id)
    BY <1>6, <2>3 DEF Skipped
  <2> QED
    BY <2>1, <2>2, <2>3
<1>12. Pending(q2, fl2, rp2, cl)
  <2> SUFFICES ASSUME NEW i \in q2 \cup fl2, cl <= i.id, NEW y \in Settled
               PROVE  <<i.id, y>> \notin rp2
    BY DEF Pending
  <2>1. PICK j \in q \cup fl : j.id = i.id
    BY <1>4 DEF Same
  <2>2. <<i.id, y>> \notin rp
    BY <1>1, <2>1 DEF Pending
  <2>3. i.id = r.id => left # {}
    BY <1>1, <1>4 DEF Numbered, Same
  <2> QED
    BY <1>6, <2>2, <2>3
<1>13. Finished(q2, fl2, rp2, cl, nx)
  <2> SUFFICES ASSUME NEW id \in Ids, cl <= id, id < nx,
                      \A i \in q2 \cup fl2 : i.id # id
               PROVE  \E y \in Settled : \A z \in Settled : <<id, z>> \in rp2 <=> z = y
    BY DEF Finished
  <2>1. CASE id = r.id
    BY <1>1, <1>5, <1>6, <2>1 DEF Pending
  <2>2. CASE id # r.id
    <3>1. \A i \in q \cup fl : i.id # id
      BY <1>5, <2>2 DEF Same
    <3>2. PICK y \in Settled : \A z \in Settled : <<id, z>> \in rp <=> z = y
      BY <1>1, <3>1 DEF Finished
    <3> QED
      BY <1>6, <2>2, <3>2
  <2> QED
    BY <2>1, <2>2
<1>14. Dated(rp2, nx)
  BY <1>1, <1>6 DEF Dated, Numbered
<1> QED
  BY <1>7, <1>8, <1>9, <1>10, <1>11, <1>12, <1>13, <1>14 DEF Core, fl2, rp2

\* What depends on what failed fails with it.
LEMMA LossCore ==
  ASSUME NEW q, NEW w, NEW fl, NEW rp, NEW cl \in Nat, NEW nx \in Nat,
         Core(q, w, fl, rp, cl, nx), NEW D
  PROVE  Core(q \ Dependents(q, D), w, fl,
              rp \cup {<<i.id, "failed">> : i \in Dependents(q, D)}, cl, nx)
<1> DEFINE lost == Dependents(q, D)
           rp2 == rp \cup {<<i.id, "failed">> : i \in lost}
<1>1. /\ Typed(q, w, fl, rp) /\ Single(q, fl) /\ Numbered(q, fl, cl, nx)
      /\ Alive(q, fl, rp, cl) /\ Awaited(w, fl, rp, cl)
      /\ Pending(q, fl, rp, cl) /\ Finished(q, fl, rp, cl, nx) /\ Dated(rp, nx)
  BY DEF Core
<1>2. /\ lost \subseteq q
      /\ \A i \in q \ lost : \A d \in i.deps : \A t \in lost : t.id # d[1]
  BY DependentsWait, RestIndependent
<1> HIDE DEF lost
<1>3. /\ \A id, y : <<id, y>> \in rp2 <=>
           <<id, y>> \in rp \/ (y = "failed" /\ \E i \in lost : i.id = id)
      /\ rp2 \subseteq Ids \X Outcomes
  BY <1>1, <1>2 DEF Typed, Items, Outcomes
<1> HIDE DEF rp2
<1>4. Typed(q \ lost, w, fl, rp2) /\ Single(q \ lost, fl) /\ Numbered(q \ lost, fl, cl, nx)
  BY <1>1, <1>2, <1>3 DEF Typed, Single, Numbered
<1>5. Alive(q \ lost, fl, rp2, cl)
  BY <1>1, <1>2, <1>3 DEF Alive, Provides, Skipped
<1>6. Awaited(w, fl, rp2, cl)
  BY <1>1, <1>3 DEF Awaited, Skipped
<1>7. Pending(q \ lost, fl, rp2, cl)
  BY <1>1, <1>2, <1>3 DEF Pending, Numbered
<1>8. Finished(q \ lost, fl, rp2, cl, nx)
  <2> SUFFICES ASSUME NEW id \in Ids, cl <= id, id < nx,
                      \A i \in (q \ lost) \cup fl : i.id # id
               PROVE  \E y \in Settled : \A z \in Settled : <<id, z>> \in rp2 <=> z = y
    BY DEF Finished
  <2>1. CASE \E i \in lost : i.id = id
    <3>1. \A z \in Settled : <<id, z>> \in rp2 <=> z = "failed"
      BY <1>1, <1>2, <1>3, <2>1 DEF Pending
    <3> QED
      BY <3>1 DEF Settled, Outcomes
  <2>2. CASE ~\E i \in lost : i.id = id
    <3>1. PICK y \in Settled : \A z \in Settled : <<id, z>> \in rp <=> z = y
      BY <1>1, <2>2 DEF Finished
    <3> QED
      BY <1>3, <2>2, <3>1
  <2> QED
    BY <2>1, <2>2
<1>9. Dated(rp2, nx)
  BY <1>1, <1>2, <1>3 DEF Dated, Numbered
<1> QED
  BY <1>4, <1>5, <1>6, <1>7, <1>8, <1>9 DEF Core, lost, rp2

-----------------------------------------------------------------------------
(* What the handlers of answers make of the queue. *)

\* The items of queue, in their places, not waiting for d any more.
Trims(q2, d) ==
  /\ \A i \in q2 : WellMade(i)
  /\ \A i, j \in q2 : i.id = j.id => i = j
  /\ \A i \in q2 : \E j \in queue : Same(i, j) /\ i.deps \subseteq j.deps \ {d}
  /\ \A j \in queue : \E i \in q2 : Same(i, j)

LEMMA QueueWellMade ==
  ASSUME IInv
  PROVE  /\ \A i \in queue \cup inflight : WellMade(i)
         /\ \A i, j \in queue : i.id = j.id => i = j
<1> QED
  BY DEF IInv, Core, Typed, Single, Numbered, WellMade

LEMMA FreedTrims ==
  ASSUME IInv, NEW d
  PROVE  Trims(Freed(queue, d), d)
<1> DEFINE g(i) == [i EXCEPT !.deps = @ \ {d}]
<1>1. ASSUME NEW i \in queue
      PROVE  WellMade(g(i)) /\ Same(g(i), i) /\ g(i).deps = i.deps \ {d}
  <2>1. WellMade(i)
    BY QueueWellMade
  <2>2. g(i) \in Items /\ Same(g(i), i) /\ g(i).rev = i.rev /\ g(i).deps = i.deps \ {d}
    BY <2>1 DEF WellMade, Items, Same
  <2> HIDE DEF g
  <2> QED
    BY <2>1, <2>2 DEF WellMade, Same
<1>2. Freed(queue, d) = {g(i) : i \in queue}
  BY DEF Freed
<1> HIDE DEF g
<1> QED
  BY <1>1, <1>2, QueueWellMade DEF Trims, Same

LEMMA RefreshedRevision ==
  ASSUME NEW i, WellMade(i), NEW o, NEW rev \in Nat, NEW kn
  PROVE  LET v == Refreshed(i, o, rev, kn)
         IN v \in Nat /\ (i.objs \subseteq Folders => v = 0) /\ (i.kind = "bulk" => v = 0)
<1> QED
  BY DEF WellMade, Refreshed, Items

LEMMA CreatedTrims ==
  ASSUME IInv, NEW r, NEW o, NEW rev \in Nat
  PROVE  Trims(Created(r, o, rev), <<r.id, o>>)
<1> DEFINE d == <<r.id, o>>
           v(i) == Refreshed(i, o, rev, known \cup {o})
           refs(i) == IF r.kind = "create" /\ d \in i.deps THEN i.refs \ {o} ELSE i.refs
           g(i) == [i EXCEPT !.deps = @ \ {d}, !.rev = v(i), !.refs = refs(i)]
<1>1. ASSUME NEW i \in queue
      PROVE  WellMade(g(i)) /\ Same(g(i), i) /\ g(i).deps = i.deps \ {d}
  <2>1. WellMade(i)
    BY QueueWellMade
  <2>2. v(i) \in Nat /\ (i.objs \subseteq Folders => v(i) = 0) /\ (i.kind = "bulk" => v(i) = 0)
    BY <2>1, RefreshedRevision
  <2>3. refs(i) \subseteq Enums
    BY <2>1 DEF WellMade, Items
  <2> HIDE DEF v, refs
  <2>4. g(i) \in Items /\ Same(g(i), i) /\ g(i).rev = v(i) /\ g(i).deps = i.deps \ {d}
    BY <2>1, <2>2, <2>3 DEF WellMade, Items, Same
  <2> HIDE DEF g
  <2> QED
    BY <2>1, <2>2, <2>4 DEF WellMade, Same
<1>2. Created(r, o, rev) = {g(i) : i \in queue}
  BY DEF Created
<1> HIDE DEF g
<1> QED
  BY <1>1, <1>2, QueueWellMade DEF Trims, Same

LEMMA UpdatedTrims ==
  ASSUME IInv, NEW d, NEW o, NEW rev \in Nat
  PROVE  Trims({[i EXCEPT !.rev = Refreshed(i, o, rev, known)] : i \in Freed(queue, d)}, d)
<1> DEFINE v(i) == Refreshed(i, o, rev, known)
           g(i) == [i EXCEPT !.rev = v(i)]
<1>1. Trims(Freed(queue, d), d)
  BY FreedTrims
<1>2. ASSUME NEW i \in Freed(queue, d)
      PROVE  WellMade(g(i)) /\ Same(g(i), i) /\ g(i).deps = i.deps
  <2>1. WellMade(i)
    BY <1>1 DEF Trims
  <2>2. v(i) \in Nat /\ (i.objs \subseteq Folders => v(i) = 0) /\ (i.kind = "bulk" => v(i) = 0)
    BY <2>1, RefreshedRevision
  <2> HIDE DEF v
  <2>3. g(i) \in Items /\ Same(g(i), i) /\ g(i).rev = v(i) /\ g(i).deps = i.deps
    BY <2>1, <2>2 DEF WellMade, Items, Same
  <2> HIDE DEF g
  <2> QED
    BY <2>1, <2>2, <2>3 DEF WellMade, Same
<1> HIDE DEF g
<1>3. Trims({g(i) : i \in Freed(queue, d)}, d)
  BY <1>1, <1>2 DEF Trims, Same
<1> QED
  BY <1>3 DEF g

\* Every answer about one object of a creation or an update.
LEMMA ObjectAnswered ==
  ASSUME IInv, NEW r \in inflight, r.kind # "action", NEW o \in r.objs, NEW x \in Settled,
         NEW q2, Trims(q2, <<r.id, o>>)
  PROVE  LET left == r.objs \ {o}
         IN Core(q2, Answered(r, o),
                 (inflight \ {r}) \cup (IF left = {} THEN {} ELSE {[r EXCEPT !.objs = left]}),
                 reports \cup (IF left = {} THEN {<<r.id, x>>} ELSE {}), cleared, next)
<1> DEFINE left == r.objs \ {o}
           w2 == Answered(r, o)
           n0 == <<IF r.kind = "update" THEN "server" ELSE "client", o>>
<1>1. /\ Core(queue, waiting, inflight, reports, cleared, next)
      /\ cleared \in Nat /\ next \in Nat
      /\ waiting \in [Names -> SUBSET Ids]
      /\ \A i \in queue : i.deps \subseteq Dependencies
  BY ConstantsAssumption DEF IInv, TypeOK, Items
<1>2. WellMade(r) /\ o \in Objects /\ left \in SUBSET Objects
  BY QueueWellMade DEF WellMade, Items
<1>3. left # {} => r.kind = "bulk"
  BY <1>2 DEF WellMade
<1>4. w2 = [waiting EXCEPT ![n0] = @ \ {r.id}] /\ n0 \in Names
  BY <1>2 DEF Answered, Names
<1> HIDE DEF w2
<1>5. /\ w2 \in [Names -> SUBSET Ids]
      /\ \A n \in Names : w2[n] \subseteq waiting[n]
      /\ r.id \notin w2[n0]
  <2> HIDE DEF n0
  <2> QED
    BY <1>1, <1>4
<1>6. ASSUME NEW n \in Names, r.id \in w2[n], Answers(r, n)
      PROVE  n[2] \in left
  BY <1>5, <1>6 DEF Answers, Names
<1>7. ASSUME NEW i \in q2, NEW d \in i.deps, Provides(r, d)
      PROVE  d[2] \in left
  BY <1>1, <1>7 DEF Trims, Provides, Dependencies
<1>8. /\ \A i \in q2 : WellMade(i)
      /\ \A i, j \in q2 : i.id = j.id => i = j
      /\ \A i \in q2 : \E j \in queue : Same(i, j) /\ i.deps \subseteq j.deps
      /\ \A j \in queue : \E i \in q2 : Same(i, j)
  BY DEF Trims
<1> HIDE DEF left
<1>9. Core(q2, w2, (inflight \ {r}) \cup (IF left = {} THEN {} ELSE {[r EXCEPT !.objs = left]}),
           reports \cup (IF left = {} THEN {<<r.id, x>>} ELSE {}), cleared, next)
  BY <1>1, <1>2, <1>3, <1>5, <1>6, <1>7, <1>8, AnswerCore
<1> QED
  BY <1>9 DEF left, w2

\* The answer to a request about one object.
LEMMA RequestAnswered ==
  ASSUME IInv, NEW r \in inflight, r.kind \in {"create", "update"}, NEW o \in r.objs,
         NEW x \in Settled, NEW q2, Trims(q2, <<r.id, o>>)
  PROVE  Core(q2, Answered(r, o), inflight \ {r}, reports \cup {<<r.id, x>>}, cleared, next)
<1>1. r.objs \ {o} = {}
  BY QueueWellMade DEF WellMade
<1>2. r.kind # "action"
  OBVIOUS
<1> DEFINE left == r.objs \ {o}
<1>3. Core(q2, Answered(r, o),
           (inflight \ {r}) \cup (IF left = {} THEN {} ELSE {[r EXCEPT !.objs = left]}),
           reports \cup (IF left = {} THEN {<<r.id, x>>} ELSE {}), cleared, next)
  BY <1>2, ObjectAnswered
<1>4. /\ (inflight \ {r}) \cup (IF left = {} THEN {} ELSE {[r EXCEPT !.objs = left]}) = inflight \ {r}
      /\ reports \cup (IF left = {} THEN {<<r.id, x>>} ELSE {}) = reports \cup {<<r.id, x>>}
  BY <1>1
<1> QED
  BY <1>3, <1>4

-----------------------------------------------------------------------------
(* The steps of the client. *)

LEMMA InvariantParts ==
  IInv => /\ OtherTypes /\ Core(queue, waiting, inflight, reports, cleared, next)
          /\ cleared \in Nat /\ next \in Nat /\ cleared <= next
<1> QED
  BY ConstantsAssumption DEF IInv, TypeOK, OtherTypes

LEMMA PartsAfter ==
  ASSUME OtherTypes', cleared' <= next',
         Core(queue', waiting', inflight', reports', cleared', next')
  PROVE  IInv'
<1>1. Typed(queue', waiting', inflight', reports')
  BY DEF Core
<1>2. TypeOK'
  BY <1>1 DEF Typed, TypeOK, OtherTypes
<1> QED
  BY <1>2 DEF IInv

\* An item as it is queued, with what it waits for and what is left of its references.
Queued(i, refs) == [i EXCEPT !.refs = refs, !.deps = InferredDependencies(queue, waiting, i)]

\* What enqueue hands to dequeue().
LEMMA EnqueueHands ==
  ASSUME IInv, NEW i, WellMade(i), i.id = next, next <= MaxItems, Enqueue(i)
  PROVE  \E refs, rp2 :
           /\ rp2 \subseteq {<<next, "unresolved">>} /\ (rp2 # {} => i.refs # {})
           /\ WellMade(Queued(i, refs))
           /\ Core(queue \cup {Queued(i, refs)}, waiting, inflight, reports \cup rp2, cleared, next + 1)
           /\ Dequeue(dequeueing, known, queue \cup {Queued(i, refs)}, waiting, inflight,
                      reports \cup rp2)
<1> DEFINE missing == Missing(queue, waiting, i.refs) # {}
           rp2 == IF missing THEN {<<i.id, "unresolved">>} ELSE {}
<1>1. PICK refs \in SUBSET i.refs :
        Dequeue(dequeueing, known, queue \cup {Queued(i, refs)}, waiting, inflight, reports \cup rp2)
  BY DEF Enqueue, Queued
<1>2. missing => i.refs # {}
  BY DEF Missing, Unresolved
<1>3. /\ Core(queue, waiting, inflight, reports, cleared, next)
      /\ cleared \in Nat /\ next \in Ids /\ cleared <= next
  BY ConstantsAssumption DEF IInv, TypeOK, Ids
<1> DEFINE deps == InferredDependencies(queue, waiting, i)
           j == Queued(i, refs)
<1>4. \A d \in deps : d \in Dependencies /\ Known(queue, inflight, reports, cleared, d)
  BY <1>3, DependenciesFound DEF Core, WellMade
<1>5. j = [i EXCEPT !.refs = refs, !.deps = deps]
  BY DEF Queued
<1> HIDE DEF deps, missing, j
<1>6. WellMade(j) /\ j.id = next /\ j.deps = deps
  <2>1. /\ j \in Items /\ j.id = next /\ j.kind = i.kind /\ j.objs = i.objs
        /\ j.rev = i.rev /\ j.deps = deps
    BY <1>4, <1>5 DEF WellMade, Items
  <2> QED
    BY <2>1 DEF WellMade
<1>7. rp2 \subseteq {<<next, "unresolved">>} /\ (rp2 # {} => i.refs # {})
  BY <1>2
<1> HIDE DEF rp2
<1>8. Core(queue \cup {j}, waiting, inflight, reports \cup rp2, cleared, next + 1)
  BY <1>3, <1>4, <1>6, <1>7, EnqueueCore
<1> QED
  BY <1>1, <1>6, <1>7, <1>8 DEF j

\* What enqueue does to the parts of the invariant.
LEMMA EnqueueKeeps ==
  ASSUME IInv, NEW i, WellMade(i), i.id = next, next <= MaxItems, Enqueue(i)
  PROVE  made' \in [Objects -> 0..MaxItems] /\ twice' \subseteq Objects => IInv'
<1>1. PICK q, rp : /\ Core(q, waiting, inflight, rp, cleared, next + 1)
                   /\ Dequeue(dequeueing, known, q, waiting, inflight, rp)
  BY EnqueueHands
<1>2. next' = next + 1 /\ UNCHANGED <<dequeueing, loop, synced, server, cleared, logouts, faults>>
  BY DEF Enqueue
<1>3. cleared \in Nat /\ next \in Ids /\ next + 1 \in Nat /\ cleared <= next
  BY ConstantsAssumption DEF IInv, TypeOK, Ids
<1>4. Core(queue', waiting', inflight', reports', cleared, next + 1)
  BY <1>1, <1>3, DequeueCore
<1>5. known' = known /\ halted' = FALSE
  BY <1>1 DEF Dequeue
<1>6. next' = next + 1 /\ cleared' = cleared /\ cleared <= next + 1 /\ next + 1 \in 1..MaxItems + 1
  BY <1>2, <1>3, ConstantsAssumption DEF Ids
<1>7. ASSUME made' \in [Objects -> 0..MaxItems], twice' \subseteq Objects
      PROVE  OtherTypes'
  <2>1. OtherTypes /\ UNCHANGED <<cloudRev, serverRev, content, disturbed>>
    BY <1>2, InvariantParts DEF server
  <2> QED
    BY <1>2, <1>5, <1>6, <1>7, <2>1 DEF OtherTypes
<1> QED
  BY <1>4, <1>6, <1>7, PartsAfter

LEMMA CreateKeeps ==
  ASSUME IInv, NEW o \in Objects, CreateObject(o)
  PROVE  IInv'
<1>1. PICK refs \in RefsOf(o), folder \in Folders \cup {NoFolder} :
        Enqueue(Item(next, "create", {o}, "client", refs, folder, 0))
  BY DEF CreateObject
<1>2. /\ next <= MaxItems /\ made' = [made EXCEPT ![o] = next]
      /\ twice' = IF \E i \in queue \cup inflight : i.id = made[o] THEN twice \cup {o} ELSE twice
  BY DEF CreateObject
<1>3. next \in Ids /\ refs \in SUBSET Enums
  BY <1>1, <1>2, ConstantsAssumption DEF IInv, TypeOK, Ids, RefsOf
<1> DEFINE i == Item(next, "create", {o}, "client", refs, folder, 0)
<1>4. WellMade(i) /\ i.id = next
  BY <1>3 DEF Item, WellMade, Items, Kinds
<1> HIDE DEF i
<1>5. made' \in [Objects -> 0..MaxItems] /\ twice' \subseteq Objects
  BY <1>2, <1>3, InvariantParts DEF OtherTypes, Ids
<1> QED
  BY <1>1, <1>2, <1>4, <1>5, EnqueueKeeps DEF i

LEMMA BulkKeeps ==
  ASSUME IInv, NEW objs \in SUBSET Plain, BulkCreateGenericStringObjects(objs)
  PROVE  IInv'
<1>1. /\ next <= MaxItems /\ Enqueue(Item(next, "bulk", objs, "client", {}, NoFolder, 0))
      /\ made' = [o \in Objects |-> IF o \in objs THEN next ELSE made[o]] /\ UNCHANGED twice
  BY DEF BulkCreateGenericStringObjects
<1>2. next \in Ids /\ objs \subseteq Objects
  BY <1>1, ConstantsAssumption DEF IInv, TypeOK, Ids, Objects
<1> DEFINE i == Item(next, "bulk", objs, "client", {}, NoFolder, 0)
<1>3. WellMade(i) /\ i.id = next
  BY <1>2 DEF Item, WellMade, Items, Kinds
<1> HIDE DEF i
<1>4. made' \in [Objects -> 0..MaxItems] /\ twice' \subseteq Objects
  BY <1>1, <1>2, InvariantParts DEF OtherTypes, Ids
<1> QED
  BY <1>1, <1>3, <1>4, EnqueueKeeps DEF i

LEMMA UpdateKeeps ==
  ASSUME IInv, NEW o \in Objects, UpdateObject(o)
  PROVE  IInv'
<1>1. next <= MaxItems /\ UNCHANGED <<made, twice>>
  BY DEF UpdateObject
<1>2. next \in Ids /\ cloudRev[o] \in Nat /\ NameOf(o) \in {"client", "server"}
  BY <1>1, ConstantsAssumption DEF IInv, TypeOK, Ids, NameOf
<1>3. PICK refs \in SUBSET Enums, name \in {"client", "server"}, rev \in Nat :
        /\ o \in Folders => rev = 0
        /\ Enqueue(Item(next, "update", {o}, name, refs, NoFolder, rev))
  BY <1>2 DEF UpdateObject, RefsOf
<1> DEFINE i == Item(next, "update", {o}, name, refs, NoFolder, rev)
<1>4. WellMade(i) /\ i.id = next
  BY <1>2, <1>3 DEF Item, WellMade, Items, Kinds
<1> HIDE DEF i
<1>5. made' \in [Objects -> 0..MaxItems] /\ twice' \subseteq Objects
  BY <1>1, InvariantParts DEF OtherTypes
<1> QED
  BY <1>1, <1>3, <1>4, <1>5, EnqueueKeeps DEF i

LEMMA ActionKeeps ==
  ASSUME IInv, NEW o \in Objects, RecordObjectAction(o)
  PROVE  IInv'
<1>1. next <= MaxItems /\ UNCHANGED <<made, twice>>
  BY DEF RecordObjectAction
<1>2. next \in Ids /\ NameOf(o) \in {"client", "server"}
  BY <1>1, ConstantsAssumption DEF IInv, TypeOK, Ids, NameOf
<1>3. PICK name \in {"client", "server"} :
        Enqueue(Item(next, "action", {o}, name, {}, NoFolder, 0))
  BY <1>2 DEF RecordObjectAction
<1> DEFINE i == Item(next, "action", {o}, name, {}, NoFolder, 0)
<1>4. WellMade(i) /\ i.id = next
  BY <1>2 DEF Item, WellMade, Items, Kinds
<1> HIDE DEF i
<1>5. made' \in [Objects -> 0..MaxItems] /\ twice' \subseteq Objects
  BY <1>1, InvariantParts DEF OtherTypes
<1> QED
  BY <1>1, <1>3, <1>4, <1>5, EnqueueKeeps DEF i

LEMMA StartKeeps ==
  ASSUME IInv, StartDequeueing
  PROVE  IInv'
<1>1. /\ Dequeue(TRUE, known, queue, waiting, inflight, reports)
      /\ dequeueing' = TRUE /\ known' = known /\ halted' = FALSE
      /\ UNCHANGED <<loop, synced, made, twice, server, next, cleared, logouts, faults>>
  BY DEF StartDequeueing, Dequeue
<1>2. Core(queue', waiting', inflight', reports', cleared, next)
  BY <1>1, InvariantParts, DequeueCore
<1>3. OtherTypes' /\ cleared' <= next'
  BY <1>1, InvariantParts DEF OtherTypes, server
<1> QED
  BY <1>1, <1>2, <1>3, PartsAfter

\* After a logout nothing is queued, and what is in flight no longer counts.
LEMMA ClearKeeps ==
  ASSUME IInv, Clear
  PROVE  IInv'
<1>1. OtherTypes'
  BY InvariantParts, ConstantsAssumption DEF Clear, OtherTypes
<1>2. /\ queue' = {} /\ waiting' = [n \in Names |-> {}] /\ cleared' = next
      /\ inflight' = inflight /\ reports' = reports /\ next' = next
  BY DEF Clear
<1>3. next \in Nat /\ inflight \subseteq Items
  BY ConstantsAssumption DEF IInv, TypeOK
<1>4. Typed(queue', waiting', inflight', reports') /\ Single(queue', inflight')
  BY <1>2 DEF IInv, TypeOK, Core, Typed, Single
<1>5. Numbered(queue', inflight', cleared', next')
  BY <1>2 DEF IInv, Core, Numbered
<1>6. Alive(queue', inflight', reports', cleared') /\ Awaited(waiting', inflight', reports', cleared')
  BY <1>2 DEF Alive, Awaited
<1>7. Pending(queue', inflight', reports', cleared')
  BY <1>2, <1>3 DEF IInv, Core, Numbered, Pending, Items, Ids
<1>8. Finished(queue', inflight', reports', cleared', next')
  BY <1>2, <1>3 DEF Finished, Ids
<1>9. Dated(reports', next')
  BY <1>2 DEF IInv, Core, Dated
<1> QED
  BY <1>1, <1>2, <1>3, <1>4, <1>5, <1>6, <1>7, <1>8, <1>9, PartsAfter DEF Core

\* Steps that leave the queue, the requests and the reports alone.
LEMMA OthersKeep ==
  ASSUME IInv,
         \/ StopDequeueing
         \/ \E o \in Objects : OtherClientEdits(o)
         \/ \E r \in inflight : AnswerLost(r)
         \/ UNCHANGED vars
  PROVE  IInv'
<1>1. UNCHANGED <<queue, waiting, inflight, reports, cleared, next>>
  BY DEF StopDequeueing, OtherClientEdits, AnswerLost, vars
<1>2. CASE StopDequeueing
  BY <1>1, <1>2 DEF StopDequeueing, IInv, TypeOK, server
<1>3. ASSUME NEW o \in Objects, OtherClientEdits(o) PROVE IInv'
  BY <1>1, <1>3, ConstantsAssumption DEF OtherClientEdits, IInv, TypeOK
<1>4. ASSUME NEW r \in inflight, AnswerLost(r) PROVE IInv'
  <2>1. WellMade(r)
    BY QueueWellMade
  <2>2. PICK o \in r.objs : /\ serverRev' = [serverRev EXCEPT ![o] = @ + 1]
                            /\ content' = [content EXCEPT ![o] = [id |-> r.id, kind |-> r.kind]]
                            /\ disturbed' = disturbed \cup {o}
    BY <1>4 DEF AnswerLost
  <2>3. o \in Objects /\ r.id \in 0..MaxItems /\ r.kind \in Kinds
    BY <2>1, <2>2 DEF WellMade, Items, Ids
  <2> QED
    BY <1>1, <1>4, <2>2, <2>3, ConstantsAssumption DEF AnswerLost, IInv, TypeOK
<1>5. CASE UNCHANGED vars
  BY <1>1, <1>5 DEF vars, IInv, TypeOK, server
<1> QED
  BY <1>2, <1>3, <1>4, <1>5

-----------------------------------------------------------------------------
(* The steps of the answers. *)

LEMMA InFlight ==
  ASSUME IInv, NEW r \in inflight, NEW o \in r.objs
  PROVE  o \in Objects /\ r.id \in Ids /\ r.id \in 0..MaxItems /\ r.kind \in Kinds
<1> QED
  BY QueueWellMade DEF WellMade, Items, Ids

\* What the server and the client's model take from a success.
LEMMA SuccessTypes ==
  ASSUME IInv, NEW r \in inflight, NEW o \in r.objs, Succeeded(r, o)
  PROVE  /\ serverRev' \in [Objects -> Nat] /\ cloudRev' \in [Objects -> Nat]
         /\ content' \in [Objects -> [id : 0..MaxItems, kind : Kinds]]
         /\ disturbed' \subseteq Objects /\ serverRev'[o] \in Nat
<1>1. o \in Objects /\ r.id \in 0..MaxItems /\ r.kind \in Kinds
  BY InFlight
<1>2. /\ serverRev \in [Objects -> Nat] /\ cloudRev \in [Objects -> Nat]
      /\ content \in [Objects -> [id : 0..MaxItems, kind : Kinds]]
      /\ disturbed \subseteq Objects
  BY InvariantParts DEF OtherTypes
<1>3. /\ serverRev' = [serverRev EXCEPT ![o] = @ + 1]
      /\ content' = [content EXCEPT ![o] = [id |-> r.id, kind |-> r.kind]]
      /\ disturbed' \subseteq disturbed \cup {o}
      /\ cloudRev' = [cloudRev EXCEPT ![o] = serverRev'[o]]
  BY DEF Succeeded, ServerWrites
<1>4. serverRev' \in [Objects -> Nat]
  BY <1>1, <1>2, <1>3
<1>5. serverRev'[o] \in Nat
  BY <1>1, <1>4
<1> QED
  BY <1>1, <1>2, <1>3, <1>4, <1>5

\* An answer that calls dequeue().
LEMMA AnswerKeeps ==
  ASSUME IInv, NEW kn \in SUBSET Objects, NEW q, NEW w, NEW fl, NEW rp,
         Core(q, w, fl, rp, cleared, next), Dequeue(dequeueing, kn, q, w, fl, rp),
         synced' \subseteq Objects, disturbed' \subseteq Objects, loop' \subseteq Ids,
         serverRev' \in [Objects -> Nat], cloudRev' \in [Objects -> Nat],
         content' \in [Objects -> [id : 0..MaxItems, kind : Kinds]],
         UNCHANGED <<dequeueing, made, twice, next, cleared, logouts, faults>>
  PROVE  IInv'
<1>1. Core(queue', waiting', inflight', reports', cleared, next)
  BY InvariantParts, DequeueCore
<1>2. known' = kn /\ halted' = FALSE
  BY DEF Dequeue
<1>3. OtherTypes'
  BY <1>2, InvariantParts DEF OtherTypes
<1> QED
  BY <1>1, <1>3, InvariantParts, PartsAfter

LEMMA CreationSucceedsKeeps ==
  ASSUME IInv, NEW r \in inflight, CreationSucceeds(r)
  PROVE  IInv'
<1>1. PICK o \in r.objs :
        /\ Succeeded(r, o)
        /\ synced' = synced \cup {o}
        /\ Dequeue(dequeueing, known \cup {o}, Created(r, o, serverRev'[o]), Answered(r, o),
                   inflight \ {r}, reports \cup {<<r.id, "ok">>})
  BY DEF CreationSucceeds
<1>2. r.kind = "create" /\ UNCHANGED <<dequeueing, loop, made, twice, next, cleared, logouts, faults>>
  BY DEF CreationSucceeds
<1>3. /\ serverRev' \in [Objects -> Nat] /\ cloudRev' \in [Objects -> Nat]
      /\ content' \in [Objects -> [id : 0..MaxItems, kind : Kinds]]
      /\ disturbed' \subseteq Objects /\ serverRev'[o] \in Nat
  BY <1>1, SuccessTypes
<1>4. Trims(Created(r, o, serverRev'[o]), <<r.id, o>>)
  BY <1>3, CreatedTrims
<1>5. Core(Created(r, o, serverRev'[o]), Answered(r, o), inflight \ {r},
           reports \cup {<<r.id, "ok">>}, cleared, next)
  BY <1>2, <1>4, RequestAnswered DEF Settled, Outcomes
<1>6. known \cup {o} \in SUBSET Objects /\ synced' \subseteq Objects /\ loop' \subseteq Ids
  BY <1>1, <1>2, InFlight, InvariantParts DEF OtherTypes
<1> QED
  BY <1>1, <1>2, <1>3, <1>5, <1>6, AnswerKeeps

LEMMA BulkCreationSucceedsKeeps ==
  ASSUME IInv, NEW r \in inflight, BulkCreationSucceeds(r)
  PROVE  IInv'
<1>1. PICK o \in r.objs :
        LET left == r.objs \ {o}
        IN /\ Succeeded(r, o)
           /\ synced' = synced \cup {o}
           /\ loop' = IF left = {} THEN {} ELSE {r.id}
           /\ Dequeue(dequeueing, known \cup {o}, Created(r, o, serverRev'[o]), Answered(r, o),
                      (inflight \ {r}) \cup (IF left = {} THEN {} ELSE {[r EXCEPT !.objs = left]}),
                      reports \cup (IF left = {} THEN {<<r.id, "ok">>} ELSE {}))
  BY DEF BulkCreationSucceeds
<1>2. r.kind = "bulk" /\ UNCHANGED <<dequeueing, made, twice, next, cleared, logouts, faults>>
  BY DEF BulkCreationSucceeds
<1>3. /\ serverRev' \in [Objects -> Nat] /\ cloudRev' \in [Objects -> Nat]
      /\ content' \in [Objects -> [id : 0..MaxItems, kind : Kinds]]
      /\ disturbed' \subseteq Objects /\ serverRev'[o] \in Nat
  BY <1>1, SuccessTypes
<1>4. Trims(Created(r, o, serverRev'[o]), <<r.id, o>>)
  BY <1>3, CreatedTrims
<1>5. r.kind # "action" /\ "ok" \in Settled
  BY <1>2 DEF Settled, Outcomes
<1> DEFINE left == r.objs \ {o}
           q2 == Created(r, o, serverRev'[o])
           w2 == Answered(r, o)
           fl2 == (inflight \ {r}) \cup (IF left = {} THEN {} ELSE {[r EXCEPT !.objs = left]})
           rp2 == reports \cup (IF left = {} THEN {<<r.id, "ok">>} ELSE {})
<1>6. Core(q2, w2, fl2, rp2, cleared, next)
  BY <1>4, <1>5, ObjectAnswered
<1>7. known \cup {o} \in SUBSET Objects /\ synced' \subseteq Objects /\ loop' \subseteq Ids
  BY <1>1, InFlight, InvariantParts DEF OtherTypes
<1>8. Dequeue(dequeueing, known \cup {o}, q2, w2, fl2, rp2)
  BY <1>1
<1> HIDE DEF q2, w2, fl2, rp2
<1> QED
  BY <1>2, <1>3, <1>6, <1>7, <1>8, AnswerKeeps

LEMMA CreationDeniedKeeps ==
  ASSUME IInv, NEW r \in inflight, CreationDenied(r)
  PROVE  IInv'
<1>1. PICK o \in r.objs :
        Dequeue(dequeueing, known, Freed(queue, <<r.id, o>>), Answered(r, o),
                inflight \ {r}, reports \cup {<<r.id, "denied">>})
  BY DEF CreationDenied
<1>2. /\ r.kind = "create"
      /\ UNCHANGED <<dequeueing, loop, synced, made, twice, server, next, cleared, logouts, faults>>
  BY DEF CreationDenied
<1>3. Core(Freed(queue, <<r.id, o>>), Answered(r, o), inflight \ {r},
           reports \cup {<<r.id, "denied">>}, cleared, next)
  BY <1>2, FreedTrims, RequestAnswered DEF Settled, Outcomes
<1>4. OtherTypes /\ UNCHANGED <<cloudRev, serverRev, content, disturbed>>
  BY <1>2, InvariantParts DEF server
<1> QED
  BY <1>1, <1>2, <1>3, <1>4, AnswerKeeps DEF OtherTypes

LEMMA UpdateSucceedsKeeps ==
  ASSUME IInv, NEW r \in inflight, UpdateSucceeds(r)
  PROVE  IInv'
<1> DEFINE q2(o) == {[i EXCEPT !.rev = Refreshed(i, o, serverRev'[o], known)] :
                       i \in Freed(queue, <<r.id, o>>)}
<1>1. PICK o \in r.objs :
        /\ Succeeded(r, o)
        /\ Dequeue(dequeueing, known, q2(o), Answered(r, o), inflight \ {r},
                   reports \cup {<<r.id, "ok">>})
  BY DEF UpdateSucceeds
<1>2. r.kind = "update" /\ UNCHANGED <<dequeueing, loop, synced, made, twice, next, cleared, logouts, faults>>
  BY DEF UpdateSucceeds
<1>3. /\ serverRev' \in [Objects -> Nat] /\ cloudRev' \in [Objects -> Nat]
      /\ content' \in [Objects -> [id : 0..MaxItems, kind : Kinds]]
      /\ disturbed' \subseteq Objects /\ serverRev'[o] \in Nat
  BY <1>1, SuccessTypes
<1>4. Trims(q2(o), <<r.id, o>>)
  BY <1>3, UpdatedTrims
<1> HIDE DEF q2
<1>5. Core(q2(o), Answered(r, o), inflight \ {r}, reports \cup {<<r.id, "ok">>}, cleared, next)
  BY <1>2, <1>4, RequestAnswered DEF Settled, Outcomes
<1>6. known \in SUBSET Objects /\ synced' \subseteq Objects /\ loop' \subseteq Ids
  BY <1>2, InvariantParts DEF OtherTypes
<1> QED
  BY <1>1, <1>2, <1>3, <1>5, <1>6, AnswerKeeps

LEMMA UpdateRejectedKeeps ==
  ASSUME IInv, NEW r \in inflight, UpdateRejected(r)
  PROVE  IInv'
<1>1. PICK o \in r.objs :
        /\ \E rev \in {cloudRev[o], serverRev[o]} : cloudRev' = [cloudRev EXCEPT ![o] = rev]
        /\ Dequeue(dequeueing, known, Freed(queue, <<r.id, o>>), Answered(r, o),
                   inflight \ {r}, reports \cup {<<r.id, "rejected">>})
  BY DEF UpdateRejected
<1>2. /\ r.kind = "update"
      /\ UNCHANGED <<dequeueing, loop, synced, made, twice, serverRev, content, disturbed, next, cleared, logouts, faults>>
  BY DEF UpdateRejected
<1>3. Core(Freed(queue, <<r.id, o>>), Answered(r, o), inflight \ {r},
           reports \cup {<<r.id, "rejected">>}, cleared, next)
  BY <1>2, FreedTrims, RequestAnswered DEF Settled, Outcomes
<1>4. OtherTypes /\ o \in Objects
  BY InFlight, InvariantParts
<1>5. cloudRev' \in [Objects -> Nat]
  BY <1>1, <1>4 DEF OtherTypes
<1> QED
  BY <1>1, <1>2, <1>3, <1>4, <1>5, AnswerKeeps DEF OtherTypes

\* A recorded action frees nobody: nothing depends on an action.
LEMMA ActionCore ==
  ASSUME IInv, NEW r \in inflight, r.kind = "action"
  PROVE  Core(queue, waiting, inflight \ {r}, reports \cup {<<r.id, "ok">>}, cleared, next)
<1> DEFINE left == {}
<1>1. /\ Core(queue, waiting, inflight, reports, cleared, next)
      /\ cleared \in Nat /\ next \in Nat
      /\ left \in SUBSET Objects /\ (left # {} => r.kind = "bulk")
      /\ "ok" \in Settled /\ waiting \in [Names -> SUBSET Ids]
  BY InvariantParts DEF Core, Typed, Settled, Outcomes
<1>2. /\ \A i \in queue : WellMade(i)
      /\ \A i, j \in queue : i.id = j.id => i = j
  BY QueueWellMade
<1>3. /\ \A i \in queue : \E j \in queue : Same(i, j) /\ i.deps \subseteq j.deps
      /\ \A j \in queue : \E i \in queue : Same(i, j)
  BY DEF Same
<1>4. /\ \A i \in queue : \A d \in i.deps : Provides(r, d) => d[2] \in left
      /\ \A n \in Names : waiting[n] \subseteq waiting[n]
      /\ \A n \in Names : r.id \in waiting[n] /\ Answers(r, n) => n[2] \in left
  BY DEF Provides, Answers
<1> HIDE DEF left
<1>5. Core(queue, waiting,
           (inflight \ {r}) \cup (IF left = {} THEN {} ELSE {[r EXCEPT !.objs = left]}),
           reports \cup (IF left = {} THEN {<<r.id, "ok">>} ELSE {}), cleared, next)
  BY <1>1, <1>2, <1>3, <1>4, AnswerCore
<1>6. /\ (inflight \ {r}) \cup (IF left = {} THEN {} ELSE {[r EXCEPT !.objs = left]}) = inflight \ {r}
      /\ reports \cup (IF left = {} THEN {<<r.id, "ok">>} ELSE {}) = reports \cup {<<r.id, "ok">>}
  BY DEF left
<1> QED
  BY <1>5, <1>6

LEMMA ActionRecordedKeeps ==
  ASSUME IInv, NEW r \in inflight, ActionRecorded(r)
  PROVE  IInv'
<1>1. /\ r.kind = "action"
      /\ Dequeue(dequeueing, known, queue, waiting, inflight \ {r}, reports \cup {<<r.id, "ok">>})
      /\ UNCHANGED <<dequeueing, loop, synced, made, twice, server, next, cleared, logouts, faults>>
  BY DEF ActionRecorded
<1>2. Core(queue, waiting, inflight \ {r}, reports \cup {<<r.id, "ok">>}, cleared, next)
  BY <1>1, ActionCore
<1>3. OtherTypes /\ UNCHANGED <<cloudRev, serverRev, content, disturbed>>
  BY <1>1, InvariantParts DEF server
<1> QED
  BY <1>1, <1>2, <1>3, AnswerKeeps DEF OtherTypes

\* What is left when a request has failed, and what depended on it with it.
FailureRest(r) == queue \ Dependents(queue, {<<r.id, o>> : o \in r.objs})
FailureWaiting(r) == [n \in Names |-> waiting[n] \ {r.id}]
FailureReports(r) ==
  reports \cup {<<i.id, "failed">> : i \in Dependents(queue, {<<r.id, o>> : o \in r.objs}) \cup {r}}

LEMMA FailureCore ==
  ASSUME IInv, NEW r \in inflight
  PROVE  Core(FailureRest(r), FailureWaiting(r), inflight \ {r}, FailureReports(r), cleared, next)
<1> DEFINE D == {<<r.id, o>> : o \in r.objs}
           lost == Dependents(queue, D)
           rest == queue \ lost
           w == [n \in Names |-> waiting[n] \ {r.id}]
           rp1 == reports \cup {<<i.id, "failed">> : i \in lost}
           rp2 == reports \cup {<<i.id, "failed">> : i \in lost \cup {r}}
           left == {}
<1>1. Core(rest, waiting, inflight, rp1, cleared, next)
  BY InvariantParts, LossCore
<1>2. rest \subseteq queue /\ \A i \in rest : \A d \in i.deps : d \notin D
  BY RestIndependent
<1>3. \A i \in queue : i.deps \subseteq Dependencies
  BY InvariantParts DEF Core, Typed, Items
<1>4. \A i \in rest : \A d \in i.deps : Provides(r, d) => d[2] \in left
  BY <1>2, <1>3 DEF Provides, Dependencies
<1>5. /\ w \in [Names -> SUBSET Ids]
      /\ \A n \in Names : w[n] \subseteq waiting[n]
      /\ \A n \in Names : r.id \in w[n] /\ Answers(r, n) => n[2] \in left
  BY InvariantParts DEF Core, Typed
<1>6. /\ \A i \in rest : WellMade(i)
      /\ \A i, j \in rest : i.id = j.id => i = j
      /\ \A i \in rest : \E j \in rest : Same(i, j) /\ i.deps \subseteq j.deps
      /\ \A j \in rest : \E i \in rest : Same(i, j)
  BY <1>2, QueueWellMade DEF Same
<1>7. /\ cleared \in Nat /\ next \in Nat /\ "failed" \in Settled
      /\ left \in SUBSET Objects /\ (left # {} => r.kind = "bulk")
  BY InvariantParts DEF Settled, Outcomes
<1>8. rp2 = rp1 \cup {<<r.id, "failed">>}
  OBVIOUS
<1> HIDE DEF rest, w, rp1, left
<1>9. Core(rest, w, (inflight \ {r}) \cup (IF left = {} THEN {} ELSE {[r EXCEPT !.objs = left]}),
           rp1 \cup (IF left = {} THEN {<<r.id, "failed">>} ELSE {}), cleared, next)
  BY <1>1, <1>4, <1>5, <1>6, <1>7, AnswerCore
<1>10. /\ (inflight \ {r}) \cup (IF left = {} THEN {} ELSE {[r EXCEPT !.objs = left]}) = inflight \ {r}
       /\ rp1 \cup (IF left = {} THEN {<<r.id, "failed">>} ELSE {}) = rp2
  BY <1>8 DEF left
<1> HIDE DEF rp2
<1>11. Core(rest, w, inflight \ {r}, rp2, cleared, next)
  BY <1>9, <1>10
<1> QED
  BY <1>11 DEF rest, w, rp2, FailureRest, FailureWaiting, FailureReports

LEMMA RequestFailsKeeps ==
  ASSUME IInv, NEW r \in inflight, NEW persistent, RequestFails(r, persistent)
  PROVE  IInv'
<1> DEFINE rest == FailureRest(r)
           w == FailureWaiting(r)
           rp == FailureReports(r)
<1>1. /\ \/ Dequeue(dequeueing, known, rest, w, inflight \ {r}, rp)
         \/ /\ queue' = rest /\ waiting' = w /\ inflight' = inflight \ {r}
            /\ reports' = rp /\ halted' = TRUE /\ UNCHANGED known
      /\ UNCHANGED <<dequeueing, loop, synced, made, twice, server, next, cleared, logouts, faults>>
  BY DEF RequestFails, FailureRest, FailureWaiting, FailureReports
<1>2. Core(rest, w, inflight \ {r}, rp, cleared, next)
  BY FailureCore
<1> HIDE DEF rest, w, rp
<1>3. OtherTypes /\ UNCHANGED <<cloudRev, serverRev, content, disturbed>>
  BY <1>1, InvariantParts DEF server
<1>4. CASE Dequeue(dequeueing, known, rest, w, inflight \ {r}, rp)
  BY <1>1, <1>2, <1>3, <1>4, AnswerKeeps DEF OtherTypes
<1>5. CASE /\ queue' = rest /\ waiting' = w /\ inflight' = inflight \ {r}
           /\ reports' = rp /\ halted' = TRUE /\ UNCHANGED known
  <2>1. OtherTypes'
    BY <1>1, <1>3, <1>5 DEF OtherTypes
  <2> QED
    BY <1>1, <1>2, <1>5, <2>1, InvariantParts, PartsAfter
<1> QED
  BY <1>1, <1>4, <1>5

-----------------------------------------------------------------------------
(* The initial states. *)

NoAnswers == [n \in Names |-> {}]

LEMMA CachedWellMade ==
  ASSUME NEW id \in Ids, NEW o \in Objects, NEW refs \in SUBSET Enums
  PROVE  LET i == Cached(id, o, refs)
         IN WellMade(i) /\ i.id = id /\ i.objs = {o} /\ i.deps = {}
<1>1. CASE o \in Existing
  BY <1>1 DEF Cached, Item, WellMade, Items, Kinds
<1>2. CASE o \notin Existing
  <2> DEFINE rs == IF o \in Workflows THEN refs ELSE {}
  <2>1. rs \in SUBSET Enums
    OBVIOUS
  <2> HIDE DEF rs
  <2>2. Cached(id, o, refs) = Item(id, "create", {o}, "client", rs, NoFolder, 0)
    BY <1>2 DEF Cached, rs
  <2> QED
    BY <2>1, <2>2 DEF Item, WellMade, Items, Kinds
<1> QED
  BY <1>1, <1>2

\* initialize_queue_dependencies: an item waits for items of the same queue.
LEMMA InitializedCore ==
  ASSUME NEW q, NEW nx \in Nat, nx > 0, nx <= MaxItems + 1,
         \A i \in q : WellMade(i) /\ i.id < nx,
         \A i, j \in q : i.id = j.id => i = j,
         \A id \in 1..(nx - 1) : \E i \in q : i.id = id,
         NEW rp, \A p \in rp : \E i \in q : p = <<i.id, "unresolved">>
  PROVE  Core(Initialized(q), NoAnswers, {}, rp, 0, nx)
<1> DEFINE deps(i) == InferredDependencies(q, NoAnswers, i) \ Own({i})
           g(i) == [i EXCEPT !.deps = deps(i)]
           q2 == Initialized(q)
<1>1. Typed(q, NoAnswers, {}, {}) /\ Awaited(NoAnswers, {}, {}, 0)
  BY DEF Typed, Awaited, NoAnswers, WellMade
<1>2. ASSUME NEW i \in q, NEW d \in deps(i)
      PROVE  d \in Dependencies /\ \E j \in q : Provides(j, d)
  <2>1. i \in Items /\ d \in InferredDependencies(q, NoAnswers, i)
    BY <1>2 DEF WellMade
  <2>2. d \in Dependencies /\ Known(q, {}, {}, 0, d)
    BY <1>1, <2>1, DependenciesFound
  <2> QED
    BY <2>2 DEF Known, Skipped
<1> HIDE DEF deps
<1>3. ASSUME NEW i \in q
      PROVE  WellMade(g(i)) /\ Same(g(i), i) /\ g(i).deps = deps(i)
  <2>1. WellMade(i) /\ deps(i) \in SUBSET Dependencies
    BY <1>2
  <2>2. g(i) \in Items /\ Same(g(i), i) /\ g(i).rev = i.rev /\ g(i).deps = deps(i)
    BY <2>1 DEF WellMade, Items, Same
  <2> HIDE DEF g
  <2> QED
    BY <2>1, <2>2 DEF WellMade, Same
<1>4. q2 = {g(i) : i \in q}
  BY DEF Initialized, deps, NoAnswers
<1> HIDE DEF g, q2
<1>5. \A i \in q2 : \E j \in q : i = g(j) /\ Same(i, j) /\ i.deps = deps(j) /\ WellMade(i)
  BY <1>3, <1>4
<1>6. \A j \in q : g(j) \in q2 /\ Same(g(j), j)
  BY <1>3, <1>4
<1>7. \A id \in Ids, x \in Settled : <<id, x>> \notin rp
  BY DEF Settled
<1>8. Typed(q2, NoAnswers, {}, rp) /\ Single(q2, {})
  BY <1>5 DEF Typed, Single, NoAnswers, WellMade, Items, Outcomes
<1>9. Numbered(q2, {}, 0, nx)
  <2>1. \A i \in q : i.id \in Nat /\ 0 <= i.id
    BY DEF WellMade, Items, Ids
  <2> QED
    BY <1>5, <2>1 DEF Numbered, Same
<1>10. Alive(q2, {}, rp, 0)
  <2> SUFFICES ASSUME NEW i \in q2, NEW d \in i.deps
               PROVE  \E j \in q2 : Provides(j, d)
    BY DEF Alive
  <2>1. PICK j \in q : Provides(j, d)
    BY <1>2, <1>5
  <2> QED
    BY <1>6, <2>1 DEF Provides, Same
<1>11. Awaited(NoAnswers, {}, rp, 0)
  BY DEF Awaited, NoAnswers
<1>12. Pending(q2, {}, rp, 0)
  BY <1>5, <1>7 DEF Pending, WellMade, Items
<1>13. Finished(q2, {}, rp, 0, nx)
  <2> SUFFICES ASSUME NEW id \in Ids, id < nx, \A i \in q2 : i.id # id
               PROVE  FALSE
    BY DEF Finished
  <2>1. PICK i \in q : i.id = id
    BY ConstantsAssumption DEF Ids
  <2> QED
    BY <1>6, <2>1 DEF Same
<1>14. Dated(rp, nx)
  BY DEF Dated
<1> QED
  BY <1>8, <1>9, <1>10, <1>11, <1>12, <1>13, <1>14 DEF Core, q2

LEMMA InitInvariant == Init => IInv
<1> SUFFICES ASSUME Init
             PROVE  IInv
  OBVIOUS
<1>1. PICK n \in 0..MaxStartup : \E order \in [1..n -> Objects], refs \in SUBSET (Enums \ Existing) :
        LET raw == {Cached(id, order[id], refs) : id \in 1..n}
        IN /\ \A a, b \in 1..n : order[a] = order[b] => a = b
           /\ queue = Initialized(raw)
           /\ reports = {<<i.id, "unresolved">> :
                           i \in {j \in raw : Missing(raw, NoAnswers, j.refs) # {}}}
           /\ made = [o \in Objects |-> IF \E i \in raw : i.kind = "create" /\ o \in i.objs
                                        THEN CHOOSE id \in 1..n : order[id] = o ELSE 0]
           /\ next = n + 1
  BY DEF Init, NoAnswers
<1>2. PICK order \in [1..n -> Objects], refs \in SUBSET (Enums \ Existing) :
        LET raw == {Cached(id, order[id], refs) : id \in 1..n}
        IN /\ queue = Initialized(raw)
           /\ reports = {<<i.id, "unresolved">> :
                           i \in {j \in raw : Missing(raw, NoAnswers, j.refs) # {}}}
           /\ made = [o \in Objects |-> IF \E i \in raw : i.kind = "create" /\ o \in i.objs
                                        THEN CHOOSE id \in 1..n : order[id] = o ELSE 0]
           /\ next = n + 1
  BY <1>1
<1> DEFINE g(id) == Cached(id, order[id], refs)
           raw == {g(id) : id \in 1..n}
<1>3. n \in Nat /\ n <= MaxItems /\ 1..n \subseteq Ids /\ 1..n \subseteq 0..MaxItems
  BY ConstantsAssumption DEF Ids
<1>4. \A id \in 1..n : WellMade(g(id)) /\ g(id).id = id /\ g(id).objs = {order[id]} /\ g(id).deps = {}
  BY <1>3, CachedWellMade
<1>5. /\ inflight = {} /\ waiting = NoAnswers /\ cleared = 0 /\ logouts = {}
      /\ known = {} /\ loop = {} /\ dequeueing = FALSE /\ halted = FALSE
      /\ synced = Existing /\ disturbed = {} /\ twice = {} /\ faults = 0
      /\ serverRev = [o \in Objects |-> IF o \in Existing THEN 1 ELSE 0]
      /\ cloudRev = serverRev
      /\ content = [o \in Objects |-> [id |-> 0, kind |-> "create"]]
  BY DEF Init, NoAnswers
<1>6. made \in [Objects -> 0..MaxItems]
  <2> DEFINE by(o) == IF \E i \in raw : i.kind = "create" /\ o \in i.objs
                      THEN CHOOSE id \in 1..n : order[id] = o ELSE 0
  <2>1. made = [o \in Objects |-> by(o)]
    BY <1>2
  <2>2. ASSUME NEW o \in Objects
        PROVE  by(o) \in 0..MaxItems
    <3>1. CASE \E i \in raw : o \in i.objs
      <4>1. \E id \in 1..n : order[id] = o
        BY <1>4, <3>1
      <4>2. (CHOOSE id \in 1..n : order[id] = o) \in 1..n
        BY <4>1
      <4> QED
        BY <1>3, <4>2, ConstantsAssumption
    <3>2. CASE ~\E i \in raw : o \in i.objs
      <4>1. by(o) = 0
        BY <3>2
      <4> HIDE DEF by
      <4> QED
        BY <4>1, ConstantsAssumption
    <3> QED
      BY <3>1, <3>2
  <2> HIDE DEF by
  <2> QED
    BY <2>1, <2>2
<1>7. /\ queue = Initialized(raw) /\ next = n + 1
      /\ \A p \in reports : \E i \in raw : p = <<i.id, "unresolved">>
  BY <1>2
<1> HIDE DEF g
<1>8. Core(queue, waiting, inflight, reports, cleared, next)
  <2>1. /\ \A i \in raw : WellMade(i) /\ i.id < n + 1
        /\ \A i, j \in raw : i.id = j.id => i = j
        /\ \A id \in 1..((n + 1) - 1) : \E i \in raw : i.id = id
    BY <1>3, <1>4
  <2>2. n + 1 \in Nat /\ n + 1 > 0 /\ n + 1 <= MaxItems + 1
    BY <1>3, ConstantsAssumption
  <2> HIDE DEF raw
  <2>3. Core(Initialized(raw), NoAnswers, {}, reports, 0, n + 1)
    BY <1>7, <2>1, <2>2, InitializedCore
  <2> QED
    BY <1>5, <1>7, <2>3
<1>9. OtherTypes
  <2>1. serverRev \in [Objects -> Nat] /\ cloudRev \in [Objects -> Nat]
    BY <1>5
  <2>2. [id |-> 0, kind |-> "create"] \in [id : 0..MaxItems, kind : Kinds]
    BY ConstantsAssumption DEF Kinds
  <2>3. content \in [Objects -> [id : 0..MaxItems, kind : Kinds]]
    BY <1>5, <2>2
  <2>4. next \in 1..MaxItems + 1 /\ cleared \in 0..MaxItems + 1 /\ faults \in 0..MaxFaults
    BY <1>3, <1>5, <1>7, ConstantsAssumption
  <2>5. synced \subseteq Objects /\ known \subseteq Objects /\ disturbed \subseteq Objects
    BY <1>5, ConstantsAssumption
  <2> QED
    BY <1>5, <1>6, <2>1, <2>3, <2>4, <2>5 DEF OtherTypes
<1>10. TypeOK
  BY <1>8, <1>9 DEF Core, Typed, TypeOK, OtherTypes
<1> QED
  BY <1>3, <1>5, <1>7, <1>8, <1>10 DEF IInv

-----------------------------------------------------------------------------
(* The theorems. *)

\* Every step keeps the invariant.
LEMMA NextInvariant == IInv /\ [Next]_vars => IInv'
<1> SUFFICES ASSUME IInv, [Next]_vars
             PROVE  IInv'
  OBVIOUS
<1>1. CASE StartDequeueing
  BY <1>1, StartKeeps
<1>2. CASE Client
  <2>1. CASE StopDequeueing
    BY <2>1, OthersKeep
  <2>2. CASE Clear
    BY <2>2, ClearKeeps
  <2>3. ASSUME NEW o \in Objects, CreateObject(o) \/ UpdateObject(o) \/ RecordObjectAction(o)
        PROVE  IInv'
    BY <2>3, CreateKeeps, UpdateKeeps, ActionKeeps
  <2>4. ASSUME NEW objs \in SUBSET Plain, BulkCreateGenericStringObjects(objs)
        PROVE  IInv'
    BY <2>4, BulkKeeps
  <2>5. CASE \E o \in Objects : OtherClientEdits(o)
    BY <2>5, OthersKeep
  <2>6. CASE \E r \in inflight : AnswerLost(r)
    BY <2>6, OthersKeep
  <2> QED
    BY <1>2, <2>1, <2>2, <2>3, <2>4, <2>5, <2>6 DEF Client
<1>3. ASSUME NEW r \in inflight, Answer(r)
      PROVE  IInv'
  <2>1. CASE CreationSucceeds(r)
    BY <2>1, CreationSucceedsKeeps
  <2>2. CASE BulkCreationSucceeds(r)
    BY <2>2, BulkCreationSucceedsKeeps
  <2>3. CASE CreationDenied(r)
    BY <2>3, CreationDeniedKeeps
  <2>4. CASE UpdateSucceeds(r)
    BY <2>4, UpdateSucceedsKeeps
  <2>5. CASE UpdateRejected(r)
    BY <2>5, UpdateRejectedKeeps
  <2>6. CASE ActionRecorded(r)
    BY <2>6, ActionRecordedKeeps
  <2>7. CASE RequestFails(r, FALSE) \/ RequestFails(r, TRUE)
    BY <2>7, RequestFailsKeeps
  <2> QED
    BY <1>3, <2>1, <2>2, <2>3, <2>4, <2>5, <2>6, <2>7 DEF Answer
<1>4. CASE UNCHANGED vars
  BY <1>4, OthersKeep
<1> QED
  BY <1>1, <1>2, <1>3, <1>4 DEF Next

\* The inductive invariant of the queue holds in every reachable state.
THEOREM QueueInvariant == Spec => []IInv
<1> QED
  BY InitInvariant, NextInvariant, PTL DEF Spec

\* The variables keep their types, and a folder's update has no revision.
THEOREM QueueTypeCorrect == Spec => []TypeOK
<1>1. IInv => TypeOK
  BY DEF IInv
<1> QED
  BY <1>1, QueueInvariant, PTL

\* No queued item waits for an answer that has come or will never come: the
\* handlers of successes and failures reach every dependent.
THEOREM NothingWaitsForTheGone == Spec => []DependenciesAlive
<1>1. IInv => DependenciesAlive
  <2> SUFFICES ASSUME IInv, NEW i \in queue, NEW d \in i.deps
               PROVE  \/ \E j \in queue \cup Live : j.id = d[1] /\ d[2] \in j.objs
                      \/ <<d[1], "skipped">> \in reports
    BY DEF DependenciesAlive
  <2>1. Alive(queue, inflight, reports, cleared) /\ cleared \in Nat /\ inflight \subseteq Items
    BY InvariantParts DEF Core, Typed
  <2>2. \A j \in inflight : cleared <= j.id => j \in Live
    BY <2>1 DEF Live, Items, Ids
  <2> QED
    BY <2>1, <2>2 DEF Alive, Provides, Skipped
<1> QED
  BY <1>1, QueueInvariant, PTL

\* Every item enqueued since the last logout is queued or in flight, once and
\* without an outcome, or one outcome was emitted for it, or it was skipped and
\* none was; the failure emitted at enqueue for a missing reference aside.
THEOREM OneOutcomeEach == Spec => []EachItemAccountedFor
<1>1. IInv => EachItemAccountedFor
  <2> DEFINE here(id) == \E i \in queue \cup inflight : i.id = id
  <2> SUFFICES ASSUME IInv, NEW id \in Ids, cleared <= id, id < next
               PROVE  IF here(id)
                      THEN /\ Emitted(id) = {} /\ ~SilentlySkipped(id)
                           /\ Cardinality({i \in queue \cup inflight : i.id = id}) = 1
                      ELSE Cardinality(Emitted(id)) = IF SilentlySkipped(id) THEN 0 ELSE 1
    BY DEF EachItemAccountedFor
  <2>1. /\ Numbered(queue, inflight, cleared, next)
        /\ Pending(queue, inflight, reports, cleared)
        /\ Finished(queue, inflight, reports, cleared, next)
    BY InvariantParts DEF Core
  <2>2. /\ Emitted(id) = {x \in Settled \ {"skipped"} : <<id, x>> \in reports}
        /\ SilentlySkipped(id) <=> <<id, "skipped">> \in reports
        /\ "skipped" \in Settled
    BY DEF Emitted, SilentlySkipped, Settled, Outcomes
  <2>3. CASE here(id)
    <3>1. PICK i \in queue \cup inflight : i.id = id
      BY <2>3
    <3>2. {j \in queue \cup inflight : j.id = id} = {i}
      BY <2>1, <3>1 DEF Numbered
    <3>3. Emitted(id) = {} /\ ~SilentlySkipped(id)
      BY <2>1, <2>2, <3>1 DEF Pending
    <3> QED
      BY <2>3, <3>2, <3>3, FS_Singleton
  <2>4. CASE ~here(id)
    <3>1. PICK x \in Settled : \A y \in Settled : <<id, y>> \in reports <=> y = x
      BY <2>1, <2>4 DEF Finished
    <3>2. CASE x = "skipped"
      <4>1. SilentlySkipped(id) /\ Emitted(id) = {}
        BY <2>2, <3>1, <3>2
      <4> QED
        BY <2>4, <4>1, FS_EmptySet
    <3>3. CASE x # "skipped"
      <4>1. ~SilentlySkipped(id) /\ Emitted(id) = {x}
        BY <2>2, <3>1, <3>3
      <4> QED
        BY <2>4, <4>1, FS_Singleton
    <3> QED
      BY <3>2, <3>3
  <2> QED
    BY <2>3, <2>4
<1> QED
  BY <1>1, QueueInvariant, PTL

-----------------------------------------------------------------------------
(* The queue does not sit still. *)

\* Of some items, one was enqueued first.
LEMMA FirstExists ==
  ASSUME NEW S \in SUBSET Items, S # {}
  PROVE  First(S) # {}
<1> DEFINE T == {i.id : i \in S}
<1>1. T \subseteq Nat /\ T # {}
  BY ConstantsAssumption DEF Items, Ids
<1>2. PICK m \in T : \A k \in T : ~(<<k, m>> \in OpToRel(<, Nat))
  BY <1>1, NatLessThanWellFounded, WFMin
<1> HIDE DEF T
<1>3. \A k \in T : m <= k
  <2> SUFFICES ASSUME NEW k \in T, k < m
               PROVE  FALSE
    BY <1>1
  <2>1. <<k, m>> \in Nat \X Nat /\ <<k, m>>[1] < <<k, m>>[2]
    BY <1>1
  <2>2. <<k, m>> \in OpToRel(<, Nat)
    BY <2>1, Zenon DEF OpToRel
  <2> QED
    BY <1>2, <2>2
<1>4. PICK i \in S : i.id = m
  BY DEF T
<1> QED
  BY <1>3, <1>4 DEF First, T

\* After dequeue(), an item that waits for nothing waits for a request.
Moving == (\E i \in queue : i.deps = {}) => inflight # {}

LEMMA DequeueMoves ==
  ASSUME NEW kn, NEW q \in SUBSET Items, NEW w, NEW fl, NEW rp, Dequeue(TRUE, kn, q, w, fl, rp)
  PROVE  Moving'
<1> DEFINE ready == {i \in q : i.deps = {}}
           able == {i \in ready : Sendable(i, kn)}
           head == First(able)
<1> SUFFICES ASSUME inflight' = {}, NEW i \in queue', i.deps = {}
             PROVE  FALSE
  BY DEF Moving
<1>1. inflight' = fl \cup head
  BY DEF Dequeue
<1>2. able = {}
  BY <1>1, FirstExists
<1>3. queue' \subseteq q \ {j \in ready : ~Sendable(j, kn) /\ \A h \in head : j.id < h.id}
  BY DEF Dequeue
<1>4. i \in ready /\ head = {}
  BY <1>2, <1>3 DEF First
<1> QED
  BY <1>2, <1>3, <1>4

\* A handler that ends with a call of dequeue().
Moves == \E kn, q, w, fl, rp : q \subseteq Items /\ Dequeue(dequeueing, kn, q, w, fl, rp)

LEMMA TrimsItems ==
  ASSUME NEW q, NEW d, Trims(q, d)
  PROVE  q \subseteq Items
<1> QED
  BY DEF Trims, WellMade

LEMMA EnqueueMoves ==
  ASSUME IInv, NEW i \in Items, Enqueue(i)
  PROVE  Moves /\ dequeueing' = dequeueing
<1>1. PICK refs \in SUBSET i.refs : \E rp :
        Dequeue(dequeueing, known,
                queue \cup {[i EXCEPT !.refs = refs, !.deps = InferredDependencies(queue, waiting, i)]},
                waiting, inflight, rp)
  BY DEF Enqueue
<1> DEFINE j == [i EXCEPT !.refs = refs, !.deps = InferredDependencies(queue, waiting, i)]
<1>2. InferredDependencies(queue, waiting, i) \subseteq Dependencies
  BY InvariantParts, DependenciesFound DEF Core
<1>3. j \in Items
  BY <1>2 DEF Items
<1>4. queue \cup {j} \subseteq Items
  BY <1>3, InvariantParts DEF Core, Typed
<1> HIDE DEF j
<1>5. \E rp : Dequeue(dequeueing, known, queue \cup {j}, waiting, inflight, rp)
  BY <1>1 DEF j
<1> QED
  BY <1>4, <1>5 DEF Moves, Enqueue

LEMMA HandlersMove ==
  ASSUME IInv, Next
  PROVE  \/ Moves /\ dequeueing' = dequeueing
         \/ Moving'
         \/ ~dequeueing' \/ halted'
         \/ UNCHANGED <<queue, inflight, dequeueing, halted>>
<1>1. queue \subseteq Items /\ \A o \in Objects : {o} \in SUBSET Objects
  BY InvariantParts DEF Core, Typed
<1>2. CASE StartDequeueing
  BY <1>1, <1>2, DequeueMoves DEF StartDequeueing
<1>3. CASE Client
  <2>1. ASSUME NEW o \in Objects, CreateObject(o)
        PROVE  Moves /\ dequeueing' = dequeueing
    <3>1. PICK refs \in SUBSET Enums, folder \in Folders \cup {NoFolder} :
            Enqueue(Item(next, "create", {o}, "client", refs, folder, 0))
      BY <2>1 DEF CreateObject, RefsOf
    <3>2. next \in Ids
      BY <2>1, InvariantParts DEF CreateObject, OtherTypes, Ids
    <3> DEFINE i == Item(next, "create", {o}, "client", refs, folder, 0)
    <3>3. i \in Items
      BY <3>2 DEF Item, Items, Kinds
    <3> HIDE DEF i
    <3> QED
      BY <3>1, <3>3, EnqueueMoves DEF i
  <2>2. ASSUME NEW objs \in SUBSET Plain, BulkCreateGenericStringObjects(objs)
        PROVE  Moves /\ dequeueing' = dequeueing
    <3>1. next \in Ids /\ objs \subseteq Objects
      BY <2>2, InvariantParts DEF BulkCreateGenericStringObjects, OtherTypes, Ids, Objects
    <3> DEFINE i == Item(next, "bulk", objs, "client", {}, NoFolder, 0)
    <3>2. i \in Items
      BY <3>1 DEF Item, Items, Kinds
    <3>3. Enqueue(i)
      BY <2>2 DEF BulkCreateGenericStringObjects
    <3> HIDE DEF i
    <3> QED
      BY <3>2, <3>3, EnqueueMoves
  <2>3. ASSUME NEW o \in Objects, UpdateObject(o)
        PROVE  Moves /\ dequeueing' = dequeueing
    <3>1. next \in Ids /\ cloudRev[o] \in Nat /\ NameOf(o) \in {"client", "server"}
      BY <2>3, InvariantParts DEF UpdateObject, OtherTypes, Ids, NameOf
    <3>2. PICK refs \in SUBSET Enums, name \in {"client", "server"}, rev \in Nat :
            Enqueue(Item(next, "update", {o}, name, refs, NoFolder, rev))
      BY <2>3, <3>1 DEF UpdateObject, RefsOf
    <3> DEFINE i == Item(next, "update", {o}, name, refs, NoFolder, rev)
    <3>3. i \in Items
      BY <3>1, <3>2 DEF Item, Items, Kinds
    <3> HIDE DEF i
    <3> QED
      BY <3>2, <3>3, EnqueueMoves DEF i
  <2>4. ASSUME NEW o \in Objects, RecordObjectAction(o)
        PROVE  Moves /\ dequeueing' = dequeueing
    <3>1. next \in Ids /\ NameOf(o) \in {"client", "server"}
      BY <2>4, InvariantParts DEF RecordObjectAction, OtherTypes, Ids, NameOf
    <3>2. PICK name \in {"client", "server"} :
            Enqueue(Item(next, "action", {o}, name, {}, NoFolder, 0))
      BY <2>4, <3>1 DEF RecordObjectAction
    <3> DEFINE i == Item(next, "action", {o}, name, {}, NoFolder, 0)
    <3>3. i \in Items
      BY <3>1, <3>2 DEF Item, Items, Kinds
    <3> HIDE DEF i
    <3> QED
      BY <3>2, <3>3, EnqueueMoves DEF i
  <2>5. CASE StopDequeueing
    BY <2>5 DEF StopDequeueing
  <2>6. CASE Clear
    BY <2>6 DEF Clear, Moving
  <2>7. ASSUME NEW o \in Objects, OtherClientEdits(o)
        PROVE  UNCHANGED <<queue, inflight, dequeueing, halted>>
    BY <2>7 DEF OtherClientEdits
  <2>8. ASSUME NEW r \in inflight, AnswerLost(r)
        PROVE  UNCHANGED <<queue, inflight, dequeueing, halted>>
    BY <2>8 DEF AnswerLost
  <2> QED
    BY <1>3, <2>1, <2>2, <2>3, <2>4, <2>5, <2>6, <2>7, <2>8 DEF Client
<1>4. ASSUME NEW r \in inflight, Answer(r)
      PROVE  (Moves /\ dequeueing' = dequeueing) \/ halted'
  <2>1. CASE CreationSucceeds(r) \/ BulkCreationSucceeds(r)
    <3>1. PICK o \in r.objs :
            /\ Succeeded(r, o)
            /\ \E w, fl, rp :
                 Dequeue(dequeueing, known \cup {o}, Created(r, o, serverRev'[o]), w, fl, rp)
      BY <2>1 DEF CreationSucceeds, BulkCreationSucceeds
    <3>2. Created(r, o, serverRev'[o]) \subseteq Items
      BY <3>1, SuccessTypes, CreatedTrims, TrimsItems
    <3>3. dequeueing' = dequeueing
      BY <2>1 DEF CreationSucceeds, BulkCreationSucceeds
    <3> QED
      BY <3>1, <3>2, <3>3 DEF Moves
  <2>2. CASE CreationDenied(r) \/ UpdateRejected(r)
    <3>1. PICK d, w, fl, rp : Dequeue(dequeueing, known, Freed(queue, d), w, fl, rp)
      BY <2>2 DEF CreationDenied, UpdateRejected
    <3>2. Freed(queue, d) \subseteq Items
      BY FreedTrims, TrimsItems
    <3>3. dequeueing' = dequeueing
      BY <2>2 DEF CreationDenied, UpdateRejected
    <3> QED
      BY <3>1, <3>2, <3>3 DEF Moves
  <2>3. CASE UpdateSucceeds(r)
    <3> DEFINE q2(o) == {[i EXCEPT !.rev = Refreshed(i, o, serverRev'[o], known)] :
                           i \in Freed(queue, <<r.id, o>>)}
    <3>1. PICK o \in r.objs :
            Succeeded(r, o) /\ \E w, fl, rp : Dequeue(dequeueing, known, q2(o), w, fl, rp)
      BY <2>3 DEF UpdateSucceeds
    <3>2. q2(o) \subseteq Items
      <4>1. serverRev'[o] \in Nat
        BY <3>1, SuccessTypes
      <4>2. Trims(q2(o), <<r.id, o>>)
        BY <4>1, UpdatedTrims
      <4> HIDE DEF q2
      <4> QED
        BY <4>2, TrimsItems
    <3>3. dequeueing' = dequeueing
      BY <2>3 DEF UpdateSucceeds
    <3> HIDE DEF q2
    <3> QED
      BY <3>1, <3>2, <3>3 DEF Moves
  <2>4. CASE ActionRecorded(r)
    BY <1>1, <2>4 DEF ActionRecorded, Moves
  <2>5. ASSUME NEW p, RequestFails(r, p)
        PROVE  (Moves /\ dequeueing' = dequeueing) \/ halted'
    <3> DEFINE rest == queue \ Dependents(queue, {<<r.id, o>> : o \in r.objs})
    <3>1. rest \subseteq Items
      BY <1>1
    <3>2. /\ dequeueing' = dequeueing
          /\ halted' \/ \E w, fl, rp : Dequeue(dequeueing, known, rest, w, fl, rp)
      BY <2>5 DEF RequestFails
    <3> HIDE DEF rest
    <3> QED
      BY <3>1, <3>2 DEF Moves
  <2> QED
    BY <1>4, <2>1, <2>2, <2>3, <2>4, <2>5 DEF Answer
<1> QED
  BY <1>2, <1>3, <1>4 DEF Next

\* While the queue is dequeueing, an item that waits for nothing waits for a
\* request in flight, whose answer calls dequeue(); unless an error that every
\* request would meet ended the last handler.
THEOREM QueueNeverStalls == Spec => []NoStall
<1>1. Init => NoStall
  BY DEF Init, NoStall
<1>2. IInv /\ NoStall /\ [Next]_vars => NoStall'
  <2> SUFFICES ASSUME IInv, NoStall, [Next]_vars, dequeueing', ~halted'
               PROVE  Moving'
    BY DEF NoStall, Moving
  <2>1. CASE UNCHANGED <<queue, inflight, dequeueing, halted>>
    BY <2>1 DEF NoStall, Moving
  <2>2. CASE Moves /\ dequeueing' = dequeueing
    <3>1. dequeueing = TRUE
      BY <2>2, InvariantParts DEF OtherTypes
    <3>2. PICK kn, q, w, fl, rp : q \subseteq Items /\ Dequeue(TRUE, kn, q, w, fl, rp)
      BY <2>2, <3>1 DEF Moves
    <3> QED
      BY <3>2, DequeueMoves
  <2>3. UNCHANGED vars => UNCHANGED <<queue, inflight, dequeueing, halted>>
    BY DEF vars
  <2> QED
    BY <2>1, <2>2, <2>3, HandlersMove
<1> QED
  BY <1>1, <1>2, QueueInvariant, PTL DEF Spec
=============================================================================
