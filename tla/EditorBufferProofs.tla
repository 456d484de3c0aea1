------------------------- MODULE EditorBufferProofs -------------------------
(***************************************************************************)
(* Proofs about EditorBuffer, for any number of replicas, of edits of any  *)
(* length and of messages: replicas that have observed the same operations *)
(* have the same text, no operation is lost or waits for nothing, and the  *)
(* undo stack tells what is undone.                                        *)
(*                                                                         *)
(* What they need to know of one text is in EditorTextProofs.  O is the    *)
(* set of all operations that were ever sent, s the buffer of replica r.   *)
(***************************************************************************)
EXTENDS EditorTextProofs

-----------------------------------------------------------------------------
(* What a replica has got, and what it knows of the others' cursors. *)

\* op was applied, or is older than what was.
Done(s, op) ==
  /\ Changes(op) => Observed(s.versions, op.ts)
  /\ op.kind = "selections" => op.ts[1] <= s.cursors[op.ts[2]].value

CursorsOK(O, s) ==
  /\ s.cursors \in [Replicas -> [value : Nat, anchor : Chars]]
  /\ \A q \in Replicas :
       \/ s.cursors[q] = [value |-> 0, anchor |-> Root]
       \/ \E x \in O : /\ x.kind = "selections" /\ x.ts = <<s.cursors[q].value, q>>
                       /\ x.anchor = s.cursors[q].anchor

DeferredOK(O, r, s) ==
  /\ IsFiniteSet(s.deferred) /\ s.deferred \subseteq O
  /\ \A op \in s.deferred : op.ts[2] # r /\ ~Ready(s, op)

-----------------------------------------------------------------------------
(* What a replica has done itself. *)

Mark(s, c) == c \in Chars /\ c \in Range(s.text)

\* Everything that r has sent it has observed.
Own(O, r, s) ==
  /\ \A x \in O : x.ts[2] = r =>
       x.ts[1] <= s.clock /\ (Changes(x) => x.ts[1] <= s.versions[r])
  /\ Mark(s, s.cursor)

\* Its cursor is where it last said.
CursorSent(O, r, s) ==
  \/ s.cursor = Root /\ \A x \in O : x.kind = "selections" => x.ts[2] # r
  \/ \E x \in O : /\ x.kind = "selections" /\ x.ts[2] = r /\ x.anchor = s.cursor
                  /\ \A y \in O : y.kind = "selections" /\ y.ts[2] = r => y.ts[1] <= x.ts[1]

Entries == [edits : SUBSET Nat, cursor : Chars]
EntryOK(r, s, i, e) ==
  /\ Mark(s, e.cursor) /\ IsFiniteSet(e.edits)
  /\ \A v \in e.edits : v <= s.clock /\ (Undone(s, <<v, r>>) <=> i > s.index)

\* An edit is in one entry of the stack, undone if that is above the index.
StackOK(r, s) ==
  /\ s.stack \in Seq(Entries)
  /\ Len(s.stack) \in 1..Capacity /\ s.index \in 1..Len(s.stack) /\ s.recent \in BOOLEAN
  /\ \A i \in 1..Len(s.stack) : EntryOK(r, s, i, s.stack[i])
  /\ \A i, j \in 1..Len(s.stack) : i # j => s.stack[i].edits \cap s.stack[j].edits = {}

\* Finitely many undos of each edit.
UndosOK(s) == \A ts \in Nat \X (0..N) : IsFiniteSet({u \in s.undos : u[1] = ts})

Fields == {"text", "dels", "undos", "clock", "versions", "deferred", "cursor", "cursors",
           "stack", "index", "recent"}
Shape(s) == s = [f \in Fields |-> s[f]]

\* Within a batch the cursor may have moved without being sent.
Local(O, r, s) ==
  /\ Shape(s) /\ Doc(O, s) /\ CursorsOK(O, s) /\ UndosOK(s) /\ DeferredOK(O, r, s)
  /\ Own(O, r, s) /\ StackOK(r, s)
Replica(O, r, s) == Local(O, r, s) /\ CursorSent(O, r, s)

-----------------------------------------------------------------------------
(* Messages. *)

Message(m) ==
  /\ Len(m) \in Nat \ {0} /\ DOMAIN m = 1..Len(m)
  /\ \A i \in DOMAIN m : m[i].ts[2] = m[1].ts[2]

Messages ==
  /\ \A m \in sent : Message(m)
  /\ received \in [Replicas -> SUBSET sent]
  /\ \A r \in Replicas : \A m \in received[r] :
       /\ m[1].ts[2] # r
       /\ \A i \in DOMAIN m : m[i] \in rep[r].deferred \/ Done(rep[r], m[i])

IInv ==
  /\ AllSound(Operations)
  /\ DOMAIN rep = Replicas
  /\ \A r \in Replicas : Replica(Operations, r, rep[r])
  /\ Messages

-----------------------------------------------------------------------------
(* apply_op. *)

LEMMA SplicedFields ==
  ASSUME NEW s, Shape(s), NEW p, NEW removed, NEW op
  PROVE  LET t == Spliced(s, p, removed, op)
         IN  /\ Shape(t) /\ t.text = Inserted(s.text, p, op)
             /\ t.dels = s.dels \cup {<<c, op.ts>> : c \in removed}
             /\ t.undos = s.undos /\ t.clock = s.clock /\ t.versions = s.versions
             /\ t.deferred = s.deferred /\ t.cursor = s.cursor /\ t.cursors = s.cursors
             /\ t.stack = s.stack /\ t.index = s.index /\ t.recent = s.recent
BY DEF Shape, Fields, Spliced, Inserted

LEMMA AcknowledgedFields ==
  ASSUME NEW s, Shape(s), NEW ts
  PROVE  LET t == Acknowledged(s, ts)
         IN  /\ Shape(t) /\ t.clock = ClockAfter(s.clock, ts) /\ t.versions = Observe(s.versions, ts)
             /\ t.text = s.text /\ t.dels = s.dels /\ t.undos = s.undos
             /\ t.deferred = s.deferred /\ t.cursor = s.cursor /\ t.cursors = s.cursors
             /\ t.stack = s.stack /\ t.index = s.index /\ t.recent = s.recent
BY DEF Shape, Fields, Acknowledged

LEMMA UndoneOrRedoneFields ==
  ASSUME NEW s, Shape(s), NEW op
  PROVE  LET t == UndoneOrRedone(s, op)
         IN  /\ Shape(t)
             /\ t.undos = s.undos \cup {<<<<v, op.ts[2]>>, op.ts[1]>> : v \in op.edits}
             /\ t.text = s.text /\ t.dels = s.dels /\ t.clock = s.clock /\ t.versions = s.versions
             /\ t.deferred = s.deferred /\ t.cursor = s.cursor /\ t.cursors = s.cursors
             /\ t.stack = s.stack /\ t.index = s.index /\ t.recent = s.recent
BY DEF Shape, Fields, UndoneOrRedone

LEMMA ClockFacts ==
  ASSUME NEW clock \in Nat, NEW ts, ts[1] \in Nat
  PROVE  ClockAfter(clock, ts) \in Nat /\ clock <= ClockAfter(clock, ts) /\ ts[1] <= ClockAfter(clock, ts)
BY DEF ClockAfter, Larger

\* What is the same after an operation of another replica was applied.
Kept(s, t) ==
  /\ t.cursor = s.cursor
  /\ t.stack = s.stack /\ t.index = s.index /\ t.recent = s.recent

LEMMA EditApplied ==
  ASSUME NEW O, AllSound(O), NEW op \in O, op.kind = "edit", NEW s, Shape(s), Doc(O, s),
         ~Observed(s.versions, op.ts), Ready(s, op)
  PROVE  LET t == Acknowledged(AppliedEdit(s, op), op.ts)
         IN  /\ Shape(t) /\ Doc(O, t) /\ Range(s.text) \subseteq Range(t.text)
             /\ t.undos = s.undos /\ t.cursors = s.cursors /\ Kept(s, t) /\ t.deferred = s.deferred
             /\ t.clock = ClockAfter(s.clock, op.ts) /\ t.versions = Observe(s.versions, op.ts)
<1> DEFINE a == Position(s, op.start)
           later == {j \in (a + 1)..Len(s.text) : Before(Ts(s.text[j]), op.ts)}
           p == IF later = {} THEN Len(s.text) + 1 ELSE CHOOSE j \in later : \A k \in later : j <= k
           removed == {s.text[j] : j \in {k \in a + 1..Position(s, op.end) :
                                            Observed(op.versions, Ts(s.text[k]))}}
           u == Spliced(s, p, removed, op)
           t == Acknowledged(u, op.ts)
<1>1. AppliedEdit(s, op) = u
  BY DEF AppliedEdit
<1>2. /\ Text(O, s.text) /\ Len(s.text) \in Nat
  BY DocText DEF Text
<1>3. /\ op.start \in Chars /\ Known(O, op.start) /\ op.end \in Chars /\ Known(O, op.end)
      /\ Observed(s.versions, Ts(op.start)) /\ Observed(s.versions, Ts(op.end))
      /\ Includes(s.versions, op.versions)
  BY DEF AllSound, Sound, Place, Ready
<1>4. /\ a \in 1..Len(s.text) /\ s.text[a] = op.start
      /\ Position(s, op.end) \in 1..Len(s.text) /\ s.text[Position(s, op.end)] = op.end
  BY <1>3, Placed
<1>5. removed = DeletedBy(s.text, op)
  <2>1. DeletedBy(s.text, op) = Between(s.text, op, a, Position(s, op.end))
    BY <1>2, <1>4, DeletedByPlaces
  <2> QED
    BY <2>1, Zenon DEF Between
<1> HIDE DEF a, removed
<1>6. Fits(s.text, a, p, op)
  <2>1. CASE later = {}
    BY <1>2, <1>4, <2>1 DEF Fits
  <2>2. CASE later # {}
    <3>1. later \in SUBSET Nat
      BY <1>2, <1>4
    <3> HIDE DEF later
    <3>2. p \in later /\ \A k \in later : p <= k
      BY <2>2, <3>1, Least
    <3> HIDE DEF p
    <3>3. p \in (a + 1)..Len(s.text) /\ Before(Ts(s.text[p]), op.ts)
      BY <3>2 DEF later
    <3>4. ASSUME NEW j \in (a + 1)..(p - 1) PROVE ~Before(Ts(s.text[j]), op.ts)
      <4>1. j \in (a + 1)..Len(s.text) /\ ~(p <= j)
        BY <1>2, <1>4, <3>3
      <4> QED
        BY <3>2, <4>1 DEF later
    <3> QED
      BY <1>2, <1>4, <3>3, <3>4 DEF Fits
  <2> QED
    BY <2>1, <2>2
<1> HIDE DEF p
<1>7. /\ Shape(u) /\ u.text = Inserted(s.text, p, op)
      /\ u.dels = s.dels \cup {<<c, op.ts>> : c \in removed}
      /\ u.undos = s.undos /\ u.clock = s.clock /\ u.versions = s.versions
      /\ u.deferred = s.deferred /\ u.cursor = s.cursor /\ u.cursors = s.cursors
      /\ u.stack = s.stack /\ u.index = s.index /\ u.recent = s.recent
  BY SplicedFields
<1> HIDE DEF u
<1>8. /\ Shape(t) /\ t.clock = ClockAfter(u.clock, op.ts) /\ t.versions = Observe(u.versions, op.ts)
      /\ t.text = u.text /\ t.dels = u.dels /\ t.undos = u.undos
      /\ t.deferred = u.deferred /\ t.cursor = u.cursor /\ t.cursors = u.cursors
      /\ t.stack = u.stack /\ t.index = u.index /\ t.recent = u.recent
  BY <1>7, AcknowledgedFields
<1> HIDE DEF t
<1>9. t.clock \in Nat /\ s.clock <= t.clock /\ op.ts[1] <= t.clock
  BY <1>7, <1>8, ClockFacts, Timestamps DEF Doc
<1>10. Doc(O, t) /\ Range(s.text) \subseteq Range(t.text)
  <2>1. t.dels = s.dels \cup Struck(s.text, op)
    <3>1. u.dels = s.dels \cup {<<c, op.ts>> : c \in removed} /\ t.dels = u.dels
      BY <1>7, <1>8
    <3> QED
      BY <1>5, <3>1, Zenon DEF Struck
  <2>2. t.text = Inserted(s.text, p, op) /\ t.undos = s.undos /\ t.versions = Observe(s.versions, op.ts)
    BY <1>7, <1>8
  <2>3. Includes(s.versions, op.versions)
    BY <1>3
  <2>4. Doc(O, t)
    BY <1>6, <1>9, <2>1, <2>2, <2>3, DocEdit
  <2>5. Range(s.text) \subseteq Range(t.text)
    <3>1. s.text \in Seq(Chars) /\ p \in 1..(Len(s.text) + 1)
      BY <1>2, <1>6 DEF Text, Fits
    <3>2. op.len \in Nat /\ op.ts \in (Nat \ {0}) \X Replicas
      BY DEF AllSound, Sound
    <3> QED
      BY <2>2, <3>1, <3>2, InsertedRange
  <2> QED
    BY <2>4, <2>5
<1> QED
  BY <1>1, <1>7, <1>8, <1>10 DEF t, Kept

LEMMA UndoApplied ==
  ASSUME NEW O, AllSound(O), NEW op \in O, op.kind = "undo", NEW s, Shape(s), Doc(O, s),
         ~Observed(s.versions, op.ts), Ready(s, op)
  PROVE  LET t == Acknowledged(UndoneOrRedone(s, op), op.ts)
         IN  /\ Shape(t) /\ Doc(O, t) /\ t.text = s.text
             /\ t.undos = s.undos \cup {<<<<v, op.ts[2]>>, op.ts[1]>> : v \in op.edits}
             /\ t.cursors = s.cursors /\ Kept(s, t) /\ t.deferred = s.deferred
             /\ t.clock = ClockAfter(s.clock, op.ts) /\ t.versions = Observe(s.versions, op.ts)
<1> DEFINE u == UndoneOrRedone(s, op)
           t == Acknowledged(u, op.ts)
<1>1. /\ Shape(u)
      /\ u.undos = s.undos \cup {<<<<v, op.ts[2]>>, op.ts[1]>> : v \in op.edits}
      /\ u.text = s.text /\ u.dels = s.dels /\ u.clock = s.clock /\ u.versions = s.versions
      /\ u.deferred = s.deferred /\ u.cursor = s.cursor /\ u.cursors = s.cursors
      /\ u.stack = s.stack /\ u.index = s.index /\ u.recent = s.recent
  BY UndoneOrRedoneFields
<1> HIDE DEF u
<1>2. /\ Shape(t) /\ t.clock = ClockAfter(u.clock, op.ts) /\ t.versions = Observe(u.versions, op.ts)
      /\ t.text = u.text /\ t.dels = u.dels /\ t.undos = u.undos
      /\ t.deferred = u.deferred /\ t.cursor = u.cursor /\ t.cursors = u.cursors
      /\ t.stack = u.stack /\ t.index = u.index /\ t.recent = u.recent
  BY <1>1, AcknowledgedFields
<1> HIDE DEF t
<1>3. t.clock \in Nat /\ s.clock <= t.clock /\ op.ts[1] <= t.clock
  BY <1>1, <1>2, ClockFacts, Timestamps DEF Doc
<1>4. Includes(s.versions, op.versions)
  BY DEF Ready
<1>5. Doc(O, t)
  BY <1>1, <1>2, <1>3, <1>4, DocUndo
<1> QED
  BY <1>1, <1>2, <1>5 DEF t, u, Kept

\* s with some operations of other replicas than r applied.
Buffer(O, s) == Shape(s) /\ Doc(O, s) /\ CursorsOK(O, s) /\ UndosOK(s)
UndosOf(s, r) == {u \in s.undos : u[1][2] = r}
Follows(O, r, s, t) ==
  /\ Buffer(O, t) /\ Kept(s, t)
  /\ Includes(t.versions, s.versions) /\ s.clock <= t.clock
  /\ \A q \in Replicas : s.cursors[q].value <= t.cursors[q].value
  /\ Range(s.text) \subseteq Range(t.text)
  /\ UndosOf(t, r) = UndosOf(s, r)

LEMMA FollowsItself ==
  ASSUME NEW O, NEW r, NEW s, Buffer(O, s)
  PROVE  Follows(O, r, s, s)
<1>1. s.versions \in [Replicas -> Nat] /\ s.clock \in Nat
  BY DEF Buffer, Doc, Closed
<1>2. \A q \in Replicas : s.cursors[q].value \in Nat
  BY DEF Buffer, CursorsOK
<1> QED
  BY <1>1, <1>2 DEF Follows, Kept, Includes

LEMMA FollowsOn ==
  ASSUME NEW O, NEW r, NEW s, NEW t, NEW u, Buffer(O, s), Follows(O, r, s, t), Follows(O, r, t, u)
  PROVE  Follows(O, r, s, u)
<1>1. \A b : Buffer(O, b) => /\ b.versions \in [Replicas -> Nat] /\ b.clock \in Nat
                             /\ \A q \in Replicas : b.cursors[q].value \in Nat
  BY DEF Buffer, Doc, Closed, CursorsOK
<1>2. Buffer(O, t) /\ Buffer(O, u)
  BY DEF Follows
<1>3. Includes(u.versions, s.versions)
  BY <1>1, <1>2 DEF Follows, Includes
<1>4. s.clock <= u.clock
  BY <1>1, <1>2 DEF Follows
<1>5. \A q \in Replicas : s.cursors[q].value <= u.cursors[q].value
  BY <1>1, <1>2 DEF Follows
<1> QED
  BY <1>2, <1>3, <1>4, <1>5 DEF Follows, Kept

LEMMA AppliedFollows ==
  ASSUME NEW O, AllSound(O), NEW r \in Replicas, NEW op \in O, op.ts[2] # r,
         NEW s, Buffer(O, s), Ready(s, op)
  PROVE  /\ Follows(O, r, s, Applied(s, op))
         /\ Done(Applied(s, op), op) /\ Applied(s, op).deferred = s.deferred
         /\ \/ Applied(s, op).versions = s.versions
            \/ Changes(op) /\ Applied(s, op).versions = Observe(s.versions, op.ts)
<1>1. /\ Shape(s) /\ Doc(O, s) /\ CursorsOK(O, s) /\ UndosOK(s)
      /\ s.versions \in [Replicas -> Nat] /\ s.clock \in Nat /\ Closed(O, s.versions)
      /\ s.cursors \in [Replicas -> [value : Nat, anchor : Chars]]
  BY DEF Buffer, Doc, Closed, CursorsOK
<1>2. op.ts[1] \in Nat /\ op.ts[2] \in Replicas /\ op.kind \in {"edit", "undo", "selections"}
  BY Timestamps DEF AllSound, Sound
<1>3. \A q \in Replicas : s.cursors[q].value \in Nat
  BY <1>1
<1>4. ClockAfter(s.clock, op.ts) \in Nat /\ s.clock <= ClockAfter(s.clock, op.ts)
  BY <1>1, <1>2, ClockFacts
<1>5. ASSUME NEW t, t.versions = Observe(s.versions, op.ts), Changes(op),
             ~Observed(s.versions, op.ts), Ready(s, op)
      PROVE  Includes(t.versions, s.versions) /\ Done(t, op)
  <2>1. Includes(s.versions, op.versions)
    BY <1>5 DEF Ready, Changes
  <2>2. Includes(t.versions, s.versions) /\ Observed(t.versions, op.ts)
    BY <1>1, <1>5, <2>1, ObserveFacts
  <2> QED
    BY <1>5, <2>2 DEF Done, Changes
<1>6. CASE op.kind = "edit" /\ ~Observed(s.versions, op.ts)
  <2> DEFINE t == Acknowledged(AppliedEdit(s, op), op.ts)
  <2>1. Applied(s, op) = t
    BY <1>6, Zenon DEF Applied
  <2>2. /\ Shape(t) /\ Doc(O, t) /\ Range(s.text) \subseteq Range(t.text)
        /\ t.undos = s.undos /\ t.cursors = s.cursors /\ Kept(s, t) /\ t.deferred = s.deferred
        /\ t.clock = ClockAfter(s.clock, op.ts) /\ t.versions = Observe(s.versions, op.ts)
    BY <1>1, <1>6, EditApplied, SMTT(60)
  <2> HIDE DEF t
  <2>3. Includes(t.versions, s.versions) /\ Done(t, op)
    BY <1>5, <1>6, <2>2 DEF Changes
  <2>4. CursorsOK(O, t) /\ UndosOK(t) /\ UndosOf(t, r) = UndosOf(s, r)
    BY <1>1, <2>2, ZenonT(60) DEF CursorsOK, UndosOK, UndosOf
  <2>5. Follows(O, r, s, t)
    BY <1>3, <1>4, <2>2, <2>3, <2>4 DEF Follows, Buffer
  <2> QED
    BY <1>6, <2>1, <2>2, <2>3, <2>5 DEF Changes
<1>7. CASE op.kind = "undo" /\ ~Observed(s.versions, op.ts)
  <2> DEFINE t == Acknowledged(UndoneOrRedone(s, op), op.ts)
             new == {<<<<v, op.ts[2]>>, op.ts[1]>> : v \in op.edits}
  <2>1. Applied(s, op) = t
    BY <1>7, Zenon DEF Applied
  <2>2. /\ Shape(t) /\ Doc(O, t) /\ t.text = s.text /\ t.undos = s.undos \cup new
        /\ t.cursors = s.cursors /\ Kept(s, t) /\ t.deferred = s.deferred
        /\ t.clock = ClockAfter(s.clock, op.ts) /\ t.versions = Observe(s.versions, op.ts)
    BY <1>1, <1>7, UndoApplied
  <2>3. \A u \in new : u = <<u[1], op.ts[1]>> /\ u[1][2] = op.ts[2]
    OBVIOUS
  <2> HIDE DEF t, new
  <2>4. Includes(t.versions, s.versions) /\ Done(t, op)
    BY <1>5, <1>7, <2>2 DEF Changes
  <2>5. CursorsOK(O, t)
    BY <1>1, <2>2, ZenonT(60) DEF CursorsOK
  <2>6. UndosOf(t, r) = UndosOf(s, r)
    BY <2>2, <2>3 DEF UndosOf
  <2>7. ASSUME NEW ts \in Nat \X (0..N) PROVE IsFiniteSet({u \in t.undos : u[1] = ts})
    <3> DEFINE old == {u \in s.undos : u[1] = ts}
    <3>1. IsFiniteSet(old)
      BY <1>1 DEF UndosOK
    <3>2. IsFiniteSet(old \cup {<<ts, op.ts[1]>>})
      BY <3>1, FS_AddElement
    <3>3. {u \in t.undos : u[1] = ts} \in SUBSET (old \cup {<<ts, op.ts[1]>>})
      BY <2>2, <2>3
    <3> QED
      BY <3>2, <3>3, FS_Subset
  <2>8. Follows(O, r, s, t)
    BY <1>3, <1>4, <2>2, <2>4, <2>5, <2>6, <2>7 DEF Follows, Buffer, UndosOK
  <2> QED
    BY <1>7, <2>1, <2>2, <2>4, <2>8 DEF Changes
<1>8. CASE op.kind = "selections" /\ s.cursors[op.ts[2]].value < op.ts[1]
  <2> DEFINE q == op.ts[2]
             c == [value |-> op.ts[1], anchor |-> op.anchor]
             t == AcknowledgedSelections([s EXCEPT !.cursors[q] = c], op.ts)
  <2>1. Applied(s, op) = t
    BY <1>8, Zenon DEF Applied
  <2>2. /\ Shape(t) /\ t.clock = ClockAfter(s.clock, op.ts) /\ t.cursors = [s.cursors EXCEPT ![q] = c]
        /\ t.versions = s.versions /\ t.text = s.text /\ t.dels = s.dels /\ t.undos = s.undos
        /\ t.deferred = s.deferred /\ t.cursor = s.cursor
        /\ t.stack = s.stack /\ t.index = s.index /\ t.recent = s.recent
    <3> HIDE DEF c, q
    <3> QED
      BY <1>1 DEF Shape, Fields, AcknowledgedSelections
  <2> HIDE DEF t
  <2>3. /\ t.cursors \in [Replicas -> [value : Nat, anchor : Chars]]
        /\ t.cursors[q] = c /\ \A p \in Replicas : p # q => t.cursors[p] = s.cursors[p]
    <3>1. c \in [value : Nat, anchor : Chars]
      BY <1>2, <1>8 DEF AllSound, Sound
    <3> QED
      BY <1>1, <1>2, <2>2, <3>1
  <2>4. c.value = op.ts[1] /\ c.anchor = op.anchor
    OBVIOUS
  <2>5. op.ts = <<op.ts[1], q>>
    BY Timestamps
  <2> HIDE DEF c, q
  <2>6. CursorsOK(O, t)
    <3>1. ASSUME NEW p \in Replicas
          PROVE  \/ t.cursors[p] = [value |-> 0, anchor |-> Root]
                 \/ \E x \in O : /\ x.kind = "selections" /\ x.ts = <<t.cursors[p].value, p>>
                                 /\ x.anchor = t.cursors[p].anchor
      <4>1. CASE p = q
        BY <1>8, <2>3, <2>4, <2>5, <4>1
      <4>2. CASE p # q
        BY <1>1, <2>3, <4>2, ZenonT(60) DEF CursorsOK
      <4> QED
        BY <4>1, <4>2
    <3> QED
      BY <2>3, <3>1 DEF CursorsOK
  <2>7. Doc(O, t)
    BY <1>1, <1>4, <2>2, DocClock
  <2>8. UndosOK(t) /\ UndosOf(t, r) = UndosOf(s, r)
    BY <1>1, <2>2 DEF UndosOK, UndosOf
  <2>9. \A p \in Replicas : s.cursors[p].value <= t.cursors[p].value
    BY <1>2, <1>3, <1>8, <2>3, <2>4 DEF q
  <2>10. Includes(t.versions, s.versions)
    BY <1>1, <2>2 DEF Includes
  <2>11. Follows(O, r, s, t)
    BY <1>4, <2>2, <2>6, <2>7, <2>8, <2>9, <2>10 DEF Follows, Buffer, Kept
  <2>12. Done(t, op)
    <3>1. op.kind = "selections" /\ ~Changes(op)
      BY <1>8 DEF Changes
    <3>2. t.cursors[op.ts[2]].value = op.ts[1]
      BY <2>3, <2>4 DEF q
    <3> QED
      BY <1>2, <3>1, <3>2 DEF Done
  <2> QED
    BY <2>1, <2>2, <2>11, <2>12
<1>9. CASE /\ ~(op.kind \in {"edit", "undo"} /\ ~Observed(s.versions, op.ts))
           /\ ~(op.kind = "selections" /\ s.cursors[op.ts[2]].value < op.ts[1])
  <2>1. Applied(s, op) = s
    BY <1>9 DEF Applied
  <2>2. Follows(O, r, s, s)
    BY FollowsItself
  <2>3. Done(s, op)
    BY <1>2, <1>3, <1>9 DEF Done, Changes
  <2> QED
    BY <2>1, <2>2, <2>3
<1> QED
  BY <1>2, <1>6, <1>7, <1>8, <1>9

\* The loop of apply_ops is what it looks like.
LEMMA TurnsDefined ==
  ASSUME NEW s, NEW ops, Len(ops) \in Nat
  PROVE  /\ Turns(s, ops)[0] = [s |-> s, later |-> {}]
         /\ \A i \in 1..Len(ops) : Turns(s, ops)[i] = Turn(Turns(s, ops)[i - 1], ops[i])
<1> DEFINE Body(g, i) == IF i = 0 THEN [s |-> s, later |-> {}] ELSE Turn(g[i - 1], ops[i])
           S == {n \in Nat : \E g : g = [i \in 0..n |-> Body(g, i)]}
<1>1. 0 \in S
  <2> DEFINE g == [i \in 0..0 |-> [s |-> s, later |-> {}]]
  <2>1. g = [i \in 0..0 |-> Body(g, i)]
    OBVIOUS
  <2> QED
    BY <2>1, Zenon
<1>2. ASSUME NEW n \in Nat, n \in S PROVE n + 1 \in S
  <2>1. PICK g : g = [i \in 0..n |-> Body(g, i)]
    BY <1>2
  <2> DEFINE h == [i \in 0..(n + 1) |-> IF i = n + 1 THEN Turn(g[n], ops[n + 1]) ELSE g[i]]
  <2>2. ASSUME NEW i \in 0..(n + 1) PROVE h[i] = Body(h, i)
    <3>1. CASE i = 0
      <4>1. g[0] = [s |-> s, later |-> {}]
        BY <2>1
      <4>2. h[0] = g[0]
        <5> HIDE DEF Body
        <5> QED
          OBVIOUS
      <4>3. Body(h, 0) = [s |-> s, later |-> {}]
        BY Zenon
      <4> HIDE DEF h, Body
      <4> QED
        BY <3>1, <4>1, <4>2, <4>3
    <3>2. CASE i \in 1..n
      <4>1. i \in 0..n /\ i # 0 /\ i - 1 \in 0..(n + 1) /\ i # n + 1 /\ i - 1 # n + 1
        BY <3>2
      <4>2. Body(g, i) = Turn(g[i - 1], ops[i]) /\ Body(h, i) = Turn(h[i - 1], ops[i])
        BY <4>1, Zenon
      <4> HIDE DEF Body
      <4>3. g[i] = Body(g, i)
        BY <2>1, <4>1
      <4>4. h[i] = g[i] /\ h[i - 1] = g[i - 1]
        BY <4>1
      <4> HIDE DEF h
      <4> QED
        BY <4>2, <4>3, <4>4
    <3>3. CASE i = n + 1
      <4>1. h[n] = g[n] /\ i - 1 = n /\ i # 0
        BY <3>3
      <4> QED
        BY <3>3, <4>1
    <3> QED
      BY <3>1, <3>2, <3>3
  <2>3. h = [i \in 0..(n + 1) |-> Body(h, i)]
    <3> HIDE DEF Body
    <3> SUFFICES \A i \in 0..(n + 1) : h[i] = [j \in 0..(n + 1) |-> Body(h, j)][i]
      OBVIOUS
    <3> QED
      BY <2>2
  <2> HIDE DEF h
  <2> QED
    BY <2>3
<1>3. Len(ops) \in S
  <2> HIDE DEF S
  <2> QED
    BY <1>1, <1>2, Induction
<1>4. Turns(s, ops) = CHOOSE g : g = [i \in 0..Len(ops) |-> Body(g, i)]
  BY Zenon DEF Turns
<1>5. Turns(s, ops) = [i \in 0..Len(ops) |-> Body(Turns(s, ops), i)]
  <2>1. \E g : g = [i \in 0..Len(ops) |-> Body(g, i)]
    BY <1>3
  <2> QED
    BY <1>4, <2>1, Zenon
<1>6. ASSUME NEW g, g = [i \in 0..Len(ops) |-> Body(g, i)]
      PROVE  /\ g[0] = [s |-> s, later |-> {}]
             /\ \A i \in 1..Len(ops) : g[i] = Turn(g[i - 1], ops[i])
  <2>1. \A i \in 0..Len(ops) : g[i] = Body(g, i)
    <3> HIDE DEF Body
    <3> QED
      BY <1>6
  <2>2. g[0] = [s |-> s, later |-> {}]
    <3>1. 0 \in 0..Len(ops)
      OBVIOUS
    <3> QED
      BY <2>1, <3>1, Zenon
  <2>3. ASSUME NEW i \in 1..Len(ops) PROVE g[i] = Turn(g[i - 1], ops[i])
    <3>1. i \in 0..Len(ops) /\ i # 0
      OBVIOUS
    <3> QED
      BY <2>1, <3>1, Zenon
  <2> QED
    BY <2>2, <2>3
<1> QED
  BY <1>5, <1>6

\* What was done stays done.
LEMMA DoneStays ==
  ASSUME NEW O, AllSound(O), NEW r, NEW s, Buffer(O, s), NEW t, Follows(O, r, s, t),
         NEW op \in O, Done(s, op)
  PROVE  Done(t, op)
<1>1. \A b : Buffer(O, b) => /\ b.versions \in [Replicas -> Nat]
                             /\ \A q \in Replicas : b.cursors[q].value \in Nat
  BY DEF Buffer, Doc, Closed, CursorsOK
<1>2. Buffer(O, t) /\ Includes(t.versions, s.versions)
  BY DEF Follows
<1>3. op.ts[1] \in Nat /\ op.ts[2] \in Replicas /\ op.ts[2] \in 0..N
  BY Timestamps, ConstantsAssumption DEF Replicas
<1>4. Changes(op) => Observed(t.versions, op.ts)
  BY <1>1, <1>2, <1>3, ObservedStays DEF Done
<1>5. op.kind = "selections" => op.ts[1] <= t.cursors[op.ts[2]].value
  BY <1>1, <1>2, <1>3 DEF Done, Follows
<1> QED
  BY <1>4, <1>5 DEF Done

\* After i turns of the loop from s, acc has a buffer to which some operations were applied,
\* and the others are to be deferred.
Progress(O, r, s, ops, i, acc) ==
  /\ Follows(O, r, s, acc.s) /\ acc.s.deferred = s.deferred /\ IsFiniteSet(acc.later)
  /\ \A x \in acc.later : \E j \in 1..i : x = ops[j]
  /\ \A j \in 1..i : ops[j] \in acc.later \/ Done(acc.s, ops[j])

LEMMA TurnProgress ==
  ASSUME NEW O, AllSound(O), NEW r \in Replicas, NEW s, Buffer(O, s), NEW ops, NEW i \in Nat,
         NEW acc, Progress(O, r, s, ops, i, acc), ops[i + 1] \in O, ops[i + 1].ts[2] # r,
         \A j \in 1..i : ops[j] \in O
  PROVE  Progress(O, r, s, ops, i + 1, Turn(acc, ops[i + 1]))
<1> DEFINE op == ops[i + 1]
           after == Turn(acc, op)
<1>1. /\ Follows(O, r, s, acc.s) /\ Buffer(O, acc.s) /\ acc.s.deferred = s.deferred
      /\ IsFiniteSet(acc.later)
      /\ \A x \in acc.later : \E j \in 1..i : x = ops[j]
      /\ \A j \in 1..i : ops[j] \in acc.later \/ Done(acc.s, ops[j])
  BY DEF Progress, Follows
<1>2. \A j \in 1..(i + 1) : j \in 1..i \/ j = i + 1
  OBVIOUS
<1>3. 1..i \subseteq 1..(i + 1) /\ i + 1 \in 1..(i + 1)
  OBVIOUS
<1>4. CASE Ready(acc.s, op) /\ ~ReplicaDeferred(acc.s.deferred, op)
  <2>1. after = [s |-> Applied(acc.s, op), later |-> acc.later]
    BY <1>4, Zenon DEF Turn
  <2>2. after.s = Applied(acc.s, op) /\ after.later = acc.later
    BY <2>1
  <2> HIDE DEF after
  <2>3. Follows(O, r, acc.s, after.s) /\ Done(after.s, op) /\ after.s.deferred = s.deferred
    BY <1>1, <1>4, <2>2, AppliedFollows
  <2>4. Follows(O, r, s, after.s)
    BY <1>1, <2>3, FollowsOn
  <2>5. \A j \in 1..i : ops[j] \in after.later \/ Done(after.s, ops[j])
    BY <1>1, <2>2, <2>3, DoneStays
  <2>6. \A j \in 1..(i + 1) : ops[j] \in after.later \/ Done(after.s, ops[j])
    BY <1>2, <2>3, <2>5
  <2>7. \A x \in after.later : \E j \in 1..(i + 1) : x = ops[j]
    BY <1>1, <1>3, <2>2
  <2>8. Progress(O, r, s, ops, i + 1, after)
    BY <1>1, <2>2, <2>3, <2>4, <2>6, <2>7 DEF Progress
  <2> QED
    BY <2>8 DEF after
<1>5. CASE ~(Ready(acc.s, op) /\ ~ReplicaDeferred(acc.s.deferred, op))
  <2>1. after = [s |-> acc.s, later |-> acc.later \cup {op}]
    BY <1>5, Zenon DEF Turn
  <2>2. after.s = acc.s /\ after.later = acc.later \cup {op}
    BY <2>1
  <2> HIDE DEF after
  <2>3. IsFiniteSet(after.later)
    BY <1>1, <2>2, FS_AddElement
  <2>4. \A j \in 1..(i + 1) : ops[j] \in after.later \/ Done(after.s, ops[j])
    BY <1>1, <1>2, <2>2
  <2>5. \A x \in after.later : \E j \in 1..(i + 1) : x = ops[j]
    BY <1>1, <1>3, <2>2
  <2>6. Progress(O, r, s, ops, i + 1, after)
    BY <1>1, <2>2, <2>3, <2>4, <2>5 DEF Progress
  <2> QED
    BY <2>6 DEF after
<1> QED
  BY <1>4, <1>5

LEMMA TurnsProgress ==
  ASSUME NEW O, AllSound(O), NEW r \in Replicas, NEW s, Buffer(O, s), NEW ops, Len(ops) \in Nat,
         \A j \in 1..Len(ops) : ops[j] \in O /\ ops[j].ts[2] # r
  PROVE  \A i \in 0..Len(ops) : Progress(O, r, s, ops, i, Turns(s, ops)[i])
<1> DEFINE T == Turns(s, ops)
           S == {i \in Nat : i <= Len(ops) => Progress(O, r, s, ops, i, T[i])}
<1>1. T[0] = [s |-> s, later |-> {}] /\ \A i \in 1..Len(ops) : T[i] = Turn(T[i - 1], ops[i])
  BY TurnsDefined
<1> HIDE DEF T
<1>2. 0 \in S
  <2>1. T[0].s = s /\ T[0].later = {}
    BY <1>1
  <2>2. Progress(O, r, s, ops, 0, T[0])
    BY <2>1, FollowsItself, FS_EmptySet DEF Progress
  <2> QED
    BY <2>2
<1>3. ASSUME NEW i \in Nat, i \in S PROVE i + 1 \in S
  <2> SUFFICES ASSUME i + 1 <= Len(ops) PROVE Progress(O, r, s, ops, i + 1, T[i + 1])
    OBVIOUS
  <2>1. i + 1 \in 1..Len(ops) /\ (i + 1) - 1 = i /\ 1..i \subseteq 1..Len(ops) /\ i <= Len(ops)
    OBVIOUS
  <2>2. T[i + 1] = Turn(T[i], ops[i + 1])
    BY <1>1, <2>1
  <2>3. Progress(O, r, s, ops, i, T[i])
    BY <1>3, <2>1
  <2>4. Progress(O, r, s, ops, i + 1, Turn(T[i], ops[i + 1]))
    BY <2>1, <2>3, TurnProgress
  <2> QED
    BY <2>2, <2>4
<1>4. Nat \subseteq S
  <2> HIDE DEF S
  <2> QED
    BY <1>2, <1>3, Induction
<1> QED
  BY <1>4 DEF T

-----------------------------------------------------------------------------
(* One pass in the order of the timestamps is enough. *)

\* An operation is ready if it was before all that may count for it was observed.
LEMMA ReadyStill ==
  ASSUME NEW O, AllSound(O), NEW x \in O, NEW s, s.versions \in [Replicas -> Nat],
         NEW t, t.versions \in [Replicas -> Nat], Ready(t, x),
         \A v \in Nat : \A q \in Replicas :
           Real(O, v, q) /\ v < x.ts[1] /\ v <= t.versions[q] => v <= s.versions[q]
  PROVE  Ready(s, x)
<1>1. /\ x.ts[1] \in Nat /\ Sound(O, x)
  BY Timestamps DEF AllSound
<1>2. ASSUME NEW v \in Nat, NEW q \in Replicas, Real(O, v, q), v < x.ts[1], v <= t.versions[q]
      PROVE  v <= s.versions[q]
  BY <1>2
<1>3. t.versions \in [Replicas -> Nat]
  OBVIOUS
<1>4. ASSUME NEW c \in Chars, Known(O, c), c[2] = 0 \/ c[1] < x.ts[1], Observed(t.versions, Ts(c))
      PROVE  Observed(s.versions, Ts(c))
  <2>1. c[1] \in Nat /\ c[2] \in 0..N /\ Ts(c)[1] = c[1] /\ Ts(c)[2] = c[2] /\ Ts(c) = <<c[1], c[2]>>
    BY CharFacts DEF Ts
  <2>2. CASE c[2] = 0
    BY <2>1, <2>2 DEF Observed
  <2>3. CASE c[2] # 0
    <3>1. c[2] \in Replicas
      BY <2>1, <2>3, ConstantsAssumption DEF Replicas
    <3>2. Real(O, c[1], c[2])
      BY <1>4, <2>1, <2>3 DEF Known, Real, Changes
    <3>3. c[1] <= t.versions[c[2]]
      BY <1>3, <1>4, <2>1, <2>3, <3>1 DEF Observed
    <3>4. c[1] <= s.versions[c[2]]
      BY <1>2, <1>4, <2>1, <2>3, <3>1, <3>2, <3>3
    <3> QED
      BY <1>1, <2>1, <3>1, <3>4 DEF Observed
  <2> QED
    BY <2>2, <2>3
<1>5. ASSUME Changes(x), Includes(t.versions, x.versions) PROVE Includes(s.versions, x.versions)
  <2>1. /\ x.versions \in [Replicas -> Nat]
        /\ \A q \in Replicas : x.versions[q] < x.ts[1] /\ Real(O, x.versions[q], q)
    BY <1>1, <1>5 DEF Sound, Informed
  <2> QED
    BY <1>2, <1>5, <2>1 DEF Includes
<1>6. ASSUME NEW c, x.kind = "edit", Place(O, x, c), Observed(t.versions, Ts(c))
      PROVE  Observed(s.versions, Ts(c))
  <2>1. c \in Chars /\ Known(O, c) /\ Observed(x.versions, Ts(c))
    BY <1>6 DEF Place
  <2>2. c[1] \in Nat /\ c[2] \in 0..N /\ Ts(c)[1] = c[1] /\ Ts(c)[2] = c[2]
    BY <2>1, CharFacts
  <2>3. c[2] = 0 \/ c[1] < x.ts[1]
    <3> SUFFICES ASSUME c[2] # 0 PROVE c[1] < x.ts[1]
      OBVIOUS
    <3>1. c[2] \in Replicas
      BY <2>2, ConstantsAssumption DEF Replicas
    <3>2. c[1] <= x.versions[c[2]] /\ x.versions[c[2]] \in Nat /\ x.versions[c[2]] < x.ts[1]
      BY <1>1, <1>6, <2>1, <2>2, <3>1 DEF Observed, Sound, Informed, Changes
    <3> QED
      BY <1>1, <2>2, <3>2
  <2> QED
    BY <1>4, <1>6, <2>1, <2>3
<1>7. CASE x.kind = "edit"
  BY <1>1, <1>5, <1>6, <1>7 DEF Ready, Sound, Changes
<1>8. CASE x.kind = "undo"
  BY <1>5, <1>8 DEF Ready, Changes
<1>9. CASE x.kind = "selections"
  BY <1>1, <1>4, <1>9 DEF Ready, Sound
<1> QED
  BY <1>1, <1>7, <1>8, <1>9 DEF Sound

\* What y makes ready is newer than y.
LEMMA ReadyBefore ==
  ASSUME NEW O, AllSound(O), NEW x \in O, NEW y \in O, x.ts[1] <= y.ts[1],
         NEW s, Closed(O, s.versions), Ready(s, y), NEW t,
         t.versions = s.versions \/ (Changes(y) /\ t.versions = Observe(s.versions, y.ts)),
         Ready(t, x)
  PROVE  Ready(s, x)
<1>1. /\ x.ts[1] \in Nat /\ y.ts[1] \in Nat /\ y.ts[2] \in Replicas /\ Sound(O, x) /\ Sound(O, y)
      /\ s.versions \in [Replicas -> Nat]
  BY Timestamps DEF AllSound, Closed
<1>2. ASSUME NEW v \in Nat, NEW q \in Replicas, Real(O, v, q), v < x.ts[1], v <= t.versions[q]
      PROVE  v <= s.versions[q]
  <2>1. CASE v = 0
    BY <1>1, <2>1
  <2>2. CASE t.versions = s.versions \/ q # y.ts[2]
    BY <1>1, <1>2, <2>2 DEF Observe
  <2>3. CASE v # 0 /\ q = y.ts[2] /\ Changes(y)
    <3>1. PICK e \in O : Changes(e) /\ e.ts = <<v, q>>
      BY <1>2, <2>3 DEF Real
    <3>2. e.ts[1] = v /\ e.ts[2] = y.ts[2] /\ v < y.ts[1]
      BY <1>1, <1>2, <2>3, <3>1
    <3>3. v <= y.versions[q] /\ y.versions[q] \in Nat
      BY <1>1, <2>3, <3>1, <3>2 DEF Sound, Informed
    <3>4. y.versions[q] <= s.versions[q]
      BY <2>3 DEF Ready, Includes, Changes
    <3> QED
      BY <1>1, <3>3, <3>4
  <2> QED
    BY <2>1, <2>2, <2>3
<1>3. t.versions \in [Replicas -> Nat]
  BY <1>1 DEF Observe, Larger
<1> QED
  BY <1>1, <1>2, <1>3, ReadyStill

LEMMA SortedTurns ==
  ASSUME NEW O, AllSound(O), NEW r \in Replicas, NEW s, Buffer(O, s), s.deferred = {},
         NEW ops, Len(ops) \in Nat, \A j \in 1..Len(ops) : ops[j] \in O /\ ops[j].ts[2] # r,
         \A i, j \in 1..Len(ops) : i < j => ~Before(ops[j].ts, ops[i].ts)
  PROVE  \A x \in Turns(s, ops)[Len(ops)].later : ~Ready(Turns(s, ops)[Len(ops)].s, x)
<1> DEFINE T == Turns(s, ops)
           S == {i \in Nat : i <= Len(ops) => \A x \in T[i].later : ~Ready(T[i].s, x)}
<1>1. T[0] = [s |-> s, later |-> {}] /\ \A i \in 1..Len(ops) : T[i] = Turn(T[i - 1], ops[i])
  BY TurnsDefined
<1>2. \A i \in 0..Len(ops) : Progress(O, r, s, ops, i, T[i])
  BY TurnsProgress
<1> HIDE DEF T
<1>3. 0 \in S
  BY <1>1
<1>4. ASSUME NEW i \in Nat, i \in S PROVE i + 1 \in S
  <2> SUFFICES ASSUME i + 1 <= Len(ops), NEW x \in T[i + 1].later, Ready(T[i + 1].s, x) PROVE FALSE
    OBVIOUS
  <2> DEFINE op == ops[i + 1]
             acc == T[i]
  <2>1. i + 1 \in 1..Len(ops) /\ (i + 1) - 1 = i /\ i \in 0..Len(ops) /\ i <= Len(ops)
    OBVIOUS
  <2>2. T[i + 1] = Turn(acc, op)
    BY <1>1, <2>1
  <2>3. Progress(O, r, s, ops, i, acc) /\ \A y \in acc.later : ~Ready(acc.s, y)
    BY <1>2, <1>4, <2>1
  <2> HIDE DEF acc
  <2>4. op \in O /\ Buffer(O, acc.s) /\ acc.s.deferred = {}
    BY <2>1, <2>3 DEF Progress, Follows
  <2>5. ~ReplicaDeferred(acc.s.deferred, op)
    BY <2>4 DEF ReplicaDeferred
  <2>6. CASE Ready(acc.s, op)
    <3>1. T[i + 1] = [s |-> Applied(acc.s, op), later |-> acc.later]
      BY <2>2, <2>5, <2>6, Zenon DEF Turn
    <3>2. x \in acc.later /\ Ready(Applied(acc.s, op), x)
      BY <3>1
    <3>3. PICK j \in 1..i : x = ops[j]
      BY <2>3, <3>2 DEF Progress
    <3>4. j \in 1..Len(ops) /\ j < i + 1
      BY <2>1
    <3>5. x \in O /\ ~Before(op.ts, x.ts)
      BY <2>1, <3>3, <3>4
    <3>6. x.ts[1] <= op.ts[1]
      BY <2>4, <3>5, Timestamps DEF Before
    <3>7. \/ Applied(acc.s, op).versions = acc.s.versions
          \/ Changes(op) /\ Applied(acc.s, op).versions = Observe(acc.s.versions, op.ts)
      BY <2>1, <2>4, <2>6, AppliedFollows
    <3>8. Closed(O, acc.s.versions)
      BY <2>4 DEF Buffer, Doc
    <3>9. Ready(acc.s, x)
      BY <2>4, <2>6, <3>2, <3>5, <3>6, <3>7, <3>8, ReadyBefore
    <3> QED
      BY <2>3, <3>2, <3>9
  <2>7. CASE ~Ready(acc.s, op)
    <3>1. T[i + 1] = [s |-> acc.s, later |-> acc.later \cup {op}]
      BY <2>2, <2>7, Zenon DEF Turn
    <3>2. x \in acc.later \cup {op} /\ Ready(acc.s, x)
      BY <3>1
    <3> QED
      BY <2>3, <2>7, <3>2
  <2> QED
    BY <2>6, <2>7
<1>5. Nat \subseteq S
  <2> HIDE DEF S
  <2> QED
    BY <1>3, <1>4, Induction
<1> QED
  BY <1>5 DEF T

-----------------------------------------------------------------------------
(* apply_ops. *)

Deferring(s, d) == [s EXCEPT !.deferred = d]

LEMMA DeferredFields ==
  ASSUME NEW s, Shape(s), NEW d
  PROVE  LET t == Deferring(s, d)
         IN  /\ Shape(t) /\ t.deferred = d
             /\ t.text = s.text /\ t.dels = s.dels /\ t.undos = s.undos
             /\ t.clock = s.clock /\ t.versions = s.versions
             /\ t.cursor = s.cursor /\ t.cursors = s.cursors
             /\ t.stack = s.stack /\ t.index = s.index /\ t.recent = s.recent
BY DEF Shape, Fields, Deferring

\* What is deferred does not matter to the rest.
LEMMA DeferredFollows ==
  ASSUME NEW O, NEW r, NEW s, Buffer(O, s), NEW d
  PROVE  /\ Follows(O, r, s, Deferring(s, d))
         /\ Deferring(s, d).deferred = d
         /\ \A x : Ready(Deferring(s, d), x) <=> Ready(s, x)
<1> DEFINE t == Deferring(s, d)
<1>1. /\ Shape(t) /\ t.deferred = d
      /\ t.text = s.text /\ t.dels = s.dels /\ t.undos = s.undos
      /\ t.clock = s.clock /\ t.versions = s.versions
      /\ t.cursor = s.cursor /\ t.cursors = s.cursors
      /\ t.stack = s.stack /\ t.index = s.index /\ t.recent = s.recent
  BY DeferredFields DEF Buffer
<1> HIDE DEF t
<1>2. /\ s.versions \in [Replicas -> Nat] /\ s.clock \in Nat
      /\ \A q \in Replicas : s.cursors[q].value \in Nat
  BY DEF Buffer, Doc, Closed, CursorsOK
<1>3. Doc(O, t)
  BY <1>1, <1>2, DocClock DEF Buffer
<1>4. Buffer(O, t)
  <2>1. CursorsOK(O, t)
    <3>1. CursorsOK(O, s) /\ t.cursors = s.cursors
      BY <1>1 DEF Buffer
    <3> QED
      BY <3>1, Zenon DEF CursorsOK
  <2>2. UndosOK(t)
    BY <1>1 DEF Buffer, UndosOK
  <2> QED
    BY <1>1, <1>3, <2>1, <2>2 DEF Buffer
<1>5. Follows(O, r, s, t)
  BY <1>1, <1>2, <1>4 DEF Follows, Kept, Includes, UndosOf
<1>6. \A x : Ready(t, x) <=> Ready(s, x)
  BY <1>1 DEF Ready
<1> QED
  BY <1>1, <1>5, <1>6 DEF t

LEMMA InTurnFollows ==
  ASSUME NEW O, AllSound(O), NEW r \in Replicas, NEW s, Buffer(O, s), NEW ops, Len(ops) \in Nat,
         \A j \in 1..Len(ops) : ops[j] \in O /\ ops[j].ts[2] # r
  PROVE  LET t == AppliedInTurn(s, ops)
             later == Turns(s, ops)[Len(ops)].later
         IN  /\ Follows(O, r, s, t) /\ t.deferred = s.deferred \cup later
             /\ IsFiniteSet(later) /\ \A x \in later : \E j \in 1..Len(ops) : x = ops[j]
             /\ \A j \in 1..Len(ops) : ops[j] \in later \/ Done(t, ops[j])
             /\ \A x : Ready(t, x) <=> Ready(Turns(s, ops)[Len(ops)].s, x)
<1> DEFINE t == AppliedInTurn(s, ops)
           done == Turns(s, ops)[Len(ops)]
           d == done.s.deferred \cup done.later
<1>1. Progress(O, r, s, ops, Len(ops), done)
  BY TurnsProgress
<1>2. /\ Follows(O, r, s, done.s) /\ Buffer(O, done.s) /\ done.s.deferred = s.deferred
      /\ IsFiniteSet(done.later)
      /\ \A x \in done.later : \E j \in 1..Len(ops) : x = ops[j]
      /\ \A j \in 1..Len(ops) : ops[j] \in done.later \/ Done(done.s, ops[j])
  BY <1>1 DEF Progress, Follows
<1>3. t = Deferring(done.s, d)
  BY Zenon DEF AppliedInTurn, Deferring
<1> HIDE DEF done, t, d
<1>4. /\ Follows(O, r, done.s, t) /\ t.deferred = d
      /\ \A x : Ready(t, x) <=> Ready(done.s, x)
  BY <1>2, <1>3, DeferredFollows
<1>5. t.deferred = s.deferred \cup done.later
  BY <1>2, <1>4 DEF d
<1>6. Follows(O, r, s, t)
  BY <1>2, <1>4, FollowsOn
<1>7. \A j \in 1..Len(ops) : ops[j] \in done.later \/ Done(t, ops[j])
  BY <1>2, <1>4, DoneStays
<1> QED
  BY <1>2, <1>4, <1>5, <1>6, <1>7 DEF t, done

LEMMA EntryFacts ==
  ASSUME NEW stack \in Seq(Entries), NEW i \in 1..Len(stack)
  PROVE  stack[i] \in Entries /\ stack[i].edits \subseteq Nat /\ stack[i].cursor \in Chars
<1>1. stack[i] \in Entries
  OBVIOUS
<1> QED
  BY <1>1 DEF Entries

LEMMA EntryStays ==
  ASSUME NEW r, NEW s, NEW i, NEW e \in Entries, EntryOK(r, s, i, e), s.clock \in Nat,
         NEW t, NEW j, Range(s.text) \subseteq Range(t.text), t.clock \in Nat, s.clock <= t.clock,
         \A v \in e.edits : Undone(t, <<v, r>>) <=> Undone(s, <<v, r>>),
         i > s.index <=> j > t.index
  PROVE  EntryOK(r, t, j, e)
<1>1. e.edits \subseteq Nat
  BY DEF Entries
<1>2. ASSUME NEW v \in e.edits PROVE v <= t.clock
  <2>1. v \in Nat /\ v <= s.clock
    BY <1>1 DEF EntryOK
  <2> QED
    BY <2>1
<1> QED
  BY <1>2 DEF EntryOK, Mark

LEMMA StackStays ==
  ASSUME NEW r, NEW s, StackOK(r, s), s.clock \in Nat,
         NEW t, t.stack = s.stack, t.index = s.index, t.recent \in BOOLEAN,
         Range(s.text) \subseteq Range(t.text), t.clock \in Nat, s.clock <= t.clock,
         \A v : Undone(t, <<v, r>>) <=> Undone(s, <<v, r>>)
  PROVE  StackOK(r, t)
<1>1. /\ s.stack \in Seq(Entries)
      /\ Len(s.stack) \in 1..Capacity /\ s.index \in 1..Len(s.stack)
      /\ \A i, j \in 1..Len(s.stack) : i # j => s.stack[i].edits \cap s.stack[j].edits = {}
  BY DEF StackOK
<1>2. ASSUME NEW i \in 1..Len(s.stack) PROVE EntryOK(r, t, i, s.stack[i])
  <2>1. EntryOK(r, s, i, s.stack[i]) /\ s.stack[i] \in Entries
    BY <1>1, EntryFacts DEF StackOK
  <2> QED
    BY <2>1, EntryStays
<1> QED
  BY <1>1, <1>2 DEF StackOK

\* The operations of others leave what r has done itself alone.
LEMMA FollowsReplica ==
  ASSUME NEW O, AllSound(O), NEW r \in Replicas, NEW s, Replica(O, r, s),
         NEW t, Follows(O, r, s, t), DeferredOK(O, r, t)
  PROVE  Replica(O, r, t)
<1>1. /\ Buffer(O, s) /\ Buffer(O, t) /\ Kept(s, t) /\ Own(O, r, s) /\ StackOK(r, s) /\ CursorSent(O, r, s)
      /\ Includes(t.versions, s.versions) /\ s.clock <= t.clock
      /\ Range(s.text) \subseteq Range(t.text) /\ UndosOf(t, r) = UndosOf(s, r)
  BY DEF Replica, Local, Buffer, Follows
<1>2. /\ s.versions[r] \in Nat /\ t.versions[r] \in Nat /\ s.clock \in Nat /\ t.clock \in Nat
      /\ s.versions[r] <= t.versions[r] /\ s.clock <= t.clock
  BY <1>1 DEF Buffer, Doc, Closed, Includes
<1>3. \A c : Mark(s, c) => Mark(t, c)
  BY <1>1 DEF Mark
<1>4. Own(O, r, t)
  <2>1. Mark(t, t.cursor)
    BY <1>1, <1>3 DEF Own, Kept
  <2>2. ASSUME NEW x \in O, x.ts[2] = r
        PROVE  x.ts[1] <= t.clock /\ (Changes(x) => x.ts[1] <= t.versions[r])
    <3>1. x.ts[1] \in Nat
      BY Timestamps
    <3>2. x.ts[1] <= s.clock /\ (Changes(x) => x.ts[1] <= s.versions[r])
      BY <1>1, <2>2 DEF Own
    <3> QED
      BY <1>2, <3>1, <3>2
  <2> QED
    BY <2>1, <2>2 DEF Own
<1>5. CursorSent(O, r, t)
  BY <1>1, Zenon DEF CursorSent, Kept
<1>6. \A v : Undone(t, <<v, r>>) <=> Undone(s, <<v, r>>)
  <2> TAKE v
  <2>1. {u \in t.undos : u[1] = <<v, r>>} = {u \in UndosOf(t, r) : u[1] = <<v, r>>}
    BY DEF UndosOf
  <2>2. {u \in s.undos : u[1] = <<v, r>>} = {u \in UndosOf(s, r) : u[1] = <<v, r>>}
    BY DEF UndosOf
  <2>3. {u \in t.undos : u[1] = <<v, r>>} = {u \in s.undos : u[1] = <<v, r>>}
    BY <1>1, <2>1, <2>2
  <2> QED
    BY <2>3, Zenon DEF Undone
<1>7. StackOK(r, t)
  <2>1. t.stack = s.stack /\ t.index = s.index /\ t.recent = s.recent /\ s.recent \in BOOLEAN
    BY <1>1 DEF Kept, StackOK
  <2> QED
    BY <1>1, <1>2, <1>6, <2>1, StackStays
<1> QED
  BY <1>1, <1>4, <1>5, <1>7 DEF Replica, Local, Buffer

\* t is s after apply_ops: all of the operations were applied or deferred.
AfterOps(O, r, s, ops, t) ==
  /\ Replica(O, r, t)
  /\ \A j \in 1..Len(ops) : ops[j] \in t.deferred \/ Done(t, ops[j])
  /\ \A x \in O : x \in s.deferred \/ Done(s, x) => x \in t.deferred \/ Done(t, x)

LEMMA AppliedOpsReplica ==
  ASSUME NEW O, AllSound(O), NEW r \in Replicas, NEW s, Replica(O, r, s), NEW ops, Len(ops) \in Nat,
         \A j \in 1..Len(ops) : ops[j] \in O /\ ops[j].ts[2] # r
  PROVE  AfterOps(O, r, s, ops, AppliedOps(s, ops))
<1> DEFINE t1 == AppliedInTurn(s, ops)
           t2 == Deferring(t1, {})
           d == t1.deferred
           q == Sorted(d)
           t == AppliedInTurn(t2, q)
           later == Turns(t2, q)[Len(q)].later
<1>1. Buffer(O, s) /\ IsFiniteSet(s.deferred) /\ \A x \in s.deferred : x \in O /\ x.ts[2] # r
  BY DEF Replica, Local, Buffer, DeferredOK
<1>2. AppliedOps(s, ops) = t
  BY Zenon DEF AppliedOps, Deferring
<1> HIDE DEF t1
<1>3. PICK later1 : /\ Follows(O, r, s, t1) /\ d = s.deferred \cup later1
                    /\ IsFiniteSet(later1) /\ \A x \in later1 : \E j \in 1..Len(ops) : x = ops[j]
                    /\ \A j \in 1..Len(ops) : ops[j] \in later1 \/ Done(t1, ops[j])
  <2>1. LET l == Turns(s, ops)[Len(ops)].later
        IN  /\ Follows(O, r, s, t1) /\ t1.deferred = s.deferred \cup l
            /\ IsFiniteSet(l) /\ \A x \in l : \E j \in 1..Len(ops) : x = ops[j]
            /\ \A j \in 1..Len(ops) : ops[j] \in l \/ Done(t1, ops[j])
    BY <1>1, InTurnFollows DEF t1
  <2> QED
    BY <2>1
<1>4. IsFiniteSet(d) /\ \A x \in d : x \in O /\ x.ts[2] # r
  <2>1. IsFiniteSet(s.deferred \cup later1)
    BY <1>1, <1>3, FS_Union
  <2> HIDE DEF d
  <2> QED
    BY <1>1, <1>3, <2>1
<1> HIDE DEF d, t2
<1>5. Buffer(O, t1) /\ Follows(O, r, t1, t2) /\ t2.deferred = {}
  BY <1>3, DeferredFollows, SMTT(60) DEF t2, Follows
<1>6. Buffer(O, t2) /\ Follows(O, r, s, t2)
  BY <1>1, <1>3, <1>5, FollowsOn DEF Follows
<1>7. /\ Cardinality(d) \in Nat /\ q \in [1..Cardinality(d) -> d]
      /\ \A x \in d : \E i \in 1..Cardinality(d) : q[i] = x
      /\ \A i, j \in 1..Cardinality(d) : i < j => ~Before(q[j].ts, q[i].ts)
  <2>1. \A x \in d : TsOK(x)
    <3> TAKE x \in d
    <3>1. x.ts[1] \in Nat /\ x.ts[2] \in Nat /\ x.ts = <<x.ts[1], x.ts[2]>>
      BY <1>4, Timestamps
    <3> QED
      BY <3>1 DEF TsOK
  <2>2. \A x, y \in d : x.ts = y.ts => x = y
    BY <1>4 DEF AllSound
  <2> QED
    BY <1>4, <2>1, <2>2, SortedFacts
<1> HIDE DEF q
<1>8. Len(q) = Cardinality(d) /\ Len(q) \in Nat /\ \A i \in 1..Len(q) : q[i] \in d
  BY <1>7
<1>9. \A j \in 1..Len(q) : q[j] \in O /\ q[j].ts[2] # r
  BY <1>4, <1>8
<1>10. \A x \in later : ~Ready(Turns(t2, q)[Len(q)].s, x)
  BY <1>5, <1>6, <1>7, <1>8, <1>9, SortedTurns
<1>11. /\ Follows(O, r, t2, t) /\ t.deferred = t2.deferred \cup later
       /\ IsFiniteSet(later) /\ \A x \in later : \E j \in 1..Len(q) : x = q[j]
       /\ \A j \in 1..Len(q) : q[j] \in later \/ Done(t, q[j])
       /\ \A x : Ready(t, x) <=> Ready(Turns(t2, q)[Len(q)].s, x)
  BY <1>6, <1>8, <1>9, InTurnFollows, ZenonT(60)
<1> HIDE DEF t, later
<1>12. t.deferred = later
  BY <1>5, <1>11
<1>13. DeferredOK(O, r, t)
  BY <1>9, <1>10, <1>11, <1>12, ZenonT(60) DEF DeferredOK
<1>14. Follows(O, r, s, t) /\ Follows(O, r, t1, t)
  BY <1>1, <1>5, <1>6, <1>11, FollowsOn
<1>15. Replica(O, r, t)
  BY <1>13, <1>14, FollowsReplica
<1>16. \A x \in d : x \in t.deferred \/ Done(t, x)
  BY <1>7, <1>8, <1>11, <1>12
<1>17. \A j \in 1..Len(ops) : ops[j] \in t.deferred \/ Done(t, ops[j])
  BY <1>3, <1>5, <1>14, <1>16, DoneStays
<1>18. \A x \in O : x \in s.deferred \/ Done(s, x) => x \in t.deferred \/ Done(t, x)
  BY <1>1, <1>3, <1>14, <1>16, DoneStays
<1> QED
  BY <1>2, <1>15, <1>17, <1>18 DEF AfterOps

-----------------------------------------------------------------------------
(* A new operation. *)

\* x is newer than all that its author has sent.
Newest(O, x) ==
  /\ x.ts \in (Nat \ {0}) \X Replicas
  /\ \A y \in O : y.ts[2] = x.ts[2] => y.ts[1] < x.ts[1]

LEMMA NewestUnobserved ==
  ASSUME NEW O, NEW versions, Closed(O, versions), NEW x, Newest(O, x)
  PROVE  ~Observed(versions, x.ts)
<1> DEFINE q == x.ts[2]
           v == versions[q]
<1>1. x.ts[1] \in Nat \ {0} /\ q \in Replicas /\ q # 0
  BY DEF Newest, Replicas
<1>2. v \in Nat /\ Real(O, v, q)
  BY <1>1 DEF Closed
<1>3. v < x.ts[1]
  <2>1. CASE v = 0
    BY <1>1, <2>1
  <2>2. CASE v # 0
    <3> HIDE DEF v, q
    <3>1. PICK y \in O : y.ts = <<v, q>>
      BY <1>2, <2>2 DEF Real
    <3>2. y.ts[1] = v /\ y.ts[2] = q
      BY <3>1
    <3> QED
      BY <3>2 DEF Newest, q
  <2> QED
    BY <2>1, <2>2
<1> QED
  BY <1>1, <1>2, <1>3 DEF Observed

\* What was sound is sound with it.
LEMMA KnownGrows ==
  ASSUME NEW O, NEW x
  PROVE  /\ \A c : Known(O, c) => Known(O \cup {x}, c)
         /\ \A v, q : Real(O, v, q) => Real(O \cup {x}, v, q)
         /\ \A y, c : Place(O, y, c) => Place(O \cup {x}, y, c)
<1>1. \A c : Known(O, c) => Known(O \cup {x}, c)
  BY DEF Known
<1>2. \A v, q : Real(O, v, q) => Real(O \cup {x}, v, q)
  BY DEF Real
<1> QED
  BY <1>1, <1>2 DEF Place

LEMMA AllSoundGrows ==
  ASSUME NEW O, AllSound(O), NEW x, Newest(O, x), Sound(O \cup {x}, x)
  PROVE  AllSound(O \cup {x})
<1>1. /\ x.ts[1] \in Nat /\ \A y \in O : y.ts[1] \in Nat
      /\ \A y \in O : y.ts[2] = x.ts[2] => y.ts[1] < x.ts[1]
  BY Timestamps DEF Newest
<1>2. \A y, z \in O \cup {x} : y.ts = z.ts => y = z
  <2>1. \A y \in O : y.ts # x.ts
    BY <1>1
  <2> QED
    BY <2>1 DEF AllSound
<1>3. ASSUME NEW y \in O PROVE Sound(O \cup {x}, y)
  <2>1. Sound(O, y)
    BY DEF AllSound
  <2>2. ASSUME Changes(y) PROVE Informed(O \cup {x}, y)
    <3>1. Informed(O, y)
      BY <2>1, <2>2 DEF Sound
    <3>2. ASSUME NEW z \in O \cup {x}, Changes(z), z.ts[2] = y.ts[2], z.ts[1] < y.ts[1]
          PROVE  z.ts[1] <= y.versions[y.ts[2]]
      <4>1. z # x
        <5> SUFFICES ASSUME z = x PROVE FALSE
          OBVIOUS
        <5> QED
          BY <1>1, <3>2
      <4> QED
        BY <3>1, <3>2, <4>1 DEF Informed
    <3> QED
      BY <3>1, <3>2, KnownGrows DEF Informed
  <2>3. \A c : Place(O, y, c) => Place(O \cup {x}, y, c)
    BY KnownGrows
  <2>4. \A c : Known(O, c) => Known(O \cup {x}, c)
    BY KnownGrows
  <2> QED
    BY <2>1, <2>2, <2>3, <2>4 DEF Sound
<1> QED
  BY <1>2, <1>3 DEF AllSound

\* The other replicas do not know of it yet.
LEMMA OthersGrow ==
  ASSUME NEW O, NEW x, Newest(O, x), NEW q, q # x.ts[2], NEW s, Replica(O, q, s)
  PROVE  Replica(O \cup {x}, q, s)
<1>1. /\ Doc(O, s) /\ CursorsOK(O, s) /\ DeferredOK(O, q, s) /\ Own(O, q, s) /\ CursorSent(O, q, s)
      /\ Shape(s) /\ UndosOK(s) /\ StackOK(q, s)
  BY DEF Replica, Local
<1>2. ~Observed(s.versions, x.ts)
  BY <1>1, NewestUnobserved DEF Doc
<1>3. Doc(O \cup {x}, s)
  BY <1>1, <1>2, DocGrows
<1>4. CursorsOK(O \cup {x}, s)
  BY <1>1 DEF CursorsOK
<1>5. DeferredOK(O \cup {x}, q, s)
  BY <1>1 DEF DeferredOK
<1>6. Own(O \cup {x}, q, s)
  BY <1>1 DEF Own
<1>7. CursorSent(O \cup {x}, q, s)
  BY <1>1 DEF CursorSent
<1> QED
  BY <1>1, <1>3, <1>4, <1>5, <1>6, <1>7 DEF Replica, Local

\* A replica's own change makes nothing ready that it had to defer.
LEMMA OwnChangeReady ==
  ASSUME NEW O, AllSound(O), NEW r \in Replicas, NEW s, Closed(O, s.versions), Own(O, r, s),
         NEW x \in O, NEW t, NEW v \in Nat, t.versions = Observe(s.versions, <<v, r>>), Ready(t, x)
  PROVE  Ready(s, x)
<1>1. s.versions \in [Replicas -> Nat]
  BY DEF Closed
<1>2. t.versions = [s.versions EXCEPT ![r] = Larger(@, v)]
  BY DEF Observe
<1>3. t.versions \in [Replicas -> Nat] /\ \A q \in Replicas : q # r => t.versions[q] = s.versions[q]
  BY <1>1, <1>2 DEF Larger
<1>4. ASSUME NEW n \in Nat, NEW q \in Replicas, Real(O, n, q), n <= t.versions[q]
      PROVE  n <= s.versions[q]
  <2>1. CASE q # r
    BY <1>3, <1>4, <2>1
  <2>2. CASE n = 0
    BY <1>1, <2>2
  <2>3. CASE q = r /\ n # 0
    <3>1. PICK y \in O : Changes(y) /\ y.ts = <<n, r>>
      BY <1>4, <2>3 DEF Real
    <3>2. y.ts[1] = n /\ y.ts[2] = r
      BY <3>1
    <3> QED
      BY <2>3, <3>1, <3>2 DEF Own
  <2> QED
    BY <2>1, <2>2, <2>3
<1> QED
  BY <1>1, <1>3, <1>4, ReadyStill

-----------------------------------------------------------------------------
(* The end of a batch. *)

LEMMA OwnChange ==
  ASSUME NEW O, AllSound(O), NEW r \in Replicas, NEW s, Local(O, r, s),
         NEW x, x.ts = <<s.clock + 1, r>>,
         NEW t, Shape(t), Doc(O \cup {x}, t), UndosOK(t), StackOK(r, t), Mark(t, t.cursor),
         t.versions = Observe(s.versions, x.ts), t.clock = s.clock + 1,
         t.cursors = s.cursors, t.deferred = s.deferred
  PROVE  Local(O \cup {x}, r, t)
<1>1. /\ Closed(O, s.versions) /\ s.versions \in [Replicas -> Nat] /\ s.clock \in Nat
      /\ CursorsOK(O, s) /\ DeferredOK(O, r, s) /\ Own(O, r, s)
  BY DEF Local, Doc, Closed
<1>2. t.versions[r] = Larger(s.versions[r], s.clock + 1)
  BY <1>1 DEF Observe
<1>3. /\ t.versions[r] \in Nat /\ s.versions[r] \in Nat
      /\ s.versions[r] <= t.versions[r] /\ s.clock + 1 <= t.versions[r]
  BY <1>1, <1>2 DEF Larger
<1>4. CursorsOK(O \cup {x}, t)
  BY <1>1, ZenonT(60) DEF CursorsOK
<1>5. DeferredOK(O \cup {x}, r, t)
  <2>1. ASSUME NEW y \in s.deferred PROVE y.ts[2] # r /\ ~Ready(t, y)
    <3>1. y \in O /\ y.ts[2] # r /\ ~Ready(s, y)
      BY <1>1 DEF DeferredOK
    <3>2. t.versions = Observe(s.versions, <<s.clock + 1, r>>) /\ s.clock + 1 \in Nat
      BY <1>1
    <3> QED
      BY <1>1, <3>1, <3>2, OwnChangeReady
  <2> QED
    BY <1>1, <2>1 DEF DeferredOK
<1>6. Own(O \cup {x}, r, t)
  <2>1. ASSUME NEW y \in O, y.ts[2] = r
        PROVE  y.ts[1] <= t.clock /\ (Changes(y) => y.ts[1] <= t.versions[r])
    <3>1. y.ts[1] \in Nat /\ y.ts[1] <= s.clock /\ (Changes(y) => y.ts[1] <= s.versions[r])
      BY <1>1, <2>1, Timestamps DEF Own
    <3> QED
      BY <1>1, <1>3, <3>1
  <2>2. x.ts[1] <= t.clock /\ x.ts[1] <= t.versions[r]
    BY <1>1, <1>3
  <2> QED
    BY <2>1, <2>2 DEF Own
<1> QED
  BY <1>4, <1>5, <1>6 DEF Local

LEMMA OwnNewest ==
  ASSUME NEW O, AllSound(O), NEW r \in Replicas, NEW s, Local(O, r, s),
         NEW x, x.ts = <<s.clock + 1, r>>
  PROVE  Newest(O, x)
<1>1. s.clock \in Nat /\ Own(O, r, s)
  BY DEF Local, Doc
<1>2. ASSUME NEW y \in O, y.ts[2] = r PROVE y.ts[1] < s.clock + 1
  <2>1. y.ts[1] \in Nat /\ y.ts[1] <= s.clock
    BY <1>1, <1>2, Timestamps DEF Own
  <2> QED
    BY <1>1, <2>1
<1> QED
  BY <1>1, <1>2 DEF Newest

Ticked(s) == [s EXCEPT !.clock = @ + 1]

LEMMA TickedFields ==
  ASSUME NEW s, Shape(s)
  PROVE  LET t == Ticked(s)
         IN  /\ Shape(t) /\ t.clock = s.clock + 1
             /\ t.text = s.text /\ t.dels = s.dels /\ t.undos = s.undos
             /\ t.deferred = s.deferred /\ t.versions = s.versions
             /\ t.cursor = s.cursor /\ t.cursors = s.cursors
             /\ t.stack = s.stack /\ t.index = s.index /\ t.recent = s.recent
BY DEF Shape, Fields, Ticked

\* The selections go out after the batch's operation.
LEMMA SelectionsSent ==
  ASSUME NEW O, AllSound(O), NEW r \in Replicas, NEW s, Local(O, r, s)
  PROVE  LET t == Ticked(s)
             x == SelectionsOperation(t, r)
         IN  /\ x.kind = "selections" /\ x.ts = <<s.clock + 1, r>> /\ x.ts[2] = r
             /\ Newest(O, x) /\ AllSound(O \cup {x}) /\ Replica(O \cup {x}, r, t)
             /\ t.deferred = s.deferred /\ t.versions = s.versions /\ t.cursors = s.cursors
<1> DEFINE t == Ticked(s)
           x == SelectionsOperation(t, r)
           P == O \cup {x}
<1>1. /\ Shape(s) /\ Doc(O, s) /\ s.clock \in Nat /\ CursorsOK(O, s) /\ UndosOK(s) /\ DeferredOK(O, r, s)
      /\ Own(O, r, s) /\ StackOK(r, s) /\ Mark(s, s.cursor)
  BY DEF Local, Doc, Own
<1>2. /\ Shape(t) /\ t.clock = s.clock + 1
      /\ t.text = s.text /\ t.dels = s.dels /\ t.undos = s.undos
      /\ t.deferred = s.deferred /\ t.versions = s.versions
      /\ t.cursor = s.cursor /\ t.cursors = s.cursors
      /\ t.stack = s.stack /\ t.index = s.index /\ t.recent = s.recent
  BY <1>1, TickedFields
<1> HIDE DEF t
<1>3. x.kind = "selections" /\ x.ts = <<s.clock + 1, r>> /\ x.anchor = s.cursor /\ ~Changes(x)
  BY <1>2 DEF SelectionsOperation, Changes
<1> HIDE DEF x
<1>4. x.ts[1] = s.clock + 1 /\ x.ts[2] = r
  BY <1>3
<1>5. Newest(O, x)
  BY <1>3, OwnNewest
<1>6. AllSound(P)
  <2>1. PICK i \in 1..Len(s.text) : s.text[i] = s.cursor
    <3>1. Len(s.text) \in Nat /\ DOMAIN s.text = 1..Len(s.text)
      BY <1>1, DocText DEF Text
    <3> QED
      BY <1>1, <3>1 DEF Mark, Range
  <2>2. Known(O, s.cursor)
    BY <1>1, <2>1 DEF Doc, Complete
  <2>3. Ts(s.text[i])[1] <= s.clock
    BY <1>1, TextClock
  <2>4. s.cursor \in Chars /\ s.cursor[1] \in Nat /\ s.cursor[1] = Ts(s.cursor)[1]
    BY <1>1, CharFacts DEF Mark
  <2>5. s.cursor[1] < x.ts[1]
    BY <1>1, <1>4, <2>1, <2>3, <2>4
  <2>6. Known(P, s.cursor)
    BY <2>2, KnownGrows
  <2>7. Sound(P, x)
    BY <1>1, <1>3, <2>4, <2>5, <2>6 DEF Sound
  <2> QED
    BY <1>5, <2>7, AllSoundGrows
<1>7. Doc(P, t)
  <2>1. Doc(P, s)
    BY <1>1, <1>3, DocGrows
  <2> QED
    BY <1>1, <1>2, <2>1, DocClock
<1>8. CursorsOK(P, t) /\ UndosOK(t)
  <2>1. CursorsOK(P, t)
    <3>1. CursorsOK(P, s)
      BY <1>1 DEF CursorsOK
    <3>2. t.cursors = s.cursors
      BY <1>2
    <3> HIDE DEF P
    <3> QED
      BY <3>1, <3>2, Zenon DEF CursorsOK
  <2>2. UndosOK(t)
    BY <1>1, <1>2 DEF UndosOK
  <2> QED
    BY <2>1, <2>2
<1>9. DeferredOK(P, r, t)
  <2>1. \A y : Ready(t, y) <=> Ready(s, y)
    BY <1>2 DEF Ready
  <2> QED
    BY <1>1, <1>2, <2>1 DEF DeferredOK
<1>10. Own(P, r, t)
  <2>1. ASSUME NEW y \in O, y.ts[2] = r
        PROVE  y.ts[1] <= t.clock /\ (Changes(y) => y.ts[1] <= t.versions[r])
    <3>1. y.ts[1] \in Nat /\ y.ts[1] <= s.clock /\ (Changes(y) => y.ts[1] <= s.versions[r])
      BY <1>1, <2>1, Timestamps DEF Own
    <3> QED
      BY <1>1, <1>2, <3>1
  <2>2. x.ts[1] <= t.clock
    BY <1>1, <1>2, <1>4
  <2>3. Mark(t, t.cursor)
    BY <1>1, <1>2 DEF Mark
  <2> QED
    BY <1>3, <2>1, <2>2, <2>3 DEF Own
<1>11. StackOK(r, t)
  <2>1. \A v : Undone(t, <<v, r>>) <=> Undone(s, <<v, r>>)
    BY <1>2 DEF Undone
  <2>2. t.recent \in BOOLEAN
    BY <1>1, <1>2 DEF StackOK
  <2> QED
    BY <1>1, <1>2, <2>1, <2>2, StackStays
<1>12. CursorSent(P, r, t)
  <2>1. \A y \in P : y.ts[2] = r => y.ts[1] <= x.ts[1]
    <3>1. ASSUME NEW y \in O, y.ts[2] = r PROVE y.ts[1] <= x.ts[1]
      <4>1. y.ts[1] \in Nat /\ y.ts[1] <= s.clock
        BY <1>1, <3>1, Timestamps DEF Own
      <4> QED
        BY <1>1, <1>4, <4>1
    <3> QED
      BY <1>1, <1>4, <3>1
  <2> QED
    BY <1>2, <1>3, <1>4, <2>1 DEF CursorSent
<1>13. Replica(P, r, t)
  BY <1>2, <1>7, <1>8, <1>9, <1>10, <1>11, <1>12 DEF Replica, Local
<1> QED
  BY <1>2, <1>3, <1>4, <1>5, <1>6, <1>13 DEF t, x

-----------------------------------------------------------------------------
(* The undo stack. *)

Pushed(stack, index, e) ==
  LET entries == Append(SubSeq(stack, 1, index), e)
  IN IF Len(entries) > Capacity THEN Tail(entries) ELSE entries

\* kept is the stack up to the index, without the oldest entry if it was full, and one more.
Slid(kept, stack, index) ==
  \E d \in {0, 1} : /\ Len(kept) = index + 1 - d
                    /\ \A i \in 1..(Len(kept) - 1) : kept[i] = stack[i + d]

LEMMA EntriesKept ==
  ASSUME NEW E, NEW stack \in Seq(E), Len(stack) \in 1..Capacity, NEW index \in 1..Len(stack), NEW e \in E
  PROVE  LET kept == Pushed(stack, index, e)
         IN  /\ kept \in Seq(E) /\ Len(kept) \in 1..Capacity /\ kept[Len(kept)] = e
             /\ Slid(kept, stack, index)
<1> DEFINE below   == SubSeq(stack, 1, index)
           entries == Append(below, e)
           kept    == Pushed(stack, index, e)
<1>1. /\ below \in Seq(E) /\ Len(below) = index /\ \A i \in 1..index : below[i] = stack[i]
      /\ Capacity \in Nat /\ Capacity >= 2 /\ index \in Nat /\ index <= Capacity
  BY ConstantsAssumption
<1>0. kept = IF Len(entries) > Capacity THEN Tail(entries) ELSE entries
  BY DEF Pushed
<1> HIDE DEF below, kept
<1>2. /\ entries \in Seq(E) /\ Len(entries) = index + 1 /\ entries[index + 1] = e
      /\ \A i \in 1..index : entries[i] = stack[i]
  BY <1>1
<1> HIDE DEF entries
<1>3. CASE Len(entries) > Capacity
  <2>1. /\ Tail(entries) \in Seq(E) /\ Len(Tail(entries)) = index
        /\ \A i \in 1..index : Tail(entries)[i] = entries[i + 1]
    BY <1>1, <1>2
  <2>2. \A i \in 1..(index - 1) : Tail(entries)[i] = stack[i + 1]
    <3> TAKE i \in 1..(index - 1)
    <3>1. i \in 1..index /\ i + 1 \in 1..index
      BY <1>1
    <3> QED
      BY <1>2, <2>1, <3>1
  <2>3. Tail(entries)[index] = e
    BY <1>1, <1>2, <2>1
  <2>4. kept = Tail(entries)
    BY <1>0, <1>3
  <2>5. Len(kept) = index + 1 - 1 /\ \A i \in 1..(Len(kept) - 1) : kept[i] = stack[i + 1]
    BY <1>1, <2>1, <2>2, <2>4
  <2>6. kept \in Seq(E) /\ Len(kept) \in 1..Capacity /\ kept[Len(kept)] = e
    BY <1>1, <2>1, <2>3, <2>4
  <2> QED
    BY <2>5, <2>6 DEF kept, Slid
<1>4. CASE ~(Len(entries) > Capacity)
  <2>1. kept = entries
    BY <1>0, <1>4
  <2>2. Len(kept) = index + 1 - 0 /\ \A i \in 1..(Len(kept) - 1) : kept[i] = stack[i + 0]
    BY <1>1, <1>2, <2>1
  <2>3. kept \in Seq(E) /\ Len(kept) \in 1..Capacity /\ kept[Len(kept)] = e
    BY <1>1, <1>2, <1>4, <2>1
  <2> QED
    BY <2>2, <2>3 DEF kept, Slid
<1> QED
  BY <1>3, <1>4

Joined(s, value) == [s.stack EXCEPT ![s.index] = Entry(@.edits \cup {value}, s.cursor)]
WithNew(s, value) == Pushed(s.stack, s.index, Entry({value}, s.cursor))

LEMMA RecordFields ==
  ASSUME NEW s, Shape(s), NEW value, NEW joins \in BOOLEAN
  PROVE  LET t == RecordEdit(s, value, joins)
         IN  /\ Shape(t) /\ t.text = s.text /\ t.dels = s.dels /\ t.undos = s.undos
             /\ t.clock = s.clock /\ t.versions = s.versions /\ t.deferred = s.deferred
             /\ t.cursor = s.cursor /\ t.cursors = s.cursors
             /\ joins => t.stack = Joined(s, value) /\ t.index = s.index /\ t.recent = s.recent
             /\ ~joins => /\ t.stack = WithNew(s, value) /\ t.index = Len(WithNew(s, value))
                          /\ t.recent = Joins
<1> DEFINE t == RecordEdit(s, value, joins)
<1>1. CASE joins
  <2>1. t = [s EXCEPT !.stack = Joined(s, value)]
    BY <1>1, Zenon DEF RecordEdit, Joined
  <2> HIDE DEF t
  <2>2. /\ Shape(t) /\ t.text = s.text /\ t.dels = s.dels /\ t.undos = s.undos
        /\ t.clock = s.clock /\ t.versions = s.versions /\ t.deferred = s.deferred
        /\ t.cursor = s.cursor /\ t.cursors = s.cursors
        /\ t.stack = Joined(s, value) /\ t.index = s.index /\ t.recent = s.recent
    BY <2>1 DEF Shape, Fields
  <2> QED
    BY <1>1, <2>2 DEF t
<1>2. CASE ~joins
  <2>1. t = [s EXCEPT !.stack = WithNew(s, value), !.index = Len(WithNew(s, value)), !.recent = Joins]
    BY <1>2, Zenon DEF RecordEdit, WithNew, Pushed
  <2> HIDE DEF t
  <2>2. /\ Shape(t) /\ t.text = s.text /\ t.dels = s.dels /\ t.undos = s.undos
        /\ t.clock = s.clock /\ t.versions = s.versions /\ t.deferred = s.deferred
        /\ t.cursor = s.cursor /\ t.cursors = s.cursors
        /\ t.stack = WithNew(s, value) /\ t.index = Len(WithNew(s, value)) /\ t.recent = Joins
    BY <2>1 DEF Shape, Fields
  <2> QED
    BY <1>2, <2>2 DEF t
<1> QED
  BY <1>1, <1>2

\* u is the buffer s with an edit of its own made, which is now recorded.
LEMMA RecordedStack ==
  ASSUME NEW r, NEW s, StackOK(r, s), s.clock \in Nat,
         NEW u, Shape(u), u.stack = s.stack, u.index = s.index, u.recent = s.recent,
         Mark(u, u.cursor), Range(s.text) \subseteq Range(u.text), u.clock = s.clock + 1,
         \A v : Undone(u, <<v, r>>) <=> Undone(s, <<v, r>>), ~Undone(u, <<s.clock + 1, r>>),
         NEW joins \in BOOLEAN, joins => MayJoin(s)
  PROVE  StackOK(r, RecordEdit(u, s.clock + 1, joins))
<1> DEFINE value == s.clock + 1
           t == RecordEdit(u, value, joins)
<1>1. /\ s.stack \in Seq(Entries)
      /\ Len(s.stack) \in 1..Capacity /\ s.index \in 1..Len(s.stack) /\ s.recent \in BOOLEAN
      /\ \A i \in 1..Len(s.stack) : EntryOK(r, s, i, s.stack[i])
      /\ \A i, j \in 1..Len(s.stack) : i # j => s.stack[i].edits \cap s.stack[j].edits = {}
  BY DEF StackOK
<1>2. /\ t.text = u.text /\ t.undos = u.undos /\ t.clock = s.clock + 1
      /\ joins => t.stack = Joined(u, value) /\ t.index = s.index /\ t.recent = s.recent
      /\ ~joins => t.stack = WithNew(u, value) /\ t.index = Len(WithNew(u, value)) /\ t.recent = Joins
  BY RecordFields
<1> HIDE DEF t
<1>3. /\ \A v : Undone(t, <<v, r>>) <=> Undone(s, <<v, r>>)
      /\ ~Undone(t, <<value, r>>)
  BY <1>2 DEF Undone
<1>4. /\ Range(s.text) \subseteq Range(t.text) /\ t.clock \in Nat /\ s.clock <= t.clock
      /\ Mark(t, u.cursor) /\ u.cursor \in Chars
  BY <1>2 DEF Mark
<1>5. \A i \in 1..Len(s.stack) : s.stack[i] \in Entries /\ s.stack[i].edits \subseteq Nat
  BY <1>1, EntryFacts
<1>6. ASSUME NEW i \in 1..Len(s.stack) PROVE value \notin s.stack[i].edits
  <2>1. value \in s.stack[i].edits => value <= s.clock
    BY <1>1 DEF EntryOK
  <2> QED
    BY <2>1
<1>7. CASE joins
  <2> DEFINE old == s.stack[s.index]
             e == Entry(old.edits \cup {value}, u.cursor)
  <2>1. t.stack = [s.stack EXCEPT ![s.index] = e] /\ t.index = s.index /\ t.recent \in BOOLEAN
    BY <1>1, <1>2, <1>7 DEF Joined
  <2>2. s.index = Len(s.stack)
    BY <1>7 DEF MayJoin
  <2>3. e.edits = old.edits \cup {value} /\ e.cursor = u.cursor
    BY DEF Entry
  <2>4. e \in Entries
    BY <1>1, <1>4, <1>5 DEF Entry, Entries
  <2>5. EntryOK(r, s, s.index, old) /\ old.edits \subseteq Nat
    BY <1>1, <1>5
  <2> HIDE DEF e, old
  <2>6. EntryOK(r, t, s.index, e)
    <3>1. IsFiniteSet(e.edits)
      <4>1. IsFiniteSet(old.edits)
        BY <2>5 DEF EntryOK
      <4>2. IsFiniteSet(old.edits \cup {value})
        BY <4>1, FS_AddElement, Zenon
      <4> QED
        BY <2>3, <4>2, Zenon
    <3>2. ASSUME NEW v \in e.edits PROVE v <= t.clock /\ ~Undone(t, <<v, r>>)
      <4>1. CASE v = value
        BY <1>2, <1>3, <4>1
      <4>2. CASE v # value
        <5>1. v \in old.edits /\ v \in Nat
          BY <2>3, <2>5, <4>2
        <5>2. v <= s.clock /\ ~Undone(s, <<v, r>>)
          BY <1>1, <2>5, <5>1 DEF EntryOK
        <5> QED
          BY <1>3, <1>4, <5>1, <5>2
      <4> QED
        BY <4>1, <4>2
    <3> QED
      BY <1>1, <1>4, <2>1, <2>3, <3>1, <3>2 DEF EntryOK
  <2>7. /\ t.stack \in Seq(Entries) /\ Len(t.stack) = Len(s.stack) /\ t.stack[s.index] = e
        /\ \A i \in 1..Len(s.stack) : i # s.index => t.stack[i] = s.stack[i]
    BY <1>1, <2>1, <2>4
  <2>8. ASSUME NEW i \in 1..Len(t.stack) PROVE EntryOK(r, t, i, t.stack[i])
    <3>1. CASE i = s.index
      BY <2>6, <2>7, <3>1
    <3>2. CASE i # s.index
      <4>1. i \in 1..Len(s.stack) /\ t.stack[i] = s.stack[i]
        BY <2>7, <3>2
      <4>2. EntryOK(r, t, i, s.stack[i])
        BY <1>1, <1>3, <1>4, <1>5, <2>1, <4>1, EntryStays
      <4> QED
        BY <4>1, <4>2
    <3> QED
      BY <3>1, <3>2
  <2>9. ASSUME NEW i \in 1..Len(t.stack), NEW j \in 1..Len(t.stack), i # j
        PROVE  t.stack[i].edits \cap t.stack[j].edits = {}
    <3>1. \A k \in 1..Len(s.stack) : k # s.index => s.stack[k].edits \cap e.edits = {}
      BY <1>1, <1>6, <2>3, ZenonT(60) DEF old
    <3>2. i \in 1..Len(s.stack) /\ j \in 1..Len(s.stack)
      BY <2>7
    <3>3. CASE i = s.index
      BY <2>7, <2>9, <3>1, <3>2, <3>3
    <3>4. CASE j = s.index
      BY <2>7, <2>9, <3>1, <3>2, <3>4
    <3>5. CASE i # s.index /\ j # s.index
      BY <1>1, <2>7, <2>9, <3>2, <3>5
    <3> QED
      BY <3>3, <3>4, <3>5
  <2> QED
    BY <1>1, <2>1, <2>7, <2>8, <2>9 DEF StackOK, t
<1>8. CASE ~joins
  <2> DEFINE e == Entry({value}, u.cursor)
             kept == WithNew(u, value)
  <2>1. t.stack = kept /\ t.index = Len(kept) /\ t.recent \in BOOLEAN
    BY <1>2, <1>8, ConstantsAssumption
  <2>2. e.edits = {value} /\ e.cursor = u.cursor /\ e \in Entries
    BY <1>4 DEF Entry, Entries
  <2>3. /\ kept \in Seq(Entries) /\ Len(kept) \in 1..Capacity /\ kept[Len(kept)] = e
        /\ Slid(kept, s.stack, s.index)
    <3>1. kept = Pushed(s.stack, s.index, e)
      BY DEF WithNew
    <3> HIDE DEF e, kept
    <3>2. s.stack \in Seq(Entries) /\ Len(s.stack) \in 1..Capacity /\ s.index \in 1..Len(s.stack)
      BY <1>1
    <3>3. LET k == Pushed(s.stack, s.index, e)
          IN  /\ k \in Seq(Entries) /\ Len(k) \in 1..Capacity /\ k[Len(k)] = e
              /\ Slid(k, s.stack, s.index)
      BY <2>2, <3>2, EntriesKept, Zenon
    <3> QED
      BY <3>1, <3>3, Zenon
  <2> HIDE DEF kept, e
  <2>4. PICK d \in {0, 1} : /\ Len(kept) = s.index + 1 - d
                            /\ \A i \in 1..(Len(kept) - 1) : kept[i] = s.stack[i + d]
    BY <2>3 DEF Slid
  <2>5. ASSUME NEW i \in 1..Len(kept), i # Len(kept)
        PROVE  i + d \in 1..Len(s.stack) /\ i + d <= s.index /\ kept[i] = s.stack[i + d]
    <3>1. Len(kept) \in Nat /\ s.index \in 1..Len(s.stack) /\ Len(s.stack) \in Nat
      BY <1>1, <2>3
    <3>2. i \in 1..(Len(kept) - 1)
      BY <2>5, <3>1
    <3>3. kept[i] = s.stack[i + d] /\ Len(kept) = s.index + 1 - d
      BY <2>4, <3>2
    <3> QED
      BY <3>1, <3>2, <3>3, SMTT(60)
  <2>6. ASSUME NEW i \in 1..Len(kept) PROVE EntryOK(r, t, i, kept[i])
    <3>1. CASE i = Len(kept)
      <4>1. IsFiniteSet(e.edits)
        <5>1. IsFiniteSet({value})
          BY FS_Singleton, Zenon
        <5> QED
          BY <2>2, <5>1, Zenon
      <4>2. \A v \in e.edits : v <= t.clock /\ ~Undone(t, <<v, r>>)
        BY <1>2, <1>3, <2>2
      <4>3. ~(i > t.index)
        BY <2>1, <2>3, <3>1
      <4> QED
        BY <1>4, <2>2, <2>3, <3>1, <4>1, <4>2, <4>3 DEF EntryOK
    <3>2. CASE i # Len(kept)
      <4>1. i + d \in 1..Len(s.stack) /\ i + d <= s.index /\ kept[i] = s.stack[i + d]
        BY <2>5, <3>2
      <4>2. EntryOK(r, s, i + d, s.stack[i + d]) /\ s.stack[i + d] \in Entries
        BY <1>1, <1>5, <4>1
      <4>3. i + d > s.index <=> i > t.index
        BY <1>1, <2>1, <2>3, <4>1
      <4>4. EntryOK(r, t, i, s.stack[i + d])
        BY <1>3, <1>4, <4>2, <4>3, EntryStays
      <4> QED
        BY <4>1, <4>4
    <3> QED
      BY <3>1, <3>2
  <2>7. ASSUME NEW i \in 1..Len(kept), NEW j \in 1..Len(kept), i # j
        PROVE  kept[i].edits \cap kept[j].edits = {}
    <3>1. CASE i = Len(kept)
      BY <1>6, <2>2, <2>3, <2>5, <2>7, <3>1, SMTT(60)
    <3>2. CASE j = Len(kept)
      BY <1>6, <2>2, <2>3, <2>5, <2>7, <3>2, SMTT(60)
    <3>3. CASE i # Len(kept) /\ j # Len(kept)
      <4>1. i + d \in 1..Len(s.stack) /\ j + d \in 1..Len(s.stack) /\ i + d # j + d
            /\ kept[i] = s.stack[i + d] /\ kept[j] = s.stack[j + d]
        BY <2>4, <2>5, <2>7, <3>3
      <4> QED
        BY <1>1, <4>1
    <3> QED
      BY <3>1, <3>2, <3>3
  <2> QED
    BY <2>1, <2>3, <2>6, <2>7 DEF StackOK, t
<1> QED
  BY <1>7, <1>8

-----------------------------------------------------------------------------
(* An edit. *)

LEMMA VisibleFacts ==
  ASSUME NEW O, NEW s, Doc(O, s)
  PROVE  Visible(s) \in SUBSET (2..Len(s.text)) /\ IsFiniteSet(Visible(s))
<1>1. s.text[1] = Root /\ Len(s.text) \in Nat /\ DOMAIN s.text = 1..Len(s.text)
  BY DocText DEF Text
<1>2. Visible(s) \in SUBSET (2..Len(s.text))
  <2>1. ASSUME NEW i \in Visible(s) PROVE i \in 2..Len(s.text)
    <3>1. i \in 1..Len(s.text) /\ s.text[i] # Root
      BY <1>1, <2>1 DEF Visible, IsVisible
    <3> QED
      BY <1>1, <3>1
  <2> QED
    BY <2>1
<1>3. IsFiniteSet(2..Len(s.text))
  BY <1>1, FS_Interval
<1> QED
  BY <1>2, <1>3, FS_Subset

\* Where the edit of a range of visible offsets goes.
LEMMA EditPlaces ==
  ASSUME NEW O, NEW s, Doc(O, s),
         NEW b \in 0..Cardinality(Visible(s)), NEW a \in 0..b
  PROVE  LET V == Visible(s)
             p == IF a = Cardinality(V) THEN Len(s.text) + 1 ELSE Nth(V, a + 1)
         IN  p \in 2..(Len(s.text) + 1) /\ (a # b => Nth(V, b) \in 2..Len(s.text))
<1> DEFINE V == Visible(s)
<1>1. Len(s.text) \in Nat /\ Len(s.text) >= 1
  BY DocText DEF Text
<1>2. V \in SUBSET (2..Len(s.text)) /\ IsFiniteSet(V) /\ Cardinality(V) \in Nat
  BY VisibleFacts, FS_CardinalityType
<1> HIDE DEF V
<1>3. V \in SUBSET Nat
  BY <1>1, <1>2
<1>4. \A k \in 1..Cardinality(V) : Nth(V, k) \in 2..Len(s.text)
  BY <1>2, <1>3, NthFacts
<1>5. b \in 0..Cardinality(V)
  BY DEF V
<1>6. CASE a = Cardinality(V)
  BY <1>1, <1>2, <1>5, <1>6 DEF V
<1>7. CASE a # Cardinality(V)
  <2>1. a + 1 \in 1..Cardinality(V) /\ (a # b => b \in 1..Cardinality(V))
    BY <1>2, <1>5, <1>7
  <2> QED
    BY <1>1, <1>4, <1>7, <2>1 DEF V
<1> QED
  BY <1>6, <1>7

Editing(s, r, a, b, len, op) ==
  /\ op.kind = "edit" /\ op.ts = <<s.clock + 1, r>> /\ op.versions = s.versions /\ op.len = len
  /\ \E p \in 2..(Len(s.text) + 1) : op.start = s.text[p - 1]
  /\ \E n \in 1..Len(s.text) : op.end = s.text[n]

LEMMA EditMade ==
  ASSUME NEW O, NEW s, Doc(O, s), NEW r, NEW len \in Nat,
         NEW b \in 0..Cardinality(Visible(s)), NEW a \in 0..b
  PROVE  Editing(s, r, a, b, len, EditOperation(s, r, a, b, len))
<1> DEFINE V == Visible(s)
           p == IF a = Cardinality(V) THEN Len(s.text) + 1 ELSE Nth(V, a + 1)
           n == IF a = b THEN p - 1 ELSE Nth(V, b)
           op == EditOperation(s, r, a, b, len)
<1>1. Len(s.text) \in Nat
  BY DocText DEF Text
<1>2. p \in 2..(Len(s.text) + 1) /\ (a # b => Nth(V, b) \in 2..Len(s.text))
  BY EditPlaces
<1> HIDE DEF p
<1>3. n \in 1..Len(s.text)
  BY <1>1, <1>2
<1>4. op = [kind |-> "edit", ts |-> <<s.clock + 1, r>>, versions |-> s.versions, len |-> len,
            start |-> s.text[p - 1], end |-> IF a = b THEN s.text[p - 1] ELSE s.text[Nth(V, b)]]
  BY Zenon DEF EditOperation, p
<1> HIDE DEF op, V
<1>5. /\ op.kind = "edit" /\ op.ts = <<s.clock + 1, r>> /\ op.versions = s.versions /\ op.len = len
      /\ op.start = s.text[p - 1] /\ op.end = IF a = b THEN s.text[p - 1] ELSE s.text[Nth(V, b)]
  BY <1>4
<1>6. op.end = s.text[n]
  BY <1>5
<1> HIDE DEF n
<1>7. Editing(s, r, a, b, len, op)
  BY <1>2, <1>3, <1>5, <1>6 DEF Editing
<1> QED
  BY <1>7 DEF op

LEMMA EditSound ==
  ASSUME NEW O, AllSound(O), NEW r \in Replicas, NEW s, Local(O, r, s),
         NEW a, NEW b, NEW len \in Nat, NEW op, Editing(s, r, a, b, len, op)
  PROVE  Newest(O, op) /\ AllSound(O \cup {op})
<1> DEFINE P == O \cup {op}
<1>1. /\ Doc(O, s) /\ Own(O, r, s) /\ s.clock \in Nat /\ s.versions \in [Replicas -> Nat]
      /\ \A q \in Replicas : s.versions[q] <= s.clock /\ Real(O, s.versions[q], q)
  BY DEF Local, Doc, Closed
<1>2. op.kind = "edit" /\ op.ts = <<s.clock + 1, r>> /\ op.versions = s.versions /\ op.len = len
  BY DEF Editing
<1>3. op.ts[1] = s.clock + 1 /\ op.ts[2] = r
  BY <1>2
<1>4. Newest(O, op)
  BY <1>2, OwnNewest
<1>5. Informed(P, op)
  <2>1. \A q \in Replicas : op.versions[q] < op.ts[1] /\ Real(P, op.versions[q], q)
    <3> TAKE q \in Replicas
    <3>1. s.versions[q] \in Nat /\ s.versions[q] <= s.clock /\ Real(O, s.versions[q], q)
      BY <1>1
    <3>2. Real(P, s.versions[q], q)
      BY <3>1, KnownGrows
    <3> HIDE DEF P
    <3> QED
      BY <1>1, <1>2, <1>3, <3>1, <3>2
  <2>2. ASSUME NEW y \in P, Changes(y), y.ts[2] = op.ts[2], y.ts[1] < op.ts[1]
        PROVE  y.ts[1] <= op.versions[op.ts[2]]
    <3>1. CASE y \in O
      BY <1>1, <1>2, <1>3, <2>2, <3>1 DEF Own
    <3>2. CASE y = op
      BY <1>1, <1>3, <2>2, <3>2
    <3> QED
      BY <3>1, <3>2
  <2> QED
    BY <1>1, <1>2, <2>1, <2>2 DEF Informed
<1>6. ASSUME NEW i \in 1..Len(s.text) PROVE Place(P, op, s.text[i])
  <2>1. s.text[i] \in Chars /\ Known(O, s.text[i]) /\ Observed(s.versions, Ts(s.text[i]))
    BY <1>1, DocText DEF Doc, Complete, Text
  <2> QED
    BY <1>2, <2>1, KnownGrows DEF Place
<1>7. Place(P, op, op.start) /\ Place(P, op, op.end)
  <2>1. Len(s.text) \in Nat
    BY <1>1, DocText DEF Text
  <2> HIDE DEF P
  <2>2. \E i \in 1..Len(s.text) : op.start = s.text[i]
    <3>1. PICK p \in 2..(Len(s.text) + 1) : op.start = s.text[p - 1]
      BY DEF Editing
    <3>2. p - 1 \in 1..Len(s.text)
      BY <2>1
    <3> QED
      BY <3>1, <3>2
  <2>3. \E i \in 1..Len(s.text) : op.end = s.text[i]
    BY DEF Editing
  <2> QED
    BY <1>6, <2>2, <2>3
<1>8. Sound(P, op)
  BY <1>1, <1>2, <1>5, <1>7 DEF Sound
<1> QED
  BY <1>4, <1>8, AllSoundGrows

LEMMA TickFields ==
  ASSUME NEW s, Shape(s), NEW r
  PROVE  LET t == Tick(s, r)
         IN  /\ Shape(t) /\ t.clock = s.clock + 1 /\ t.versions = Observe(s.versions, <<s.clock + 1, r>>)
             /\ t.text = s.text /\ t.dels = s.dels /\ t.undos = s.undos
             /\ t.deferred = s.deferred /\ t.cursor = s.cursor /\ t.cursors = s.cursors
             /\ t.stack = s.stack /\ t.index = s.index /\ t.recent = s.recent
BY DEF Shape, Fields, Tick

\* u is s with the edit made.
WithEdit(O, s, op, u) ==
  /\ Shape(u) /\ Doc(O \cup {op}, u) /\ Range(s.text) \subseteq Range(u.text)
  /\ u.undos = s.undos /\ u.clock = s.clock + 1 /\ u.versions = Observe(s.versions, op.ts)
  /\ u.deferred = s.deferred /\ u.cursor = s.cursor /\ u.cursors = s.cursors
  /\ u.stack = s.stack /\ u.index = s.index /\ u.recent = s.recent

LEMMA EditedDoc ==
  ASSUME NEW O, AllSound(O), NEW r \in Replicas, NEW s, Local(O, r, s),
         NEW a, NEW b, NEW len \in Nat, NEW op, Editing(s, r, a, b, len, op)
  PROVE  WithEdit(O, s, op, Edited(s, r, op))
<1> DEFINE P == O \cup {op}
           p == Position(s, op.start) + 1
           removed == {s.text[j] : j \in p..Position(s, op.end)}
           w == Tick(s, r)
           u == Spliced(w, p, removed, op)
<1>1. /\ Shape(s) /\ Doc(O, s) /\ s.clock \in Nat /\ s.versions \in [Replicas -> Nat]
      /\ op.kind = "edit" /\ op.ts = <<s.clock + 1, r>> /\ op.versions = s.versions /\ op.len = len
  BY DEF Local, Doc, Closed, Editing
<1>2. Newest(O, op) /\ AllSound(P) /\ op \in P
  BY EditSound
<1>3. ~Observed(s.versions, op.ts)
  BY <1>1, <1>2, NewestUnobserved DEF Doc
<1>4. Doc(P, s)
  BY <1>1, <1>3, DocGrows
<1>5. Text(P, s.text) /\ Len(s.text) \in Nat /\ DOMAIN s.text = 1..Len(s.text)
  BY <1>4, DocText DEF Text
<1>6. /\ Position(s, op.start) \in 1..Len(s.text) /\ s.text[Position(s, op.start)] = op.start
      /\ Position(s, op.end) \in 1..Len(s.text) /\ s.text[Position(s, op.end)] = op.end
  <2>1. /\ op.start \in Chars /\ Known(P, op.start) /\ Observed(s.versions, Ts(op.start))
        /\ op.end \in Chars /\ Known(P, op.end) /\ Observed(s.versions, Ts(op.end))
    BY <1>1, <1>2 DEF AllSound, Sound, Place
  <2> QED
    BY <1>2, <1>4, <2>1, Placed
<1>7. removed = DeletedBy(s.text, op)
  <2>1. DeletedBy(s.text, op) = {s.text[j] : j \in {k \in p..Position(s, op.end) :
                                                   Observed(op.versions, Ts(s.text[k]))}}
    <3> DEFINE i == Position(s, op.start)
               j == Position(s, op.end)
    <3>1. /\ i \in 1..Len(s.text) /\ s.text[i] = op.start
          /\ j \in 1..Len(s.text) /\ s.text[j] = op.end
      BY <1>6
    <3> HIDE DEF P, i, j
    <3>2. DeletedBy(s.text, op) = Between(s.text, op, i, j)
      BY <1>5, <3>1, DeletedByPlaces
    <3> QED
      BY <3>2, Zenon DEF i, j, Between
  <2>2. ASSUME NEW k \in p..Position(s, op.end) PROVE Observed(op.versions, Ts(s.text[k]))
    <3>1. k \in 1..Len(s.text)
      BY <1>5, <1>6
    <3> QED
      BY <1>1, <1>4, <3>1 DEF Doc, Complete
  <2> HIDE DEF p
  <2> QED
    BY <2>1, <2>2
<1>8. Fits(s.text, p - 1, p, op)
  <2>1. p \in 2..(Len(s.text) + 1) /\ p - 1 = Position(s, op.start)
    BY <1>5, <1>6
  <2>2. ASSUME p <= Len(s.text) PROVE Before(Ts(s.text[p]), op.ts)
    <3>1. p \in 1..Len(s.text)
      BY <1>5, <2>1, <2>2
    <3>2. Ts(s.text[p])[1] <= s.clock /\ s.text[p] \in Chars
      BY <1>2, <1>4, <1>5, <3>1, TextClock DEF Text
    <3>3. Ts(s.text[p])[1] \in Nat
      BY <3>2, CharFacts
    <3> QED
      BY <1>1, <3>2, <3>3 DEF Before
  <2> HIDE DEF p
  <2> QED
    BY <1>5, <1>6, <2>1, <2>2 DEF Fits
<1>9. Edited(s, r, op) = u
  BY Zenon DEF Edited
<1> HIDE DEF removed
<1>10. /\ Shape(w) /\ w.clock = s.clock + 1 /\ w.versions = Observe(s.versions, <<s.clock + 1, r>>)
       /\ w.text = s.text /\ w.dels = s.dels /\ w.undos = s.undos
       /\ w.deferred = s.deferred /\ w.cursor = s.cursor /\ w.cursors = s.cursors
       /\ w.stack = s.stack /\ w.index = s.index /\ w.recent = s.recent
  BY <1>1, TickFields
<1> HIDE DEF w, p
<1>11. /\ Shape(u) /\ u.text = Inserted(w.text, p, op)
       /\ u.dels = w.dels \cup {<<c, op.ts>> : c \in removed}
       /\ u.undos = w.undos /\ u.clock = w.clock /\ u.versions = w.versions
       /\ u.deferred = w.deferred /\ u.cursor = w.cursor /\ u.cursors = w.cursors
       /\ u.stack = w.stack /\ u.index = w.index /\ u.recent = w.recent
  BY <1>10, SplicedFields
<1> HIDE DEF u
<1>12. u.dels = s.dels \cup Struck(s.text, op)
  <2>1. u.dels = s.dels \cup {<<c, op.ts>> : c \in removed}
    BY <1>10, <1>11
  <2> QED
    BY <1>7, <2>1, Zenon DEF Struck
<1>13. /\ u.text = Inserted(s.text, p, op) /\ u.undos = s.undos /\ u.clock = s.clock + 1
       /\ u.versions = Observe(s.versions, op.ts)
  BY <1>1, <1>10, <1>11
<1>14. Includes(s.versions, op.versions)
  BY <1>1 DEF Includes
<1>15. Doc(P, u)
  <2>1. u.clock \in Nat /\ s.clock <= u.clock /\ op.ts[1] <= u.clock
    BY <1>1, <1>13
  <2> HIDE DEF P
  <2> QED
    BY <1>1, <1>2, <1>3, <1>4, <1>8, <1>12, <1>13, <1>14, <2>1, DocEdit
<1>16. Range(s.text) \subseteq Range(u.text)
  <2>1. s.text \in Seq(Chars) /\ p \in 1..(Len(s.text) + 1)
    BY <1>5, <1>8 DEF Text, Fits
  <2>2. op.len \in Nat /\ op.ts \in (Nat \ {0}) \X Replicas
    BY <1>1
  <2> QED
    BY <1>13, <2>1, <2>2, InsertedRange
<1> QED
  BY <1>9, <1>10, <1>11, <1>13, <1>15, <1>16 DEF WithEdit

\* What r undid are its earlier edits.
LEMMA UndosOld ==
  ASSUME NEW O, AllSound(O), NEW r \in Replicas, NEW s, Doc(O, s), Own(O, r, s),
         NEW u \in s.undos, NEW v, u[1] = <<v, r>>
  PROVE  v \in Nat /\ v <= s.clock /\ u[2] \in Nat /\ u[2] <= s.clock
<1>1. PICK op \in O : op.kind = "undo" /\ \E n \in op.edits : u = <<<<n, op.ts[2]>>, op.ts[1]>>
  BY DEF Doc, Undoings
<1>2. PICK n \in op.edits : u = <<<<n, op.ts[2]>>, op.ts[1]>>
  BY <1>1
<1>3. n = v /\ op.ts[2] = r /\ u[2] = op.ts[1]
  BY <1>2
<1>4. n \in Nat /\ n < op.ts[1] /\ op.ts[1] \in Nat /\ op.ts[1] <= s.clock /\ s.clock \in Nat
  BY <1>1, <1>2, <1>3, Timestamps DEF AllSound, Sound, Own, Doc
<1> QED
  BY <1>3, <1>4

\* An edit to come is not undone.
LEMMA NotYetUndone ==
  ASSUME NEW O, AllSound(O), NEW r \in Replicas, NEW s, Doc(O, s), Own(O, r, s)
  PROVE  ~Undone(s, <<s.clock + 1, r>>)
<1>1. s.clock \in Nat
  BY DEF Doc
<1>2. {u \in s.undos : u[1] = <<s.clock + 1, r>>} = {}
  <2> SUFFICES ASSUME NEW u \in s.undos, u[1] = <<s.clock + 1, r>> PROVE FALSE
    OBVIOUS
  <2>1. s.clock + 1 <= s.clock
    BY UndosOld
  <2> QED
    BY <1>1, <2>1
<1>3. Cardinality({u \in s.undos : u[1] = <<s.clock + 1, r>>}) = 0
  BY <1>2, FS_EmptySet
<1>4. 0 % 2 # 1
  OBVIOUS
<1> QED
  BY <1>3, <1>4, Zenon DEF Undone

LEMMA CursorSentStays ==
  ASSUME NEW O, NEW r, NEW s, CursorSent(O, r, s), NEW x, x.kind # "selections",
         NEW t, t.cursor = s.cursor
  PROVE  CursorSent(O \cup {x}, r, t)
BY DEF CursorSent

\* What a replica has got from others is the same after a change of its own.
Onward(O, s, t) == t.deferred = s.deferred /\ \A y \in O : Done(s, y) => Done(t, y)

LEMMA OwnChangeOnward ==
  ASSUME NEW O, AllSound(O), NEW s, s.versions \in [Replicas -> Nat],
         NEW t, t.deferred = s.deferred, t.cursors = s.cursors,
         t.versions = s.versions \/ \E ts : ts[1] \in Nat /\ t.versions = Observe(s.versions, ts)
  PROVE  Onward(O, s, t)
<1>1. t.versions \in [Replicas -> Nat] /\ Includes(t.versions, s.versions)
  <2>1. CASE t.versions = s.versions
    BY <2>1 DEF Includes
  <2>2. ASSUME NEW ts, ts[1] \in Nat, t.versions = Observe(s.versions, ts)
        PROVE  t.versions \in [Replicas -> Nat] /\ Includes(t.versions, s.versions)
    <3>1. t.versions \in [Replicas -> Nat]
      BY <2>2 DEF Observe, Larger
    <3>2. \A q \in Replicas : s.versions[q] <= t.versions[q]
      BY <2>2 DEF Observe, Larger
    <3> QED
      BY <3>1, <3>2 DEF Includes
  <2> QED
    BY <2>1, <2>2
<1>2. ASSUME NEW y \in O, Done(s, y) PROVE Done(t, y)
  <2>1. y.ts[1] \in Nat /\ y.ts[2] \in 0..N
    BY Timestamps, ConstantsAssumption DEF Replicas
  <2>2. Observed(s.versions, y.ts) => Observed(t.versions, y.ts)
    BY <1>1, <2>1, ObservedStays
  <2> QED
    BY <1>2, <2>2 DEF Done
<1> QED
  BY <1>2 DEF Onward

CursorAt(s, c) == [s EXCEPT !.cursor = c]

LEMMA CursorFields ==
  ASSUME NEW s, Shape(s), NEW c
  PROVE  LET t == CursorAt(s, c)
         IN  /\ Shape(t) /\ t.cursor = c
             /\ t.text = s.text /\ t.dels = s.dels /\ t.undos = s.undos /\ t.clock = s.clock
             /\ t.deferred = s.deferred /\ t.versions = s.versions /\ t.cursors = s.cursors
             /\ t.stack = s.stack /\ t.index = s.index /\ t.recent = s.recent
BY DEF Shape, Fields, CursorAt

\* A buffer with the same text as another, down to what is deleted.
LEMMA DocSame ==
  ASSUME NEW O, NEW s, Doc(O, s), NEW t, t.text = s.text, t.dels = s.dels, t.undos = s.undos,
         t.versions = s.versions, t.clock = s.clock
  PROVE  Doc(O, t)
<1>1. s.clock \in Nat
  BY DEF Doc
<1> QED
  BY <1>1, DocClock

\* s after its own operation x, the cursor yet to be sent.
Changed(O, r, s, x, t) ==
  /\ Newest(O, x) /\ AllSound(O \cup {x}) /\ x.kind # "selections" /\ x.ts[2] = r
  /\ Local(O \cup {x}, r, t) /\ Onward(O, s, t)
  /\ t.cursor = s.cursor => CursorSent(O \cup {x}, r, t)

LEMMA EditRecorded ==
  ASSUME NEW O, AllSound(O), NEW r \in Replicas, NEW s, Replica(O, r, s),
         NEW a, NEW b, NEW len \in Nat, NEW op, Editing(s, r, a, b, len, op),
         NEW c, c = s.cursor \/ (len > 0 /\ c = <<op.ts[1], r, len>>) \/ (len = 0 /\ c = op.start),
         NEW joins \in BOOLEAN, joins => MayJoin(s)
  PROVE  Changed(O, r, s, op, RecordEdit(CursorAt(Edited(s, r, op), c), op.ts[1], joins))
<1> DEFINE P == O \cup {op}
           u == Edited(s, r, op)
           w == CursorAt(u, c)
           t == RecordEdit(w, s.clock + 1, joins)
<1>1. /\ Local(O, r, s) /\ CursorSent(O, r, s) /\ Doc(O, s) /\ Own(O, r, s) /\ StackOK(r, s) /\ UndosOK(s)
      /\ s.clock \in Nat /\ s.versions \in [Replicas -> Nat]
  BY DEF Replica, Local, Doc, Closed
<1>2. op.kind = "edit" /\ op.ts = <<s.clock + 1, r>> /\ op.len = len
  BY DEF Editing
<1>3. op.ts[1] = s.clock + 1 /\ op.ts[2] = r
  BY <1>2
<1>4. Newest(O, op) /\ AllSound(P)
  BY <1>1, EditSound
<1>5. /\ Shape(u) /\ Doc(P, u) /\ Range(s.text) \subseteq Range(u.text)
      /\ u.undos = s.undos /\ u.clock = s.clock + 1 /\ u.versions = Observe(s.versions, op.ts)
      /\ u.deferred = s.deferred /\ u.cursor = s.cursor /\ u.cursors = s.cursors
      /\ u.stack = s.stack /\ u.index = s.index /\ u.recent = s.recent
  <2>1. WithEdit(O, s, op, u)
    BY <1>1, EditedDoc
  <2> HIDE DEF u
  <2> QED
    BY <2>1 DEF WithEdit
<1> HIDE DEF u
<1>6. /\ Shape(w) /\ w.cursor = c
      /\ w.text = u.text /\ w.dels = u.dels /\ w.undos = u.undos /\ w.clock = u.clock
      /\ w.deferred = u.deferred /\ w.versions = u.versions /\ w.cursors = u.cursors
      /\ w.stack = u.stack /\ w.index = u.index /\ w.recent = u.recent
  BY <1>5, CursorFields
<1> HIDE DEF w
<1>7. /\ Shape(t) /\ t.text = w.text /\ t.dels = w.dels /\ t.undos = w.undos
      /\ t.clock = w.clock /\ t.versions = w.versions /\ t.deferred = w.deferred
      /\ t.cursor = w.cursor /\ t.cursors = w.cursors
  BY <1>6, RecordFields
<1>8. Doc(P, t)
  <2>1. /\ t.text = u.text /\ t.dels = u.dels /\ t.undos = u.undos
        /\ t.clock = u.clock /\ t.versions = u.versions
    BY <1>6, <1>7
  <2> HIDE DEF t, P
  <2> QED
    BY <1>5, <2>1, DocSame
<1>9. Mark(w, c)
  <2>1. Mark(s, s.cursor)
    BY <1>1 DEF Own
  <2>2. CASE c = s.cursor
    BY <1>5, <1>6, <2>1, <2>2 DEF Mark
  <2>3. CASE len > 0 /\ c = <<op.ts[1], r, len>>
    <3>1. Observed(u.versions, op.ts)
      BY <1>1, <1>2, <1>5 DEF Observe, Observed, Larger
    <3>2. \A k \in 1..op.len : <<op.ts[1], op.ts[2], k>> \in Range(u.text)
      BY <1>2, <1>5, <3>1 DEF Doc, Complete
    <3>3. c \in Range(w.text)
      BY <1>2, <1>3, <1>6, <2>3, <3>2
    <3>4. c \in Chars
      BY <1>1, <1>3, <2>3, ConstantsAssumption, SMTT(60) DEF Chars, Replicas
    <3> QED
      BY <3>3, <3>4 DEF Mark
  <2>4. CASE len = 0 /\ c = op.start
    <3>1. Len(s.text) \in Nat /\ DOMAIN s.text = 1..Len(s.text) /\ \A i \in 1..Len(s.text) : s.text[i] \in Chars
      BY <1>1, DocText DEF Text
    <3>2. PICK p \in 2..(Len(s.text) + 1) : op.start = s.text[p - 1]
      BY DEF Editing
    <3>3. p - 1 \in 1..Len(s.text)
      BY <3>1
    <3>4. c \in Chars /\ c \in Range(s.text)
      BY <2>4, <3>1, <3>2, <3>3 DEF Range
    <3> QED
      BY <1>5, <1>6, <3>4 DEF Mark
  <2> QED
    BY <2>2, <2>3, <2>4
<1>10. StackOK(r, t)
  <2>1. \A v : Undone(w, <<v, r>>) <=> Undone(s, <<v, r>>)
    BY <1>5, <1>6 DEF Undone
  <2>2. ~Undone(w, <<s.clock + 1, r>>)
    BY <1>1, <2>1, NotYetUndone
  <2>3. /\ w.stack = s.stack /\ w.index = s.index /\ w.recent = s.recent
        /\ Range(s.text) \subseteq Range(w.text) /\ w.clock = s.clock + 1 /\ Mark(w, w.cursor)
    BY <1>5, <1>6, <1>9
  <2> QED
    BY <1>1, <1>6, <2>1, <2>2, <2>3, RecordedStack
<1>11. UndosOK(t)
  BY <1>1, <1>5, <1>6, <1>7 DEF UndosOK
<1>12. /\ t.versions = Observe(s.versions, op.ts) /\ t.clock = s.clock + 1
       /\ t.cursors = s.cursors /\ t.deferred = s.deferred /\ t.cursor = c /\ t.text = w.text
  BY <1>5, <1>6, <1>7
<1> HIDE DEF t
<1>13. Mark(t, t.cursor)
  BY <1>9, <1>12 DEF Mark
<1>14. Local(P, r, t)
  <2>1. Shape(t)
    BY <1>7
  <2> QED
    BY <1>1, <1>2, <1>8, <1>10, <1>11, <1>12, <1>13, <2>1, OwnChange
<1>15. Onward(O, s, t)
  <2>1. op.ts[1] \in Nat
    BY <1>1, <1>3
  <2> QED
    BY <1>1, <1>12, <2>1, OwnChangeOnward
<1>16. t.cursor = s.cursor => CursorSent(P, r, t)
  BY <1>1, <1>2, CursorSentStays
<1>17. Changed(O, r, s, op, t)
  BY <1>2, <1>3, <1>4, <1>14, <1>15, <1>16 DEF Changed
<1> QED
  BY <1>3, <1>17 DEF t, w, u

-----------------------------------------------------------------------------
(* Undo, redo, and the cursor. *)

\* What is undone once more is redone, and the other way round.
LEMMA UndoToggles ==
  ASSUME NEW O, AllSound(O), NEW r \in Replicas, NEW s, Doc(O, s), Own(O, r, s), UndosOK(s),
         NEW edits \in SUBSET Nat, NEW t,
         t.undos = s.undos \cup {<<<<n, r>>, s.clock + 1>> : n \in edits}, NEW v \in Nat
  PROVE  Undone(t, <<v, r>>) <=> (Undone(s, <<v, r>>) <=> v \notin edits)
<1> DEFINE old == {u \in s.undos : u[1] = <<v, r>>}
           now == {u \in t.undos : u[1] = <<v, r>>}
           one == <<<<v, r>>, s.clock + 1>>
<1>1. s.clock \in Nat
  BY DEF Doc
<1>2. IsFiniteSet(old) /\ Cardinality(old) \in Nat
  <2>1. <<v, r>> \in Nat \X (0..N)
    BY ConstantsAssumption DEF Replicas
  <2>2. IsFiniteSet(old)
    BY <2>1 DEF UndosOK
  <2> QED
    BY <2>2, FS_CardinalityType
<1>3. one \notin old
  <2> SUFFICES ASSUME one \in s.undos PROVE FALSE
    OBVIOUS
  <2>1. one[1] = <<v, r>> /\ one[2] = s.clock + 1
    OBVIOUS
  <2> HIDE DEF one
  <2>2. one[2] <= s.clock
    BY <2>1, UndosOld
  <2> QED
    BY <1>1, <2>1, <2>2
<1>4. /\ Undone(s, <<v, r>>) <=> Cardinality(old) % 2 = 1
      /\ Undone(t, <<v, r>>) <=> Cardinality(now) % 2 = 1
  BY Zenon DEF Undone
<1>5. CASE v \in edits
  <2>1. now = old \cup {one}
    BY <1>5
  <2> HIDE DEF now, old, one
  <2>2. Cardinality(now) = Cardinality(old) + 1
    BY <1>2, <1>3, <2>1, FS_AddElement
  <2>3. (Cardinality(old) + 1) % 2 = 1 <=> ~(Cardinality(old) % 2 = 1)
    BY <1>2
  <2> QED
    BY <1>4, <1>5, <2>2, <2>3
<1>6. CASE v \notin edits
  <2>1. now = old
    BY <1>6
  <2> QED
    BY <1>4, <1>6, <2>1
<1> QED
  BY <1>5, <1>6

Undoing(s, r, edits, op) ==
  op = [kind |-> "undo", ts |-> <<s.clock + 1, r>>, versions |-> s.versions, edits |-> edits]

LEMMA UndoSound ==
  ASSUME NEW O, AllSound(O), NEW r \in Replicas, NEW s, Local(O, r, s),
         NEW edits \in SUBSET Nat, IsFiniteSet(edits), \A v \in edits : v <= s.clock,
         NEW op, Undoing(s, r, edits, op)
  PROVE  Newest(O, op) /\ AllSound(O \cup {op})
<1> DEFINE P == O \cup {op}
<1>1. /\ Doc(O, s) /\ Own(O, r, s) /\ s.clock \in Nat /\ s.versions \in [Replicas -> Nat]
      /\ \A q \in Replicas : s.versions[q] <= s.clock /\ Real(O, s.versions[q], q)
  BY DEF Local, Doc, Closed
<1>2. op.kind = "undo" /\ op.ts = <<s.clock + 1, r>> /\ op.versions = s.versions /\ op.edits = edits
  BY DEF Undoing
<1>3. op.ts[1] = s.clock + 1 /\ op.ts[2] = r
  BY <1>2
<1>4. Newest(O, op)
  BY <1>2, OwnNewest
<1>5. Informed(P, op)
  <2>1. \A q \in Replicas : op.versions[q] < op.ts[1] /\ Real(P, op.versions[q], q)
    <3> TAKE q \in Replicas
    <3>1. s.versions[q] \in Nat /\ s.versions[q] <= s.clock /\ Real(O, s.versions[q], q)
      BY <1>1
    <3>2. Real(P, s.versions[q], q)
      BY <3>1, KnownGrows
    <3> HIDE DEF P
    <3> QED
      BY <1>1, <1>2, <1>3, <3>1, <3>2
  <2>2. ASSUME NEW y \in P, Changes(y), y.ts[2] = op.ts[2], y.ts[1] < op.ts[1]
        PROVE  y.ts[1] <= op.versions[op.ts[2]]
    <3>1. CASE y \in O
      BY <1>1, <1>2, <1>3, <2>2, <3>1 DEF Own
    <3>2. CASE y = op
      BY <1>1, <1>3, <2>2, <3>2
    <3> QED
      BY <3>1, <3>2
  <2> QED
    BY <1>1, <1>2, <2>1, <2>2 DEF Informed
<1>6. \A v \in op.edits : v \in Nat /\ v < op.ts[1]
  <2> TAKE v \in op.edits
  <2>1. v \in Nat /\ v <= s.clock
    BY <1>2
  <2> QED
    BY <1>1, <1>3, <2>1
<1>7. Sound(P, op)
  <2>1. op.ts \in (Nat \ {0}) \X Replicas
    BY <1>1, <1>2
  <2>2. IsFiniteSet(op.edits) /\ op.kind = "undo" /\ op.kind \in {"edit", "undo", "selections"}
    BY <1>2
  <2> HIDE DEF P
  <2> QED
    BY <1>5, <1>6, <2>1, <2>2 DEF Sound
<1> QED
  BY <1>4, <1>7, AllSoundGrows

Rewound(s, c, index) == [s EXCEPT !.cursor = c, !.index = index, !.recent = FALSE]

\* The entry at i is undone or redone: it alone changes sides of the index.
LEMMA UndoRecorded ==
  ASSUME NEW O, AllSound(O), NEW r \in Replicas, NEW s, Replica(O, r, s),
         NEW i \in 1..Len(s.stack), NEW index \in 1..Len(s.stack), NEW k \in 1..Len(s.stack),
         i > s.index <=> ~(i > index),
         \A j \in 1..Len(s.stack) : j # i => (j > s.index <=> j > index),
         NEW op, Undoing(s, r, s.stack[i].edits, op)
  PROVE  Changed(O, r, s, op, Rewound(UndoneOrRedone(Tick(s, r), op), s.stack[k].cursor, index))
<1> DEFINE P == O \cup {op}
           edits == s.stack[i].edits
           c == s.stack[k].cursor
           w == Tick(s, r)
           u == UndoneOrRedone(w, op)
           t == Rewound(u, c, index)
<1>1. /\ Local(O, r, s) /\ CursorSent(O, r, s) /\ Doc(O, s) /\ Own(O, r, s) /\ StackOK(r, s) /\ UndosOK(s)
      /\ Shape(s) /\ s.clock \in Nat /\ s.versions \in [Replicas -> Nat]
  BY DEF Replica, Local, Doc, Closed
<1>2. /\ s.stack \in Seq(Entries) /\ Len(s.stack) \in 1..Capacity /\ Len(s.stack) \in Nat
      /\ \A j \in 1..Len(s.stack) : EntryOK(r, s, j, s.stack[j]) /\ s.stack[j] \in Entries
                                    /\ s.stack[j].edits \in SUBSET Nat
      /\ \A j, l \in 1..Len(s.stack) : j # l => s.stack[j].edits \cap s.stack[l].edits = {}
  BY <1>1, EntryFacts DEF StackOK
<1>3. edits \in SUBSET Nat /\ IsFiniteSet(edits) /\ \A v \in edits : v <= s.clock
  BY <1>2 DEF EntryOK
<1>4. Mark(s, c)
  BY <1>2 DEF EntryOK
<1>5. \A j \in 1..Len(s.stack) : \A v \in s.stack[j].edits : v \in edits <=> j = i
  BY <1>2
<1> HIDE DEF edits, c
<1>6. Undoing(s, r, edits, op)
  BY DEF edits
<1>7. op.kind = "undo" /\ op.ts = <<s.clock + 1, r>> /\ op.versions = s.versions /\ op.edits = edits
  BY <1>6 DEF Undoing
<1>8. op.ts[1] = s.clock + 1 /\ op.ts[2] = r
  BY <1>7
<1>9. Newest(O, op) /\ AllSound(P) /\ op \in P
  BY <1>1, <1>3, <1>6, UndoSound
<1>10. ~Observed(s.versions, op.ts)
  BY <1>1, <1>9, NewestUnobserved DEF Doc
<1>11. Doc(P, s)
  BY <1>1, <1>10, DocGrows
<1>12. /\ Shape(w) /\ w.clock = s.clock + 1 /\ w.versions = Observe(s.versions, op.ts)
       /\ w.text = s.text /\ w.dels = s.dels /\ w.undos = s.undos
       /\ w.deferred = s.deferred /\ w.cursor = s.cursor /\ w.cursors = s.cursors
       /\ w.stack = s.stack /\ w.index = s.index /\ w.recent = s.recent
  BY <1>1, <1>7, TickFields
<1> HIDE DEF w
<1>13. /\ Shape(u) /\ u.undos = w.undos \cup {<<<<v, op.ts[2]>>, op.ts[1]>> : v \in op.edits}
       /\ u.text = w.text /\ u.dels = w.dels /\ u.clock = w.clock /\ u.versions = w.versions
       /\ u.deferred = w.deferred /\ u.cursor = w.cursor /\ u.cursors = w.cursors
       /\ u.stack = w.stack /\ u.index = w.index /\ u.recent = w.recent
  <2>1. Shape(w)
    BY <1>12
  <2> HIDE DEF u
  <2>2. u = UndoneOrRedone(w, op)
    BY DEF u
  <2> QED
    BY <2>1, <2>2, UndoneOrRedoneFields, ZenonT(60)
<1> HIDE DEF u
<1>14. /\ Shape(t) /\ t.cursor = c /\ t.index = index /\ t.recent = FALSE
       /\ t.text = u.text /\ t.dels = u.dels /\ t.undos = u.undos /\ t.clock = u.clock
       /\ t.deferred = u.deferred /\ t.versions = u.versions /\ t.cursors = u.cursors
       /\ t.stack = u.stack
  <2>1. Shape(u)
    BY <1>13
  <2>2. t = Rewound(u, c, index)
    OBVIOUS
  <2> HIDE DEF t
  <2> QED
    BY <2>1, <2>2 DEF Rewound, Shape, Fields
<1> HIDE DEF t
<1>15. /\ t.text = s.text /\ t.dels = s.dels /\ t.clock = s.clock + 1
       /\ t.undos = s.undos \cup {<<<<v, op.ts[2]>>, op.ts[1]>> : v \in op.edits}
       /\ t.versions = Observe(s.versions, op.ts)
       /\ t.deferred = s.deferred /\ t.cursors = s.cursors /\ t.stack = s.stack
  BY <1>12, <1>13, <1>14
<1>16. t.undos = s.undos \cup {<<<<v, r>>, s.clock + 1>> : v \in edits}
  BY <1>7, <1>8, <1>15
<1>17. Includes(s.versions, op.versions)
  BY <1>1, <1>7 DEF Includes
<1>18. Doc(P, t)
  <2>1. t.clock \in Nat /\ s.clock <= t.clock /\ op.ts[1] <= t.clock
    BY <1>1, <1>8, <1>15
  <2> HIDE DEF P
  <2> QED
    BY <1>7, <1>9, <1>10, <1>11, <1>15, <1>17, <2>1, DocUndo
<1>19. \A v \in Nat : Undone(t, <<v, r>>) <=> (Undone(s, <<v, r>>) <=> v \notin edits)
  BY <1>1, <1>3, <1>16, UndoToggles
<1>20. UndosOK(t)
  <2>1. ASSUME NEW ts \in Nat \X (0..N) PROVE IsFiniteSet({x \in t.undos : x[1] = ts})
    <3> DEFINE old == {x \in s.undos : x[1] = ts}
    <3>1. IsFiniteSet(old)
      BY <1>1 DEF UndosOK
    <3>2. IsFiniteSet(old \cup {<<ts, s.clock + 1>>})
      BY <3>1, FS_AddElement
    <3>3. {x \in t.undos : x[1] = ts} \in SUBSET (old \cup {<<ts, s.clock + 1>>})
      BY <1>16
    <3> QED
      BY <3>2, <3>3, FS_Subset
  <2> QED
    BY <2>1 DEF UndosOK
<1>21. StackOK(r, t)
  <2>1. ASSUME NEW j \in 1..Len(s.stack) PROVE EntryOK(r, t, j, s.stack[j])
    <3>1. EntryOK(r, s, j, s.stack[j]) /\ s.stack[j].edits \in SUBSET Nat
      BY <1>2
    <3>2. Mark(t, s.stack[j].cursor) /\ IsFiniteSet(s.stack[j].edits)
      BY <1>15, <3>1 DEF EntryOK, Mark
    <3>3. ASSUME NEW v \in s.stack[j].edits
          PROVE  v <= t.clock /\ (Undone(t, <<v, r>>) <=> j > t.index)
      <4>1. v \in Nat /\ v <= s.clock /\ (Undone(s, <<v, r>>) <=> j > s.index)
        BY <3>1 DEF EntryOK
      <4>2. v <= t.clock
        BY <1>1, <1>15, <4>1
      <4>3. v \in edits <=> j = i
        BY <1>5
      <4>4. Undone(t, <<v, r>>) <=> (Undone(s, <<v, r>>) <=> v \notin edits)
        BY <1>19, <4>1
      <4>5. CASE j = i
        BY <1>14, <4>1, <4>2, <4>3, <4>4, <4>5
      <4>6. CASE j # i
        BY <1>14, <4>1, <4>2, <4>3, <4>4, <4>6
      <4> QED
        BY <4>5, <4>6
    <3> QED
      BY <3>2, <3>3 DEF EntryOK
  <2> QED
    BY <1>2, <1>14, <1>15, <2>1 DEF StackOK
<1>22. Mark(t, t.cursor)
  BY <1>4, <1>14, <1>15 DEF Mark
<1>23. Local(P, r, t)
  BY <1>1, <1>7, <1>14, <1>15, <1>18, <1>20, <1>21, <1>22, OwnChange
<1>24. Onward(O, s, t)
  <2>1. op.ts[1] \in Nat
    BY <1>1, <1>8
  <2> QED
    BY <1>1, <1>15, <2>1, OwnChangeOnward
<1>25. t.cursor = s.cursor => CursorSent(P, r, t)
  BY <1>1, <1>7, CursorSentStays
<1>26. Changed(O, r, s, op, t)
  BY <1>7, <1>8, <1>9, <1>23, <1>24, <1>25 DEF Changed
<1> QED
  BY <1>26 DEF t, u, w, c

\* Only the cursor moves.
Moved(s, c) == [s EXCEPT !.cursor = c, !.stack[s.index].cursor = c, !.recent = FALSE]

LEMMA MovedFields ==
  ASSUME NEW s, Shape(s), NEW c
  PROVE  LET t == Moved(s, c)
         IN  /\ Shape(t) /\ t.cursor = c /\ t.recent = FALSE
             /\ t.stack = [s.stack EXCEPT ![s.index].cursor = c]
             /\ t.text = s.text /\ t.dels = s.dels /\ t.undos = s.undos /\ t.clock = s.clock
             /\ t.deferred = s.deferred /\ t.versions = s.versions /\ t.cursors = s.cursors
             /\ t.index = s.index
BY DEF Shape, Fields, Moved

LEMMA MovedLocal ==
  ASSUME NEW O, AllSound(O), NEW r \in Replicas, NEW s, Replica(O, r, s), NEW c, Mark(s, c)
  PROVE  Local(O, r, Moved(s, c)) /\ Onward(O, s, Moved(s, c))
<1> DEFINE t == Moved(s, c)
           old == s.stack[s.index]
           e == [old EXCEPT !.cursor = c]
<1>1. /\ Local(O, r, s) /\ Doc(O, s) /\ Own(O, r, s) /\ StackOK(r, s) /\ UndosOK(s) /\ Shape(s)
      /\ CursorsOK(O, s) /\ DeferredOK(O, r, s) /\ s.clock \in Nat /\ s.versions \in [Replicas -> Nat]
  BY DEF Replica, Local, Doc, Closed
<1>2. /\ s.stack \in Seq(Entries) /\ Len(s.stack) \in 1..Capacity /\ s.index \in 1..Len(s.stack)
      /\ \A j \in 1..Len(s.stack) : EntryOK(r, s, j, s.stack[j]) /\ s.stack[j] \in Entries
      /\ \A j, l \in 1..Len(s.stack) : j # l => s.stack[j].edits \cap s.stack[l].edits = {}
  BY <1>1, EntryFacts DEF StackOK
<1>3. /\ Shape(t) /\ t.cursor = c /\ t.recent = FALSE
      /\ t.stack = [s.stack EXCEPT ![s.index].cursor = c]
      /\ t.text = s.text /\ t.dels = s.dels /\ t.undos = s.undos /\ t.clock = s.clock
      /\ t.deferred = s.deferred /\ t.versions = s.versions /\ t.cursors = s.cursors
      /\ t.index = s.index
  BY <1>1, MovedFields
<1> HIDE DEF t
<1>4. t.stack = [s.stack EXCEPT ![s.index] = e]
  BY <1>3
<1>5. e \in Entries /\ e.edits = old.edits /\ e.cursor = c
  <2>1. old \in Entries
    BY <1>2
  <2> HIDE DEF old
  <2> QED
    BY <2>1 DEF Entries, Mark
<1> HIDE DEF e
<1>6. /\ t.stack \in Seq(Entries) /\ Len(t.stack) = Len(s.stack)
      /\ \A j \in 1..Len(s.stack) : t.stack[j] = IF j = s.index THEN e ELSE s.stack[j]
  BY <1>2, <1>4, <1>5
<1>7. \A j \in 1..Len(s.stack) : t.stack[j].edits = s.stack[j].edits
  BY <1>5, <1>6
<1>8. \A v : Undone(t, <<v, r>>) <=> Undone(s, <<v, r>>)
  BY <1>3 DEF Undone
<1>9. StackOK(r, t)
  <2>1. ASSUME NEW j \in 1..Len(s.stack) PROVE EntryOK(r, t, j, t.stack[j])
    <3>1. EntryOK(r, s, j, s.stack[j])
      BY <1>2
    <3>2. Mark(t, t.stack[j].cursor)
      BY <1>3, <1>5, <1>6, <3>1 DEF EntryOK, Mark
    <3> QED
      BY <1>3, <1>7, <1>8, <3>1, <3>2 DEF EntryOK
  <2> QED
    BY <1>2, <1>3, <1>6, <1>7, <2>1, ZenonT(60) DEF StackOK
<1>10. Doc(O, t)
  <2>1. /\ Doc(O, s) /\ t.text = s.text /\ t.dels = s.dels /\ t.undos = s.undos
        /\ t.versions = s.versions /\ t.clock = s.clock
    BY <1>1, <1>3
  <2> QED
    BY <2>1, DocSame
<1>11. CursorsOK(O, t)
  <2>1. CursorsOK(O, s) /\ t.cursors = s.cursors
    BY <1>1, <1>3
  <2> QED
    BY <2>1, Zenon DEF CursorsOK
<1>12. UndosOK(t)
  BY <1>1, <1>3 DEF UndosOK
<1>13. DeferredOK(O, r, t)
  <2>1. \A y : Ready(t, y) <=> Ready(s, y)
    BY <1>3 DEF Ready
  <2> QED
    BY <1>1, <1>3, <2>1 DEF DeferredOK
<1>14. Own(O, r, t)
  BY <1>1, <1>3 DEF Own, Mark
<1>15. Onward(O, s, t)
  BY <1>1, <1>3, OwnChangeOnward
<1> QED
  BY <1>3, <1>9, <1>10, <1>11, <1>12, <1>13, <1>14, <1>15 DEF Local, t

-----------------------------------------------------------------------------
(* The steps of the system. *)

Items(m) == {m[i] : i \in DOMAIN m}

LEMMA OperationsSent ==
  ASSUME NEW m, sent' = sent \cup {m}
  PROVE  Operations' = Operations \cup Items(m)
BY DEF Operations, Items

\* m goes out, and leaves its author with the buffer f.
LEMMA MessageSent ==
  ASSUME IInv, NEW r \in Replicas, NEW f, NEW m, Message(m), NEW P, P = Operations \cup Items(m),
         AllSound(P), Replica(P, r, f), \A q \in Replicas : q # r => Replica(P, q, rep[q]),
         Onward(Operations, rep[r], f),
         rep' = [rep EXCEPT ![r] = f], sent' = sent \cup {m}, received' = received
  PROVE  IInv'
<1>1. Operations' = P
  BY OperationsSent
<1>2. /\ DOMAIN rep = Replicas /\ Messages
  BY DEF IInv
<1>3. DOMAIN rep' = Replicas /\ rep'[r] = f /\ \A q \in Replicas : q # r => rep'[q] = rep[q]
  BY <1>2
<1>4. \A q \in Replicas : Replica(P, q, rep'[q])
  BY <1>3
<1>5. Messages'
  <2>1. \A k \in sent' : Message(k)
    BY <1>2 DEF Messages
  <2>2. received' \in [Replicas -> SUBSET sent']
    BY <1>2 DEF Messages
  <2>3. ASSUME NEW q \in Replicas, NEW k \in received[q]
        PROVE  k[1].ts[2] # q /\ \A i \in DOMAIN k : k[i] \in rep'[q].deferred \/ Done(rep'[q], k[i])
    <3>1. k[1].ts[2] # q /\ \A i \in DOMAIN k : k[i] \in rep[q].deferred \/ Done(rep[q], k[i])
      BY <1>2 DEF Messages
    <3>2. CASE q # r
      BY <1>3, <3>1, <3>2
    <3>3. CASE q = r
      <4>1. k \in sent
        BY <1>2 DEF Messages
      <4>2. \A i \in DOMAIN k : k[i] \in Operations
        BY <4>1 DEF Operations
      <4> QED
        BY <1>3, <3>1, <3>3, <4>2 DEF Onward
    <3> QED
      BY <3>2, <3>3
  <2> QED
    BY <2>1, <2>2, <2>3 DEF Messages
<1>6. (AllSound(Operations))' <=> AllSound(P)
  BY <1>1 DEF AllSound, Sound, Changes, Informed, Real, Place, Known
<1> QED
  BY <1>1, <1>3, <1>4, <1>5, <1>6 DEF IInv

\* A batch's message: its operation, and the selections if they changed.
LEMMA BatchMessage ==
  ASSUME NEW x, NEW y, x.ts[2] = y.ts[2]
  PROVE  /\ Message(<<x>> \o <<>>) /\ Items(<<x>> \o <<>>) = {x}
         /\ Message(<<>> \o <<y>>) /\ Items(<<>> \o <<y>>) = {y}
         /\ Message(<<x>> \o <<y>>) /\ Items(<<x>> \o <<y>>) = {x, y}
<1>1. ASSUME NEW m, m = <<x>> \o <<>> PROVE Message(m) /\ Items(m) = {x}
  <2>1. m = <<x>>
    BY <1>1
  <2> QED
    BY <2>1 DEF Message, Items
<1>2. ASSUME NEW m, m = <<>> \o <<y>> PROVE Message(m) /\ Items(m) = {y}
  <2>1. m = <<y>>
    BY <1>2
  <2> QED
    BY <2>1 DEF Message, Items
<1>3. ASSUME NEW m, m = <<x>> \o <<y>> PROVE Message(m) /\ Items(m) = {x, y}
  <2>1. <<x>> \in Seq({x, y}) /\ <<y>> \in Seq({x, y}) /\ Len(<<x>>) = 1 /\ Len(<<y>>) = 1
    OBVIOUS
  <2>2. m \in Seq({x, y}) /\ Len(m) = 2
    BY <1>3, <2>1
  <2>3. m[1] = x /\ m[2] = y
    BY <1>3, <2>1
  <2>4. DOMAIN m = {1, 2} /\ 1..Len(m) = {1, 2}
    BY <2>2
  <2> QED
    BY <2>2, <2>3, <2>4 DEF Message, Items
<1> QED
  BY <1>1, <1>2, <1>3

\* What end_batch makes of a buffer in which r has done something.
LEMMA BatchSent ==
  ASSUME IInv, NEW r \in Replicas, NEW t, NEW ops, EndBatch(r, t, ops),
         \/ /\ ops = <<>> /\ t.cursor # rep[r].cursor
            /\ Local(Operations, r, t) /\ Onward(Operations, rep[r], t)
         \/ \E op : ops = <<op>> /\ Changed(Operations, r, rep[r], op, t)
  PROVE  IInv'
<1> DEFINE O == Operations
           s == rep[r]
           f == Ticked(t)
           sel == SelectionsOperation(f, r)
<1>1. /\ AllSound(O) /\ \A q \in Replicas : Replica(O, q, rep[q])
  BY DEF IInv
<1>2. received' = received
  BY DEF EndBatch
<1>3. ASSUME t.cursor # s.cursor
      PROVE  rep' = [rep EXCEPT ![r] = f] /\ sent' = sent \cup {ops \o <<sel>>}
  BY <1>3, Zenon DEF EndBatch, Ticked
<1>4. ASSUME t.cursor = s.cursor
      PROVE  rep' = [rep EXCEPT ![r] = t] /\ sent' = sent \cup {ops \o <<>>}
  BY <1>4, Zenon DEF EndBatch
<1> HIDE DEF O, s, f, sel
<1>5. ASSUME NEW Q, AllSound(Q), Local(Q, r, t)
      PROVE  /\ sel.ts[2] = r /\ Newest(Q, sel) /\ AllSound(Q \cup {sel}) /\ Replica(Q \cup {sel}, r, f)
             /\ f.deferred = t.deferred /\ f.versions = t.versions /\ f.cursors = t.cursors
  BY <1>5, SelectionsSent, SMTT(30) DEF f, sel
<1>6. ASSUME Onward(O, s, t), f.deferred = t.deferred, f.versions = t.versions, f.cursors = t.cursors
      PROVE  Onward(O, s, f)
  BY <1>6 DEF Onward, Done
<1>7. CASE ops = <<>> /\ t.cursor # s.cursor /\ Local(O, r, t) /\ Onward(O, s, t)
  <2> DEFINE m == <<>> \o <<sel>>
  <2>1. rep' = [rep EXCEPT ![r] = f] /\ sent' = sent \cup {m}
    BY <1>3, <1>7
  <2>2. Message(m) /\ Items(m) = {sel}
    BY BatchMessage
  <2> HIDE DEF m
  <2>3. /\ sel.ts[2] = r /\ Newest(O, sel) /\ AllSound(O \cup {sel}) /\ Replica(O \cup {sel}, r, f)
        /\ Onward(O, s, f)
    BY <1>1, <1>5, <1>6, <1>7
  <2>4. \A q \in Replicas : q # r => Replica(O \cup {sel}, q, rep[q])
    BY <1>1, <2>3, OthersGrow
  <2>5. O \cup {sel} = Operations \cup Items(m)
    BY <2>2 DEF O
  <2> QED
    BY <1>2, <2>1, <2>2, <2>3, <2>4, <2>5, MessageSent DEF O, s
<1>8. ASSUME NEW op, ops = <<op>>, Changed(O, r, s, op, t) PROVE IInv'
  <2> DEFINE P == O \cup {op}
  <2>1. /\ Newest(O, op) /\ AllSound(P) /\ op.ts[2] = r /\ Local(P, r, t) /\ Onward(O, s, t)
        /\ t.cursor = s.cursor => CursorSent(P, r, t)
    BY <1>8 DEF Changed
  <2>2. \A q \in Replicas : q # r => Replica(P, q, rep[q])
    BY <1>1, <2>1, OthersGrow
  <2>3. CASE t.cursor = s.cursor
    <3> DEFINE m == <<op>> \o <<>>
    <3>1. rep' = [rep EXCEPT ![r] = t] /\ sent' = sent \cup {m}
      BY <1>4, <1>8, <2>3
    <3>2. Message(m) /\ Items(m) = {op}
      BY BatchMessage
    <3> HIDE DEF m
    <3>3. Replica(P, r, t)
      BY <2>1, <2>3 DEF Replica
    <3>4. P = Operations \cup Items(m)
      BY <3>2 DEF O
    <3> HIDE DEF P
    <3> QED
      BY <1>2, <2>1, <2>2, <3>1, <3>2, <3>3, <3>4, MessageSent DEF O, s
  <2>4. CASE t.cursor # s.cursor
    <3> DEFINE m == <<op>> \o <<sel>>
               Q == P \cup {sel}
    <3>1. rep' = [rep EXCEPT ![r] = f] /\ sent' = sent \cup {m}
      BY <1>3, <1>8, <2>4
    <3> HIDE DEF P
    <3>2. /\ sel.ts[2] = r /\ Newest(P, sel) /\ AllSound(Q) /\ Replica(Q, r, f)
          /\ f.deferred = t.deferred /\ f.versions = t.versions /\ f.cursors = t.cursors
      BY <1>5, <2>1
    <3>3. Message(m) /\ Items(m) = {op, sel}
      BY <2>1, <3>2, BatchMessage
    <3>4. Onward(O, s, f)
      BY <1>6, <2>1, <3>2
    <3>5. \A q \in Replicas : q # r => Replica(Q, q, rep[q])
      BY <2>2, <3>2, OthersGrow
    <3>6. Q = Operations \cup Items(m)
      BY <3>3 DEF O, P
    <3> HIDE DEF m, Q
    <3> QED
      BY <1>2, <3>1, <3>2, <3>3, <3>4, <3>5, <3>6, MessageSent DEF O, s
  <2> QED
    BY <2>3, <2>4
<1> QED
  BY <1>7, <1>8 DEF O, s

LEMMA EditStep ==
  ASSUME IInv, NEW r \in Replicas, NEW b \in 0..Cardinality(Visible(rep[r])), NEW a \in 0..b,
         NEW len \in 0..MaxLen, EditRange(r, a, b, len)
  PROVE  IInv'
<1> DEFINE s == rep[r]
           op == EditOperation(s, r, a, b, len)
           u == Edited(s, r, op)
           follows == IF len > 0 THEN <<op.ts[1], r, len>> ELSE op.start
<1>1. PICK c, joins : /\ c \in {s.cursor} \cup (IF MayMove THEN {follows} ELSE {})
                      /\ joins \in {FALSE, MayJoin(s)}
                      /\ EndBatch(r, RecordEdit([u EXCEPT !.cursor = c], op.ts[1], joins), <<op>>)
  BY Zenon DEF EditRange
<1>2. AllSound(Operations) /\ Replica(Operations, r, s)
  BY DEF IInv
<1>3. len \in Nat /\ b \in 0..Cardinality(Visible(s))
  BY ConstantsAssumption
<1> HIDE DEF s, op
<1>4. Editing(s, r, a, b, len, op)
  BY <1>2, <1>3, EditMade DEF Replica, Local, op
<1>5. MayJoin(s) \in BOOLEAN /\ joins \in BOOLEAN /\ (joins => MayJoin(s))
  BY <1>1 DEF MayJoin
<1>6. c = s.cursor \/ (len > 0 /\ c = <<op.ts[1], r, len>>) \/ (len = 0 /\ c = op.start)
  BY <1>1, <1>3
<1>7. Changed(Operations, r, s, op, RecordEdit(CursorAt(u, c), op.ts[1], joins))
  BY <1>2, <1>3, <1>4, <1>5, <1>6, EditRecorded
<1> HIDE DEF u
<1>8. EndBatch(r, RecordEdit(CursorAt(u, c), op.ts[1], joins), <<op>>)
  BY <1>1, Zenon DEF CursorAt
<1> QED
  BY <1>7, <1>8, BatchSent DEF s

LEMMA UndoStep ==
  ASSUME IInv, NEW r \in Replicas, Undo(r) \/ Redo(r)
  PROVE  IInv'
<1> DEFINE s == rep[r]
<1>1. AllSound(Operations) /\ Replica(Operations, r, s) /\ StackOK(r, s)
  BY DEF IInv, Replica, Local
<1>2. s.index \in 1..Len(s.stack) /\ Len(s.stack) \in Nat
  BY <1>1 DEF StackOK
<1> HIDE DEF s
<1>3. ASSUME NEW i \in 1..Len(s.stack), NEW index \in 1..Len(s.stack), NEW k \in 1..Len(s.stack),
             i > s.index <=> ~(i > index),
             \A j \in 1..Len(s.stack) : j # i => (j > s.index <=> j > index),
             UndoOrRedo(r, index, s.stack[i].edits, s.stack[k].cursor)
      PROVE  IInv'
  <2> DEFINE op == [kind |-> "undo", ts |-> <<s.clock + 1, r>>, versions |-> s.versions,
                    edits |-> s.stack[i].edits]
             t == Rewound(UndoneOrRedone(Tick(s, r), op), s.stack[k].cursor, index)
  <2>1. Undoing(s, r, s.stack[i].edits, op)
    BY Zenon DEF Undoing
  <2>2. EndBatch(r, t, <<op>>)
    BY <1>3, Zenon DEF UndoOrRedo, Rewound, s
  <2> HIDE DEF op
  <2>3. Changed(Operations, r, s, op, t)
    BY <1>1, <1>3, <2>1, UndoRecorded
  <2> HIDE DEF t
  <2> QED
    BY <2>2, <2>3, BatchSent DEF s
<1>4. CASE Undo(r)
  <2>1. s.index > 1 /\ UndoOrRedo(r, s.index - 1, s.stack[s.index].edits, s.stack[s.index - 1].cursor)
    BY <1>4 DEF Undo, s
  <2>2. s.index - 1 \in 1..Len(s.stack)
    BY <1>2, <2>1
  <2>3. \A j \in 1..Len(s.stack) : j # s.index => (j > s.index <=> j > s.index - 1)
    BY <1>2
  <2>4. s.index > s.index <=> ~(s.index > s.index - 1)
    BY <1>2
  <2> QED
    BY <1>2, <1>3, <2>1, <2>2, <2>3, <2>4
<1>5. CASE Redo(r)
  <2>1. /\ s.index < Len(s.stack)
        /\ UndoOrRedo(r, s.index + 1, s.stack[s.index + 1].edits, s.stack[s.index + 1].cursor)
    BY <1>5 DEF Redo, s
  <2>2. s.index + 1 \in 1..Len(s.stack)
    BY <1>2, <2>1
  <2>3. \A j \in 1..Len(s.stack) : j # s.index + 1 => (j > s.index <=> j > s.index + 1)
    BY <1>2
  <2>4. s.index + 1 > s.index <=> ~(s.index + 1 > s.index + 1)
    BY <1>2
  <2> QED
    BY <1>2, <1>3, <2>1, <2>2, <2>3, <2>4
<1> QED
  BY <1>4, <1>5

LEMMA MoveStep ==
  ASSUME IInv, NEW r \in Replicas, NEW i \in Visible(rep[r]) \cup {1}, MoveCursor(r, rep[r].text[i])
  PROVE  IInv'
<1> DEFINE s == rep[r]
           c == s.text[i]
           t == Moved(s, c)
<1>1. AllSound(Operations) /\ Replica(Operations, r, s) /\ Doc(Operations, s)
  BY DEF IInv, Replica, Local
<1>2. c # s.cursor /\ EndBatch(r, t, <<>>)
  BY Zenon DEF MoveCursor, Moved
<1>3. Mark(s, c)
  <2>1. /\ Len(s.text) \in Nat /\ Len(s.text) >= 1 /\ DOMAIN s.text = 1..Len(s.text)
        /\ \A j \in 1..Len(s.text) : s.text[j] \in Chars
    BY <1>1, DocText DEF Text
  <2>2. i \in 1..Len(s.text)
    BY <1>1, <2>1, VisibleFacts
  <2> QED
    BY <2>1, <2>2 DEF Mark, Range
<1> HIDE DEF s, c
<1>4. Local(Operations, r, t) /\ Onward(Operations, s, t)
  <2>1. t = Moved(s, c)
    OBVIOUS
  <2> HIDE DEF t
  <2> QED
    BY <1>1, <1>3, <2>1, MovedLocal
<1>5. t.cursor = c
  <2>1. Shape(s)
    BY <1>1 DEF Replica, Local
  <2> QED
    BY <2>1 DEF Moved, Shape, Fields
<1> HIDE DEF t
<1> QED
  BY <1>2, <1>4, <1>5, BatchSent DEF s

LEMMA ApplyStep ==
  ASSUME IInv, NEW r \in Replicas, NEW m \in sent, ApplyOps(r, m)
  PROVE  IInv'
<1> DEFINE O == Operations
           s == rep[r]
           t == AppliedOps(s, m)
<1>1. /\ AllSound(O) /\ Replica(O, r, s) /\ DOMAIN rep = Replicas /\ Messages
      /\ \A q \in Replicas : Replica(O, q, rep[q])
  BY DEF IInv
<1>2. /\ m[1].ts[2] # r /\ rep' = [rep EXCEPT ![r] = t]
      /\ received' = [received EXCEPT ![r] = @ \cup {m}] /\ sent' = sent
  BY DEF ApplyOps
<1>3. Message(m) /\ Len(m) \in Nat /\ DOMAIN m = 1..Len(m)
  BY <1>1 DEF Messages, Message
<1>4. \A j \in 1..Len(m) : m[j] \in O /\ m[j].ts[2] # r
  BY <1>2, <1>3 DEF Operations, Message
<1> HIDE DEF s, O
<1>5. /\ Replica(O, r, t)
      /\ \A j \in 1..Len(m) : m[j] \in t.deferred \/ Done(t, m[j])
      /\ \A x \in O : x \in s.deferred \/ Done(s, x) => x \in t.deferred \/ Done(t, x)
  <2>1. AfterOps(O, r, s, m, t)
    BY <1>1, <1>3, <1>4, AppliedOpsReplica
  <2> HIDE DEF t
  <2> QED
    BY <2>1 DEF AfterOps
<1> HIDE DEF t
<1>6. DOMAIN rep' = Replicas /\ rep'[r] = t /\ \A q \in Replicas : q # r => rep'[q] = rep[q]
  BY <1>1, <1>2
<1>7. Operations' = O
  BY <1>2 DEF Operations, O
<1>8. \A q \in Replicas : Replica(O, q, rep'[q])
  BY <1>1, <1>5, <1>6
<1>9. Messages'
  <2>1. \A k \in sent' : Message(k)
    BY <1>1, <1>2 DEF Messages
  <2>2. received' \in [Replicas -> SUBSET sent']
    BY <1>1, <1>2 DEF Messages
  <2>3. ASSUME NEW q \in Replicas, NEW k \in received'[q]
        PROVE  k[1].ts[2] # q /\ \A i \in DOMAIN k : k[i] \in rep'[q].deferred \/ Done(rep'[q], k[i])
    <3>1. ASSUME NEW p \in Replicas, NEW l \in received[p]
          PROVE  /\ l[1].ts[2] # p /\ \A i \in DOMAIN l : l[i] \in rep[p].deferred \/ Done(rep[p], l[i])
                 /\ \A i \in DOMAIN l : l[i] \in O
      <4>1. l \in sent
        BY <1>1 DEF Messages
      <4> QED
        BY <1>1, <4>1 DEF Messages, Operations, O
    <3>2. CASE q # r
      <4>1. received'[q] = received[q]
        BY <1>1, <1>2, <3>2 DEF Messages
      <4> QED
        BY <1>6, <3>1, <3>2, <4>1
    <3>3. CASE q = r /\ k = m
      BY <1>2, <1>3, <1>5, <1>6, <3>3
    <3>4. CASE q = r /\ k # m
      <4>1. k \in received[r]
        BY <1>1, <1>2, <3>4 DEF Messages
      <4>2. k[1].ts[2] # r /\ \A i \in DOMAIN k : k[i] \in O /\ (k[i] \in s.deferred \/ Done(s, k[i]))
        BY <3>1, <4>1 DEF s
      <4> QED
        BY <1>5, <1>6, <3>4, <4>2
    <3> QED
      BY <3>2, <3>3, <3>4
  <2> QED
    BY <2>1, <2>2, <2>3 DEF Messages
<1>10. (AllSound(Operations))' <=> AllSound(O)
  BY <1>7 DEF AllSound, Sound, Changes, Informed, Real, Place, Known
<1> QED
  BY <1>1, <1>6, <1>7, <1>8, <1>9, <1>10 DEF IInv

-----------------------------------------------------------------------------
(* The beginning. *)

BaseText == <<Root>> \o [k \in 1..BaseLen |-> <<0, 0, k>>]

LEMMA BaseTextFacts ==
  /\ BaseText \in Seq(Chars) /\ Len(BaseText) = BaseLen + 1 /\ BaseLen \in Nat
  /\ \A i \in 1..(BaseLen + 1) : BaseText[i] = <<0, 0, i - 1>>
<1> DEFINE base == [k \in 1..BaseLen |-> <<0, 0, k>>]
<1>1. BaseLen \in Nat
  BY ConstantsAssumption
<1>2. Root \in Chars /\ \A k \in 1..BaseLen : <<0, 0, k>> \in Chars
  BY <1>1, ConstantsAssumption DEF Root, Chars
<1>3. <<Root>> \in Seq(Chars) /\ Len(<<Root>>) = 1 /\ <<Root>>[1] = Root
  BY <1>2
<1>4. base \in Seq(Chars) /\ Len(base) = BaseLen /\ \A k \in 1..BaseLen : base[k] = <<0, 0, k>>
  BY <1>1, <1>2
<1> HIDE DEF base
<1>5. BaseText = <<Root>> \o base
  BY DEF BaseText, base
<1>6. BaseText \in Seq(Chars) /\ Len(BaseText) = BaseLen + 1
  BY <1>1, <1>3, <1>4, <1>5
<1>7. ASSUME NEW i \in 1..(BaseLen + 1) PROVE BaseText[i] = <<0, 0, i - 1>>
  <2>1. CASE i = 1
    BY <1>1, <1>3, <1>4, <1>5, <2>1 DEF Root
  <2>2. CASE i # 1
    <3>1. i - 1 \in 1..BaseLen
      BY <1>1, <2>2
    <3>2. BaseText[i] = base[i - 1]
      BY <1>1, <1>3, <1>4, <1>5, <2>2
    <3> QED
      BY <1>4, <3>1, <3>2
  <2> QED
    BY <2>1, <2>2
<1> QED
  BY <1>1, <1>6, <1>7

\* What every replica starts with.
Fresh(s) ==
  /\ Shape(s) /\ s.text = BaseText /\ s.dels = {} /\ s.undos = {} /\ s.clock = 0
  /\ s.versions = [q \in Replicas |-> 0] /\ s.deferred = {} /\ s.cursor = Root
  /\ s.cursors = [q \in Replicas |-> [value |-> 0, anchor |-> Root]]
  /\ s.stack = <<Entry({}, Root)>> /\ s.index = 1 /\ s.recent = FALSE

LEMMA FreshDoc ==
  ASSUME NEW s, Fresh(s)
  PROVE  Doc({}, s)
<1>1. /\ s.text = BaseText /\ s.dels = {} /\ s.undos = {} /\ s.clock = 0
      /\ s.versions = [q \in Replicas |-> 0]
  BY DEF Fresh
<1>2. /\ s.text \in Seq(Chars) /\ Len(s.text) = BaseLen + 1 /\ BaseLen \in Nat
      /\ DOMAIN s.text = 1..(BaseLen + 1)
      /\ \A i \in 1..(BaseLen + 1) : s.text[i] = <<0, 0, i - 1>>
  BY <1>1, BaseTextFacts
<1>3. Closed({}, s.versions)
  BY <1>1 DEF Closed, Real
<1>4. Complete({}, s.versions, s.text)
  <2>1. s.text # <<>> /\ s.text[1] = Root
    BY <1>2 DEF Root
  <2>2. IsInjective(s.text)
    <3>1. \A i, j \in 1..(BaseLen + 1) : s.text[i] = s.text[j] => i = j
      <4> TAKE i, j \in 1..(BaseLen + 1)
      <4>1. s.text[i] = <<0, 0, i - 1>> /\ s.text[j] = <<0, 0, j - 1>>
        BY <1>2
      <4>2. s.text[i] = s.text[j] => i - 1 = j - 1
        BY <4>1
      <4> QED
        BY <1>2, <4>2
    <3> QED
      BY <1>2, <3>1 DEF IsInjective
  <2>3. ASSUME NEW i \in 1..Len(s.text) PROVE Known({}, s.text[i]) /\ Observed(s.versions, Ts(s.text[i]))
    <3>1. s.text[i] = <<0, 0, i - 1>> /\ i - 1 \in 0..BaseLen
      BY <1>2
    <3> QED
      BY <3>1 DEF Known, Observed, Ts
  <2>4. ASSUME NEW k \in 0..BaseLen PROVE <<0, 0, k>> \in Range(s.text)
    <3>1. k + 1 \in 1..(BaseLen + 1) /\ s.text[k + 1] = <<0, 0, k>>
      BY <1>2
    <3> QED
      BY <1>2, <3>1 DEF Range
  <2> QED
    BY <1>2, <2>1, <2>2, <2>3, <2>4 DEF Complete
<1>5. Tree({}, s.text)
  <2>1. ASSUME NEW i \in 2..Len(s.text)
        PROVE  /\ i - 1 \in 1..(i - 1) /\ Behind({}, s.text[i], s.text[i - 1])
               /\ \A j \in ((i - 1) + 1)..(i - 1) : Older(s.text[i], s.text[j])
    <3>1. s.text[i] = <<0, 0, i - 1>> /\ s.text[i - 1] = <<0, 0, (i - 1) - 1>> /\ i - 1 > 0
      BY <1>2, SMTT(60)
    <3>2. Behind({}, s.text[i], s.text[i - 1])
      BY <3>1 DEF Behind, Ts
    <3> QED
      BY <1>2, <3>2
  <2> QED
    BY <2>1 DEF Tree
<1>6. s.dels = Deletions({}, s.versions, s.text) /\ s.undos = Undoings({}, s.versions)
  BY <1>1 DEF Deletions, Undoings
<1> QED
  BY <1>1, <1>3, <1>4, <1>5, <1>6 DEF Doc

LEMMA FreshReplica ==
  ASSUME NEW r \in Replicas, NEW s, Fresh(s)
  PROVE  Replica({}, r, s)
<1>1. /\ Shape(s) /\ s.text = BaseText /\ s.undos = {} /\ s.clock = 0 /\ s.deferred = {} /\ s.cursor = Root
      /\ s.cursors = [q \in Replicas |-> [value |-> 0, anchor |-> Root]]
      /\ s.stack = <<Entry({}, Root)>> /\ s.index = 1 /\ s.recent = FALSE
  BY DEF Fresh
<1>2. Doc({}, s)
  BY FreshDoc
<1>3. Root \in Chars /\ Mark(s, Root)
  <2>1. Root \in Chars
    BY ConstantsAssumption DEF Root, Chars
  <2>2. 1 \in DOMAIN s.text /\ s.text[1] = Root
    BY <1>2, DocText DEF Text
  <2> QED
    BY <2>1, <2>2 DEF Mark, Range
<1>4. CursorsOK({}, s)
  <2> DEFINE first == [value |-> 0, anchor |-> Root]
  <2>1. first \in [value : Nat, anchor : Chars]
    BY <1>3
  <2> HIDE DEF first
  <2>2. s.cursors \in [Replicas -> [value : Nat, anchor : Chars]] /\ \A q \in Replicas : s.cursors[q] = first
    BY <1>1, <2>1 DEF first
  <2> QED
    BY <2>2 DEF CursorsOK, first
<1>5. UndosOK(s)
  <2>1. \A ts : {u \in s.undos : u[1] = ts} = {}
    BY <1>1
  <2> QED
    BY <2>1, FS_EmptySet DEF UndosOK
<1>6. DeferredOK({}, r, s)
  BY <1>1, FS_EmptySet DEF DeferredOK
<1>7. Own({}, r, s) /\ CursorSent({}, r, s)
  BY <1>1, <1>3 DEF Own, CursorSent
<1>8. StackOK(r, s)
  <2> DEFINE e == Entry({}, Root)
  <2>1. e \in Entries /\ e.edits = {} /\ e.cursor = Root
    BY <1>3 DEF Entry, Entries
  <2> HIDE DEF e
  <2>2. s.stack = <<e>>
    BY <1>1 DEF e
  <2>3. s.stack \in Seq(Entries) /\ Len(s.stack) = 1 /\ s.stack[1] = e
    BY <2>1, <2>2
  <2>4. EntryOK(r, s, 1, e)
    BY <1>3, <2>1, FS_EmptySet DEF EntryOK
  <2>5. s.recent \in BOOLEAN
    BY <1>1, Zenon
  <2>6. Len(s.stack) \in 1..Capacity /\ s.index \in 1..Len(s.stack)
    BY <1>1, <2>3, ConstantsAssumption
  <2>7. \A i \in 1..Len(s.stack) : i = 1
    BY <2>3
  <2>8. \A i \in 1..Len(s.stack) : EntryOK(r, s, i, s.stack[i])
    BY <2>3, <2>4, <2>7
  <2>9. \A i, j \in 1..Len(s.stack) : i # j => s.stack[i].edits \cap s.stack[j].edits = {}
    BY <2>7
  <2> QED
    BY <2>3, <2>5, <2>6, <2>8, <2>9 DEF StackOK
<1> QED
  BY <1>1, <1>2, <1>4, <1>5, <1>6, <1>7, <1>8 DEF Replica, Local

LEMMA InitIInv == Init => IInv
<1> SUFFICES ASSUME Init PROVE IInv
  OBVIOUS
<1>1. sent = {} /\ received = [r \in Replicas |-> {}]
  BY DEF Init
<1>2. Operations = {}
  BY <1>1 DEF Operations
<1>3. DOMAIN rep = Replicas
  BY Zenon DEF Init
<1>4. ASSUME NEW r \in Replicas PROVE Fresh(rep[r])
  <2>1. rep[r] = [text |-> BaseText, dels |-> {}, undos |-> {}, clock |-> 0,
                  versions |-> [q \in Replicas |-> 0], deferred |-> {}, cursor |-> Root,
                  cursors |-> [q \in Replicas |-> [value |-> 0, anchor |-> Root]],
                  stack |-> <<Entry({}, Root)>>, index |-> 1, recent |-> FALSE]
    BY Zenon DEF Init, BaseText
  <2> DEFINE zeros   == [q \in Replicas |-> 0]
             cursors == [q \in Replicas |-> [value |-> 0, anchor |-> Root]]
             stack   == <<Entry({}, Root)>>
             s       == rep[r]
  <2> HIDE DEF zeros, cursors, stack, s
  <2>2. s = [text |-> BaseText, dels |-> {}, undos |-> {}, clock |-> 0, versions |-> zeros,
             deferred |-> {}, cursor |-> Root, cursors |-> cursors, stack |-> stack,
             index |-> 1, recent |-> FALSE]
    BY <2>1, Zenon DEF zeros, cursors, stack, s
  <2>3. Shape(s)
    BY <2>2 DEF Shape, Fields
  <2>4. s.text = BaseText /\ s.dels = {} /\ s.undos = {} /\ s.deferred = {} /\ s.cursor = Root
    BY <2>2
  <2>5. s.clock = 0 /\ s.index = 1
    BY <2>2
  <2>6. s.versions = zeros /\ s.cursors = cursors /\ s.stack = stack
    BY <2>2
  <2>7. s.recent = FALSE
    BY <2>2
  <2> QED
    BY <2>3, <2>4, <2>5, <2>6, <2>7, Zenon DEF Fresh, zeros, cursors, stack, s
<1>5. Messages
  BY <1>1 DEF Messages
<1>6. AllSound(Operations)
  BY <1>2 DEF AllSound
<1> QED
  BY <1>2, <1>3, <1>4, <1>5, <1>6, FreshReplica DEF IInv

LEMMA NextIInv == IInv /\ [Next]_vars => IInv'
<1> SUFFICES ASSUME IInv, [Next]_vars PROVE IInv'
  OBVIOUS
<1>1. CASE UNCHANGED vars
  <2>1. rep' = rep /\ sent' = sent /\ received' = received
    BY <1>1 DEF vars
  <2>2. Operations' = Operations
    BY <2>1 DEF Operations
  <2>3. (AllSound(Operations))' <=> AllSound(Operations)
    BY <2>2 DEF AllSound, Sound, Changes, Informed, Real, Place, Known
  <2> QED
    BY <2>1, <2>2, <2>3 DEF IInv, Messages
<1>2. ASSUME NEW r \in Replicas, NEW b \in 0..Cardinality(Visible(rep[r])), NEW a \in 0..b,
             NEW len \in 0..MaxLen, EditRange(r, a, b, len)
      PROVE  IInv'
  BY <1>2, EditStep
<1>3. ASSUME NEW r \in Replicas, Undo(r) \/ Redo(r) PROVE IInv'
  BY <1>3, UndoStep
<1>4. ASSUME NEW r \in Replicas, NEW i \in Visible(rep[r]) \cup {1}, MoveCursor(r, rep[r].text[i]) PROVE IInv'
  BY <1>4, MoveStep
<1>5. ASSUME NEW r \in Replicas, NEW m \in sent, ApplyOps(r, m) PROVE IInv'
  BY <1>5, ApplyStep
<1> QED
  BY <1>1, <1>2, <1>3, <1>4, <1>5 DEF Next

\* The inductive invariant: every buffer is what its author's and the others' operations
\* make of the text, whatever the order in which apply_ops got them.
THEOREM BufferInvariant == Spec => []IInv
BY InitIInv, NextIInv, PTL DEF Spec

LEMMA IInvReplica ==
  ASSUME IInv, NEW r \in Replicas
  PROVE  /\ AllSound(Operations) /\ Doc(Operations, rep[r]) /\ CursorsOK(Operations, rep[r])
         /\ DeferredOK(Operations, r, rep[r]) /\ Own(Operations, r, rep[r])
         /\ CursorSent(Operations, r, rep[r]) /\ StackOK(r, rep[r])
BY DEF IInv, Replica, Local

-----------------------------------------------------------------------------
(* What follows from it. *)

\* Lamport timestamps are unique, no clock is behind what its buffer holds, and the undo
\* stack stays within DEFAULT_UNDO_STACK_CAPACITY with its index on an entry.
THEOREM TypesOfBuffer == Spec => []TypeOK
<1>1. IInv => TypeOK
  <2> SUFFICES ASSUME IInv PROVE TypeOK
    OBVIOUS
  <2>1. \A x, y \in Operations : x.ts = y.ts => x = y
    BY DEF IInv, AllSound
  <2>2. ASSUME NEW r \in Replicas
        PROVE  LET s == rep[r] IN
                 /\ IsInjective(s.text) /\ s.text[1] = Root
                 /\ \A i \in DOMAIN s.text : Ts(s.text[i])[1] <= s.clock
                 /\ \A q \in Replicas : s.versions[q] <= s.clock
                 /\ s.deferred \subseteq Operations
                 /\ Len(s.stack) \in 1..Capacity /\ s.index \in 1..Len(s.stack)
    <3> DEFINE s == rep[r]
    <3>1. AllSound(Operations) /\ Doc(Operations, s) /\ DeferredOK(Operations, r, s) /\ StackOK(r, s)
      BY IInvReplica
    <3> HIDE DEF s
    <3>2. IsInjective(s.text) /\ s.text[1] = Root /\ \A q \in Replicas : s.versions[q] <= s.clock
      BY <3>1 DEF Doc, Complete
    <3>3. DOMAIN s.text = 1..Len(s.text)
      BY <3>1, DocText DEF Text
    <3>4. \A i \in DOMAIN s.text : Ts(s.text[i])[1] <= s.clock
      BY <3>1, <3>3, TextClock
    <3>5. s.deferred \subseteq Operations /\ Len(s.stack) \in 1..Capacity /\ s.index \in 1..Len(s.stack)
      BY <3>1 DEF DeferredOK, StackOK
    <3> QED
      BY <3>2, <3>4, <3>5 DEF s
  <2> QED
    BY <2>1, <2>2 DEF TypeOK
<1> QED
  BY <1>1, BufferInvariant, PTL

\* Buffers that have applied the same edits and undos show the same text, whatever the
\* order in which apply_edit inserted them.
THEOREM BuffersConverge == Spec => []Convergence
<1>1. IInv => Convergence
  <2> SUFFICES ASSUME IInv, NEW r \in Replicas, NEW q \in Replicas, rep[r].versions = rep[q].versions
               PROVE  rep[r].text = rep[q].text /\ Visible(rep[r]) = Visible(rep[q])
    BY DEF Convergence
  <2>1. AllSound(Operations) /\ Doc(Operations, rep[r]) /\ Doc(Operations, rep[q])
    BY IInvReplica
  <2>2. rep[r].text = rep[q].text /\ rep[r].dels = rep[q].dels /\ rep[r].undos = rep[q].undos
    BY <2>1, SameDoc
  <2>3. \A ts : Undone(rep[r], ts) <=> Undone(rep[q], ts)
    BY <2>2 DEF Undone
  <2>4. \A c : IsVisible(rep[r], c) <=> IsVisible(rep[q], c)
    BY <2>2, <2>3 DEF IsVisible
  <2> QED
    BY <2>2, <2>4 DEF Visible
<1> QED
  BY <1>1, BufferInvariant, PTL

\* One pass of apply_ops in the order of the timestamps leaves nothing deferred that
\* could be applied.
THEOREM NoneStarves == Spec => []DeferredNotStarved
<1>1. IInv => DeferredNotStarved
  BY IInvReplica DEF DeferredNotStarved, DeferredOK
<1> QED
  BY <1>1, BufferInvariant, PTL

\* apply_op discards as a duplicate only what was applied.
THEOREM NoneLost == Spec => []ObservedIsApplied
<1>1. IInv => ObservedIsApplied
  <2> SUFFICES ASSUME IInv, NEW r \in Replicas, NEW op \in Operations, Observed(rep[r].versions, op.ts)
               PROVE  CASE op.kind = "edit" -> \A k \in 1..op.len : <<op.ts[1], op.ts[2], k>> \in Range(rep[r].text)
                        [] op.kind = "undo" -> \A v \in op.edits : <<<<v, op.ts[2]>>, op.ts[1]>> \in rep[r].undos
                        [] OTHER -> TRUE
    BY DEF ObservedIsApplied
  <2>1. Doc(Operations, rep[r])
    BY IInvReplica
  <2>2. CASE op.kind = "edit"
    <3>1. \A k \in 1..op.len : <<op.ts[1], op.ts[2], k>> \in Range(rep[r].text)
      BY <2>1, <2>2 DEF Doc, Complete
    <3> QED
      BY <2>2, <3>1
  <2>3. CASE op.kind = "undo"
    <3>1. \A v \in op.edits : <<<<v, op.ts[2]>>, op.ts[1]>> \in rep[r].undos
      BY <2>1, <2>3 DEF Doc, Undoings
    <3> QED
      BY <2>3, <3>1
  <2>4. CASE op.kind \notin {"edit", "undo"}
    BY <2>4
  <2> QED
    BY <2>2, <2>3, <2>4
<1> QED
  BY <1>1, BufferInvariant, PTL

\* Where all r's operations were observed, r's undo stack tells what is undone.
THEOREM StackTellsUndone == Spec => []UndoMatchesStack
<1>1. IInv => UndoMatchesStack
  <2> SUFFICES ASSUME IInv, NEW r \in Replicas, NEW q \in Replicas, rep[q].versions[r] = rep[r].versions[r],
                      NEW i \in DOMAIN rep[r].stack, NEW v \in rep[r].stack[i].edits
               PROVE  Undone(rep[q], <<v, r>>) <=> i > rep[r].index
    BY DEF UndoMatchesStack
  <2>1. Doc(Operations, rep[r]) /\ Doc(Operations, rep[q]) /\ StackOK(r, rep[r])
    BY IInvReplica
  <2>2. i \in 1..Len(rep[r].stack)
    BY <2>1 DEF StackOK
  <2>3. Undone(rep[r], <<v, r>>) <=> i > rep[r].index
    BY <2>1, <2>2 DEF StackOK, EntryOK
  <2>4. ASSUME NEW a, NEW b, Doc(Operations, a), Doc(Operations, b), a.versions[r] = b.versions[r],
               NEW u \in a.undos, u[1] = <<v, r>>
        PROVE  u \in b.undos
    <3>1. PICK op \in Operations : /\ op.kind = "undo" /\ Observed(a.versions, op.ts)
                                   /\ \E n \in op.edits : u = <<<<n, op.ts[2]>>, op.ts[1]>>
      BY <2>4 DEF Doc, Undoings
    <3>2. op.ts[2] = r
      BY <2>4, <3>1
    <3>3. Observed(b.versions, op.ts)
      BY <2>4, <3>1, <3>2 DEF Observed
    <3> QED
      BY <2>4, <3>1, <3>3 DEF Doc, Undoings
  <2>5. {u \in rep[q].undos : u[1] = <<v, r>>} = {u \in rep[r].undos : u[1] = <<v, r>>}
    BY <2>1, <2>4
  <2> QED
    BY <2>3, <2>5, Zenon DEF Undone
<1> QED
  BY <1>1, BufferInvariant, PTL

\* An operation is ready once all the earlier ones were observed.
LEMMA ReadyWhenAllEarlier ==
  ASSUME NEW O, AllSound(O), NEW x \in O, NEW s, Closed(O, s.versions),
         \A y \in O : Changes(y) /\ y.ts[1] < x.ts[1] => Observed(s.versions, y.ts)
  PROVE  Ready(s, x)
<1>1. Sound(O, x) /\ x.ts[1] \in Nat /\ s.versions \in [Replicas -> Nat]
  BY Timestamps DEF AllSound, Closed
<1>2. ASSUME NEW v \in Nat, NEW q \in Replicas, v < x.ts[1], Real(O, v, q) PROVE v <= s.versions[q]
  <2>1. CASE v = 0
    BY <1>1, <2>1
  <2>2. CASE v # 0
    <3>1. PICK y \in O : Changes(y) /\ y.ts = <<v, q>>
      BY <1>2, <2>2 DEF Real
    <3>2. y.ts[1] = v /\ y.ts[2] = q /\ q # 0
      BY <3>1 DEF Replicas
    <3>3. Observed(s.versions, y.ts)
      BY <1>2, <3>1, <3>2
    <3> QED
      BY <1>1, <3>2, <3>3 DEF Observed
  <2> QED
    BY <2>1, <2>2
<1>3. Changes(x) => Includes(s.versions, x.versions)
  BY <1>1, <1>2 DEF Sound, Informed, Includes
<1>4. ASSUME NEW c \in Chars, Known(O, c), c[1] < x.ts[1] PROVE Observed(s.versions, Ts(c))
  <2>1. c[1] \in Nat /\ c[2] \in 0..N /\ Ts(c)[1] = c[1] /\ Ts(c)[2] = c[2] /\ Ts(c) = <<c[1], c[2]>>
    BY CharFacts DEF Ts
  <2>2. CASE c[2] = 0
    BY <2>1, <2>2 DEF Observed
  <2>3. CASE c[2] # 0
    <3>1. c[2] \in Replicas
      BY <2>1, <2>3, ConstantsAssumption DEF Replicas
    <3>2. Real(O, c[1], c[2])
      BY <1>4, <2>1, <2>3 DEF Known, Real, Changes
    <3>3. c[1] <= s.versions[c[2]]
      BY <1>2, <1>4, <2>1, <3>1, <3>2
    <3> QED
      BY <1>1, <2>1, <3>1, <3>3 DEF Observed
  <2> QED
    BY <2>2, <2>3
<1>5. ASSUME NEW c, x.kind = "edit", Place(O, x, c) PROVE Observed(s.versions, Ts(c))
  <2>1. c \in Chars /\ Known(O, c) /\ Observed(x.versions, Ts(c))
    BY <1>5 DEF Place
  <2>2. Ts(c)[1] \in Nat /\ Ts(c)[2] \in 0..N
    BY <2>1, CharFacts
  <2>3. x.versions \in [Replicas -> Nat] /\ Includes(s.versions, x.versions)
    BY <1>1, <1>3, <1>5 DEF Sound, Informed, Changes
  <2> QED
    BY <1>1, <2>1, <2>2, <2>3, ObservedStays
<1>6. CASE x.kind = "edit"
  BY <1>1, <1>3, <1>5, <1>6 DEF Ready, Sound, Changes
<1>7. CASE x.kind = "undo"
  BY <1>3, <1>7 DEF Ready, Changes
<1>8. CASE x.kind = "selections"
  BY <1>1, <1>4, <1>8 DEF Ready, Sound
<1> QED
  BY <1>1, <1>6, <1>7, <1>8 DEF Sound

\* A buffer that has got every message holds no deferred operation, has observed all edits
\* and undos, and knows where the other cursors are.
THEOREM CompleteAtTheEnd == Spec => []CompleteWhenReceived
<1>1. IInv => CompleteWhenReceived
  <2> SUFFICES ASSUME IInv, NEW r \in Replicas, AllReceived(r)
               PROVE  /\ rep[r].deferred = {}
                      /\ \A op \in Operations : op.kind # "selections" => Observed(rep[r].versions, op.ts)
                      /\ \A q \in Replicas \ {r} : rep[r].cursors[q].anchor = rep[q].cursor
    BY DEF CompleteWhenReceived
  <2> DEFINE O == Operations
             s == rep[r]
  <2>1. /\ AllSound(O) /\ Doc(O, s) /\ CursorsOK(O, s) /\ DeferredOK(O, r, s) /\ Own(O, r, s)
        /\ Closed(O, s.versions) /\ Messages /\ s.versions \in [Replicas -> Nat]
    BY IInvReplica DEF IInv, Doc, Closed
  <2>2. \A q \in Replicas : CursorSent(O, q, rep[q])
    BY IInvReplica
  <2>3. ASSUME NEW x \in O, x.ts[2] # r PROVE x \in s.deferred \/ Done(s, x)
    <3>1. PICK m \in sent : \E i \in DOMAIN m : x = m[i]
      BY DEF Operations
    <3>2. PICK i \in DOMAIN m : x = m[i]
      BY <3>1
    <3>3. m[1].ts[2] # r
      BY <2>1, <2>3, <3>2 DEF Messages, Message
    <3>4. m \in received[r]
      BY <3>3 DEF AllReceived
    <3> QED
      BY <2>1, <3>2, <3>4 DEF Messages
  <2> HIDE DEF O, s
  <2>4. ASSUME NEW x \in O, Changes(x), x \notin s.deferred PROVE Observed(s.versions, x.ts)
    <3>1. x.ts[1] \in Nat /\ x.ts[2] \in Replicas
      BY <2>1, Timestamps
    <3>2. CASE x.ts[2] = r
      BY <2>1, <2>4, <3>1, <3>2 DEF Own, Observed
    <3>3. CASE x.ts[2] # r
      BY <2>3, <2>4, <3>3 DEF Done
    <3> QED
      BY <3>2, <3>3
  <2>5. s.deferred = {}
    <3> SUFFICES ASSUME s.deferred # {} PROVE FALSE
      OBVIOUS
    <3> DEFINE S == {x.ts[1] : x \in s.deferred}
    <3>1. \A x \in s.deferred : x \in O /\ x.ts[1] \in Nat /\ ~Ready(s, x)
      BY <2>1, Timestamps DEF DeferredOK
    <3>2. S \in SUBSET Nat /\ S # {}
      BY <3>1
    <3>3. PICK n \in S : \A m \in S : n <= m
      BY <3>2, Least
    <3>4. PICK x \in s.deferred : x.ts[1] = n
      BY <3>3
    <3>5. \A y \in s.deferred : x.ts[1] <= y.ts[1]
      BY <3>3, <3>4
    <3>6. ASSUME NEW y \in O, Changes(y), y.ts[1] < x.ts[1] PROVE Observed(s.versions, y.ts)
      <4>1. y.ts[1] \in Nat /\ x.ts[1] \in Nat
        BY <2>1, <3>1, Timestamps
      <4>2. y \notin s.deferred
        BY <3>5, <3>6, <4>1
      <4> QED
        BY <2>4, <3>6, <4>2
    <3> HIDE DEF S
    <3>7. Ready(s, x)
      BY <2>1, <3>1, <3>6, ReadyWhenAllEarlier
    <3> QED
      BY <3>1, <3>7
  <2>6. \A op \in O : op.kind # "selections" => Observed(s.versions, op.ts)
    BY <2>1, <2>4, <2>5 DEF AllSound, Sound, Changes
  <2>7. ASSUME NEW q \in Replicas \ {r} PROVE s.cursors[q].anchor = rep[q].cursor
    <3> DEFINE c == s.cursors[q]
    <3>1. \/ c = [value |-> 0, anchor |-> Root]
          \/ \E x \in O : x.kind = "selections" /\ x.ts = <<c.value, q>> /\ x.anchor = c.anchor
      BY <2>1 DEF CursorsOK
    <3>2. c.value \in Nat
      BY <2>1 DEF CursorsOK
    <3> HIDE DEF c
    <3>3. CASE rep[q].cursor = Root /\ \A x \in O : x.kind = "selections" => x.ts[2] # q
      <4>1. c = [value |-> 0, anchor |-> Root]
        BY <3>1, <3>3
      <4> QED
        BY <3>3, <4>1 DEF c
    <3>4. ASSUME NEW x \in O, x.kind = "selections", x.ts[2] = q, x.anchor = rep[q].cursor,
                 \A y \in O : y.kind = "selections" /\ y.ts[2] = q => y.ts[1] <= x.ts[1]
          PROVE  c.anchor = rep[q].cursor
      <4>1. x.ts[1] \in Nat \ {0} /\ x.ts = <<x.ts[1], x.ts[2]>>
        BY <2>1, Timestamps
      <4>2. x.ts[1] <= c.value
        BY <2>3, <2>5, <3>4 DEF Done, c
      <4>3. c # [value |-> 0, anchor |-> Root]
        BY <4>1, <4>2
      <4>4. PICK y \in O : y.kind = "selections" /\ y.ts = <<c.value, q>> /\ y.anchor = c.anchor
        BY <3>1, <4>3
      <4>5. y.ts[1] = c.value /\ y.ts[2] = q
        BY <4>4
      <4>6. c.value <= x.ts[1]
        BY <3>4, <4>4, <4>5
      <4>7. c.value = x.ts[1]
        BY <3>2, <4>1, <4>2, <4>6
      <4>8. y.ts = x.ts
        BY <3>4, <4>1, <4>4, <4>7
      <4>9. y = x
        BY <2>1, <4>8 DEF AllSound
      <4> QED
        BY <3>4, <4>4, <4>9
    <3>5. CursorSent(O, q, rep[q])
      BY <2>2 DEF O
    <3> QED
      BY <3>3, <3>4, <3>5 DEF CursorSent, c
  <2> QED
    BY <2>5, <2>6, <2>7 DEF O, s
<1> QED
  BY <1>1, BufferInvariant, PTL
=============================================================================
