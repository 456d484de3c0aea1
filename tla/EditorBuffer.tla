---------------------------- MODULE EditorBuffer ----------------------------
(***************************************************************************)
(* Buffer (app/src/editor/view/model/buffer): the input text that several  *)
(* people edit at once.  Every replica edits its own copy and sends what   *)
(* it did; the messages come in any order, late, more than once.           *)
(*                                                                         *)
(* A character is <<value, replica, offset>>: the Lamport timestamp of the *)
(* edit that inserted it and its place in that edit.  A fragment of the    *)
(* code is a run of characters that one edit inserted, so the fragments'   *)
(* ids, splits and trees are the order of the characters in `text'.        *)
(***************************************************************************)
EXTENDS Naturals, FiniteSets, Sequences, SequencesExt

CONSTANTS
  N,         \* replicas, with ids 1..N; 0 is the base replica
  BaseLen,   \* characters that every replica starts with
  Capacity,  \* DEFAULT_UNDO_STACK_CAPACITY
  Joins,     \* whether an edit can come within UNDO_REDO_BATCH_TIMER of another
  MaxLen,    \* bound: characters that an edit inserts
  MaxMsgs,   \* bound: messages sent in a run
  MaxMoves   \* bound: those with selections, before the last

ASSUME ConstantsAssumption ==
  /\ N \in Nat \ {0} /\ {BaseLen, MaxLen, MaxMsgs, MaxMoves} \subseteq Nat
  /\ Capacity \in Nat \ {0, 1} /\ Joins \in BOOLEAN

Replicas == 1..N

VARIABLES
  rep,      \* each replica's Buffer
  sent,     \* the messages of UpdatePeers, each with the operations of one batch
  received  \* history: the messages each replica has got

vars == <<rep, sent, received>>

-----------------------------------------------------------------------------
(* Lamport timestamps <<value, replica>> and version vectors. *)

Before(a, b) == a[1] < b[1] \/ (a[1] = b[1] /\ a[2] < b[2])
Larger(a, b) == IF a < b THEN b ELSE a

\* Mutant: a larger timestamp is not taken over.
ClockAfterOwn(clock, ts) == clock + 1
\* Lamport::observe.
ClockAfter(clock, ts) == Larger(clock, ts[1]) + 1

Observed(versions, ts) == ts[2] = 0 \/ versions[ts[2]] >= ts[1]
Observe(versions, ts) == [versions EXCEPT ![ts[2]] = Larger(@, ts[1])]
Includes(versions, older) == \A r \in Replicas : older[r] <= versions[r]

-----------------------------------------------------------------------------
(* The text. *)

Root == <<0, 0, 0>>  \* the sentinel before the first character
Ts(c) == <<c[1], c[2]>>

Position(s, c) == CHOOSE i \in DOMAIN s.text : s.text[i] = c

\* UndoHistory: an edit is undone when it was undone an odd number of times.
Undone(s, ts) == Cardinality({u \in s.undos : u[1] = ts}) % 2 = 1

IsVisible(s, c) ==
  c # Root /\ ~Undone(s, Ts(c)) /\ \A d \in s.dels : d[1] = c => Undone(s, d[2])
Visible(s) == {i \in DOMAIN s.text : IsVisible(s, s.text[i])}
\* The position of the k-th visible character.
Nth(V, k) == CHOOSE i \in V : Cardinality({j \in V : j <= i}) = k

\* The characters that an edit inserts go before position p; those in removed
\* are marked as deleted by it, and stay.
Spliced(s, p, removed, op) ==
  [s EXCEPT
     !.text = SubSeq(@, 1, p - 1) \o [k \in 1..op.len |-> <<op.ts[1], op.ts[2], k>>]
                \o SubSeq(@, p, Len(@)),
     !.dels = @ \cup {<<c, op.ts>> : c \in removed}]

-----------------------------------------------------------------------------
(* Local changes. *)

\* The version vector before the tick goes into the operation.
Tick(s, r) == [s EXCEPT !.clock = @ + 1, !.versions = Observe(@, <<s.clock + 1, r>>)]

\* update_fragments_for_edit, for one range of visible offsets a to b.  The text
\* goes before the first visible character after a, behind what was deleted
\* there; everything up to the last visible character of the range is deleted.
EditOperation(s, r, a, b, len) ==
  LET V == Visible(s)
      p == IF a = Cardinality(V) THEN Len(s.text) + 1 ELSE Nth(V, a + 1)
  IN [kind |-> "edit", ts |-> <<s.clock + 1, r>>, versions |-> s.versions, len |-> len,
      start |-> s.text[p - 1], end |-> IF a = b THEN s.text[p - 1] ELSE s.text[Nth(V, b)]]

Edited(s, r, op) ==
  LET p == Position(s, op.start) + 1
  IN Spliced(Tick(s, r), p, {s.text[j] : j \in p..Position(s, op.end)}, op)

\* record_selections_update: the clock ticks, the version vector does not.
SelectionsOperation(s, r) == [kind |-> "selections", ts |-> <<s.clock, r>>, anchor |-> s.cursor]

(***************************************************************************)
(* LocalUndoStack: the first entry stands for the text before all others.  *)
(* An edit may join the last entry if that was recorded a short while ago  *)
(* and nothing was undone, redone or selected since (`recent'); otherwise  *)
(* what is above the index goes, and so does the oldest entry at capacity. *)
(***************************************************************************)
Entry(edits, c) == [edits |-> edits, cursor |-> c]

\* Mutant: what was undone stays on the stack.
RecordEditKeepsUndone(s, value, joins) ==
  LET entries == Append(s.stack, Entry({value}, s.cursor))
      kept    == IF Len(entries) > Capacity THEN Tail(entries) ELSE entries
  IN [s EXCEPT !.stack = kept, !.index = Len(kept), !.recent = Joins]

RecordEdit(s, value, joins) ==
  LET entries == Append(SubSeq(s.stack, 1, s.index), Entry({value}, s.cursor))
      kept    == IF Len(entries) > Capacity THEN Tail(entries) ELSE entries
  IN IF joins
     THEN [s EXCEPT !.stack[s.index] = Entry(@.edits \cup {value}, s.cursor)]
     ELSE [s EXCEPT !.stack = kept, !.index = Len(kept), !.recent = Joins]

MayJoin(s) == Joins /\ s.index > 1 /\ s.index = Len(s.stack) /\ s.recent

\* undo_or_redo.
UndoneOrRedone(s, op) ==
  [s EXCEPT !.undos = @ \cup {<<<<value, op.ts[2]>>, op.ts[1]>> : value \in op.edits}]

-----------------------------------------------------------------------------
(* Operations of other replicas. *)

(***************************************************************************)
(* apply_edit.  Of the texts that were inserted at the same place the one  *)
(* with the larger timestamp comes first: the new text goes before the     *)
(* first later character with a smaller timestamp.  What the author had    *)
(* not seen within the range stays.                                        *)
(***************************************************************************)
\* Mutant: right after the start.
AppliedEditAtStart(s, op) ==
  LET a == Position(s, op.start)
  IN Spliced(s, a + 1, {s.text[j] : j \in {k \in a + 1..Position(s, op.end) :
                                             Observed(op.versions, Ts(s.text[k]))}}, op)

AppliedEdit(s, op) ==
  LET a     == Position(s, op.start)
      later == {j \in a + 1..Len(s.text) : Before(Ts(s.text[j]), op.ts)}
      p     == IF later = {} THEN Len(s.text) + 1 ELSE CHOOSE j \in later : \A k \in later : j <= k
  IN Spliced(s, p, {s.text[j] : j \in {k \in a + 1..Position(s, op.end) :
                                         Observed(op.versions, Ts(s.text[k]))}}, op)

Acknowledged(s, ts) ==
  [s EXCEPT !.clock = ClockAfter(@, ts), !.versions = Observe(@, ts)]

\* Mutant: the version vector takes in the selections' timestamps.
AcknowledgedSelectionsAsEdits(s, ts) == Acknowledged(s, ts)

\* "We intentionally do not observe the operation's lamport timestamp in the
\* version vector".
AcknowledgedSelections(s, ts) == [s EXCEPT !.clock = ClockAfter(@, ts)]

\* apply_op.
Applied(s, op) ==
  CASE op.kind = "edit" /\ ~Observed(s.versions, op.ts) ->
         Acknowledged(AppliedEdit(s, op), op.ts)
    [] op.kind = "undo" /\ ~Observed(s.versions, op.ts) ->
         Acknowledged(UndoneOrRedone(s, op), op.ts)
    [] op.kind = "selections" /\ s.cursors[op.ts[2]].value < op.ts[1] ->
         AcknowledgedSelections(
           [s EXCEPT !.cursors[op.ts[2]] = [value |-> op.ts[1], anchor |-> op.anchor]], op.ts)
    [] OTHER -> s

\* Mutant: only the places of an edit count.
ReadyByPlace(s, op) ==
  CASE op.kind = "edit" -> Observed(s.versions, Ts(op.start)) /\ Observed(s.versions, Ts(op.end))
    [] op.kind = "undo" -> Includes(s.versions, op.versions)
    [] op.kind = "selections" -> Observed(s.versions, Ts(op.anchor))

\* can_apply_op, without the test of replica_deferred.
Ready(s, op) ==
  CASE op.kind = "edit" -> /\ Observed(s.versions, Ts(op.start)) /\ Observed(s.versions, Ts(op.end))
                           /\ Includes(s.versions, op.versions)
    [] op.kind = "undo" -> Includes(s.versions, op.versions)
    [] op.kind = "selections" -> Observed(s.versions, Ts(op.anchor))

ReplicaDeferred(deferred, op) == \E d \in deferred : d.ts[2] = op.ts[2]

\* One turn of the loop: acc has the buffer and what is to be deferred.
Turn(acc, op) ==
  IF Ready(acc.s, op) /\ ~ReplicaDeferred(acc.s.deferred, op)
  THEN [s |-> Applied(acc.s, op), later |-> acc.later]
  ELSE [s |-> acc.s, later |-> acc.later \cup {op}]

Turns(s, ops) ==
  LET turn[i \in 0..Len(ops)] ==
        IF i = 0 THEN [s |-> s, later |-> {}] ELSE Turn(turn[i - 1], ops[i])
  IN turn

\* Applies the operations that can be, in turn, and defers the others.
AppliedInTurn(s, ops) ==
  LET done == Turns(s, ops)[Len(ops)]
  IN [done.s EXCEPT !.deferred = @ \cup done.later]

Listings(ops) == {q \in [1..Cardinality(ops) -> ops] : IsInjective(q)}

\* DeferredOperations::extend.  Mutant: not sorted, the latest first.
LatestFirst(ops) ==
  CHOOSE q \in Listings(ops) : \A i, j \in DOMAIN q : i < j => ~Before(q[i].ts, q[j].ts)

Sorted(ops) ==
  CHOOSE q \in Listings(ops) : \A i, j \in DOMAIN q : i < j => ~Before(q[j].ts, q[i].ts)

\* apply_ops: what is deferred is then drained and tried once, in order.
AppliedOps(s, ops) ==
  LET t == AppliedInTurn(s, ops)
  IN AppliedInTurn([t EXCEPT !.deferred = {}], Sorted(t.deferred))

-----------------------------------------------------------------------------
Init ==
  /\ rep = [r \in Replicas |->
       [text |-> <<Root>> \o [k \in 1..BaseLen |-> <<0, 0, k>>],
        dels |-> {}, undos |-> {}, clock |-> 0, versions |-> [q \in Replicas |-> 0],
        deferred |-> {}, cursor |-> Root,
        cursors |-> [q \in Replicas |-> [value |-> 0, anchor |-> Root]],
        stack |-> <<Entry({}, Root)>>, index |-> 1, recent |-> FALSE]]
  /\ sent = {} /\ received = [r \in Replicas |-> {}]

\* end_batch: the batch's operation goes out, with the selections if they changed.
EndBatch(r, s, ops) ==
  LET moved == s.cursor # rep[r].cursor
      t     == IF moved THEN [s EXCEPT !.clock = @ + 1] ELSE s
  IN /\ Cardinality(sent) < MaxMsgs
     /\ rep' = [rep EXCEPT ![r] = t]
     /\ sent' = sent \cup {ops \o IF moved THEN <<SelectionsOperation(t, r)>> ELSE <<>>}
     /\ UNCHANGED received

Operations == UNION {{m[i] : i \in DOMAIN m} : m \in sent}
MayMove == Cardinality({op \in Operations : op.kind = "selections"}) < MaxMoves

\* An edit of one range; the cursor stays or follows it.
EditRange(r, a, b, len) ==
  LET s  == rep[r]
      op == EditOperation(s, r, a, b, len)
      t  == Edited(s, r, op)
      follows == IF len > 0 THEN <<op.ts[1], r, len>> ELSE op.start
  IN /\ len > 0 \/ a < b
     /\ \E c \in {s.cursor} \cup (IF MayMove THEN {follows} ELSE {}), joins \in {FALSE, MayJoin(s)} :
          EndBatch(r, RecordEdit([t EXCEPT !.cursor = c], op.ts[1], joins), <<op>>)

\* local_undo_or_redo of the edits of one entry, back to the cursor of another.
UndoOrRedo(r, index, edits, c) ==
  LET s  == rep[r]
      op == [kind |-> "undo", ts |-> <<s.clock + 1, r>>, versions |-> s.versions, edits |-> edits]
      t  == UndoneOrRedone(Tick(s, r), op)
  IN EndBatch(r, [t EXCEPT !.cursor = c, !.index = index, !.recent = FALSE], <<op>>)

Undo(r) ==
  LET s == rep[r]
  IN s.index > 1 /\ UndoOrRedo(r, s.index - 1, s.stack[s.index].edits, s.stack[s.index - 1].cursor)

Redo(r) ==
  LET s == rep[r]
  IN /\ s.index < Len(s.stack)
     /\ UndoOrRedo(r, s.index + 1, s.stack[s.index + 1].edits, s.stack[s.index + 1].cursor)

\* A batch of selection changes only.
MoveCursor(r, c) ==
  LET s == rep[r]
  IN /\ c # s.cursor /\ MayMove
     /\ EndBatch(r, [s EXCEPT !.cursor = c, !.stack[s.index].cursor = c, !.recent = FALSE], <<>>)

ApplyOps(r, m) ==
  /\ m[1].ts[2] # r
  /\ rep' = [rep EXCEPT ![r] = AppliedOps(@, m)]
  /\ received' = [received EXCEPT ![r] = @ \cup {m}]
  /\ UNCHANGED sent

Next ==
  \E r \in Replicas :
    \/ \E b \in 0..Cardinality(Visible(rep[r])) : \E a \in 0..b, len \in 0..MaxLen :
         EditRange(r, a, b, len)
    \/ Undo(r) \/ Redo(r)
    \/ \E i \in Visible(rep[r]) \cup {1} : MoveCursor(r, rep[r].text[i])
    \/ \E m \in sent : ApplyOps(r, m)

Spec == Init /\ [][Next]_vars

-----------------------------------------------------------------------------
AllReceived(r) == \A m \in sent : m[1].ts[2] = r \/ m \in received[r]

\* Timestamps are unique, nothing is ahead of the clock, and the undo stack is a
\* non-empty one within its capacity.
TypeOK ==
  /\ \A x, y \in Operations : x.ts = y.ts => x = y
  /\ \A r \in Replicas : LET s == rep[r] IN
       /\ IsInjective(s.text) /\ s.text[1] = Root
       /\ \A i \in DOMAIN s.text : Ts(s.text[i])[1] <= s.clock
       /\ \A q \in Replicas : s.versions[q] <= s.clock
       /\ s.deferred \subseteq Operations
       /\ Len(s.stack) \in 1..Capacity /\ s.index \in 1..Len(s.stack)

\* Replicas that have observed the same edits and undos have the same text, down
\* to what is deleted and where it stands, whatever the order they came in.
Convergence ==
  \A r, q \in Replicas : rep[r].versions = rep[q].versions =>
    rep[r].text = rep[q].text /\ Visible(rep[r]) = Visible(rep[q])

\* "causally dependent, deferred ops will not be starved": one pass in the order of
\* the timestamps leaves no operation behind that could be applied.
DeferredNotStarved == \A r \in Replicas : \A op \in rep[r].deferred : ~Ready(rep[r], op)

\* The version vector tells the truth: an edit or undo that it says was observed
\* has been applied, so none is taken for a duplicate that never was.
ObservedIsApplied ==
  \A r \in Replicas : \A op \in Operations : Observed(rep[r].versions, op.ts) =>
    CASE op.kind = "edit" -> \A k \in 1..op.len : <<op.ts[1], op.ts[2], k>> \in Range(rep[r].text)
      [] op.kind = "undo" -> \A v \in op.edits : <<<<v, op.ts[2]>>, op.ts[1]>> \in rep[r].undos
      [] OTHER -> TRUE

\* Whoever has got every message has deferred nothing and observed everything, and
\* sees every other replica's cursor where it is.
CompleteWhenReceived ==
  \A r \in Replicas : AllReceived(r) =>
    /\ rep[r].deferred = {}
    /\ \A op \in Operations : op.kind # "selections" => Observed(rep[r].versions, op.ts)
    /\ \A q \in Replicas \ {r} : rep[r].cursors[q].anchor = rep[q].cursor

\* At every replica that has seen all of r's operations, those edits of r that stand above the
\* index of r's undo stack are undone, and those below are not.
UndoMatchesStack ==
  \A r, q \in Replicas : rep[q].versions[r] = rep[r].versions[r] =>
    \A i \in DOMAIN rep[r].stack : \A v \in rep[r].stack[i].edits :
      Undone(rep[q], <<v, r>>) <=> i > rep[r].index
=============================================================================
