-------------------------- MODULE EditorTextProofs --------------------------
(***************************************************************************)
(* Proofs about EditorBuffer, for any number of replicas, of edits of any  *)
(* length and of messages.  This part is about one text: two replicas that *)
(* have observed the same edits have the same one, and the operations of   *)
(* the buffer keep it so.                                                  *)
(*                                                                         *)
(* O is the set of all operations that were ever sent, s a buffer.         *)
(***************************************************************************)
EXTENDS EditorBuffer, FiniteSetTheorems, SequenceTheorems, WellFoundedInduction, TLAPS

-----------------------------------------------------------------------------
(* Operations. *)

Changes(op) == op.kind \in {"edit", "undo"}

\* <<v, q>> is the timestamp of an edit or undo, or no edit or undo of q is meant.
Real(O, v, q) == v = 0 \/ \E y \in O : Changes(y) /\ y.ts = <<v, q>>

\* Characters that are there from the start or that an edit inserts.
Known(O, c) ==
  \/ c[1] = 0 /\ c[2] = 0 /\ c[3] \in 0..BaseLen
  \/ \E e \in O : e.kind = "edit" /\ Ts(c) = e.ts /\ c[3] \in 1..e.len
Chars == Nat \X (0..N) \X Nat

\* What an edit or undo had observed is real, and has all that its author did before.
Informed(O, x) ==
  /\ x.versions \in [Replicas -> Nat]
  /\ \A q \in Replicas : x.versions[q] < x.ts[1] /\ Real(O, x.versions[q], q)
  /\ \A y \in O : Changes(y) /\ y.ts[2] = x.ts[2] /\ y.ts[1] < x.ts[1]
       => y.ts[1] <= x.versions[x.ts[2]]

Place(O, x, c) == c \in Chars /\ Known(O, c) /\ Observed(x.versions, Ts(c))

Sound(O, x) ==
  /\ x.ts \in (Nat \ {0}) \X Replicas
  /\ x.kind \in {"edit", "undo", "selections"}
  /\ Changes(x) => Informed(O, x)
  /\ x.kind = "edit" => x.len \in Nat /\ Place(O, x, x.start) /\ Place(O, x, x.end)
  /\ x.kind = "undo" => IsFiniteSet(x.edits) /\ \A v \in x.edits : v \in Nat /\ v < x.ts[1]
  /\ x.kind = "selections" => x.anchor \in Chars /\ Known(O, x.anchor) /\ x.anchor[1] < x.ts[1]

AllSound(O) ==
  /\ \A x, y \in O : x.ts = y.ts => x = y
  /\ \A x \in O : Sound(O, x)

-----------------------------------------------------------------------------
(* A buffer. *)

\* What has been observed was applied together with all that it depends on.
Closed(O, versions) ==
  /\ versions \in [Replicas -> Nat]
  /\ \A q \in Replicas : Real(O, versions[q], q)
  /\ \A e \in O : Changes(e) /\ Observed(versions, e.ts) => Includes(versions, e.versions)

\* The text holds the characters that are known, of the edits that were observed.
Complete(O, versions, text) ==
  /\ text \in Seq(Chars) /\ text # <<>> /\ IsInjective(text) /\ text[1] = Root
  /\ \A i \in 1..Len(text) : Known(O, text[i]) /\ Observed(versions, Ts(text[i]))
  /\ \A k \in 0..BaseLen : <<0, 0, k>> \in Range(text)
  /\ \A e \in O : e.kind = "edit" /\ Observed(versions, e.ts) =>
       \A k \in 1..e.len : <<e.ts[1], e.ts[2], k>> \in Range(text)

\* d is what c was put behind: the character before it in an edit, or the start.
Behind(O, c, d) ==
  \/ d = <<c[1], c[2], c[3] - 1>> /\ (c[3] > 1 \/ Ts(c) = <<0, 0>>) /\ c[3] > 0
  \/ c[3] = 1 /\ \E e \in O : e.kind = "edit" /\ e.ts = Ts(c) /\ e.start = d

Older(c, d) == Before(Ts(c), Ts(d)) \/ (Ts(c) = Ts(d) /\ c[3] < d[3])

\* Between a character and what it was put behind there are only newer ones.
Tree(O, text) ==
  \A i \in 2..Len(text) : \E a \in 1..(i - 1) :
    /\ Behind(O, text[i], text[a])
    /\ \A j \in (a + 1)..(i - 1) : Older(text[i], text[j])

\* The characters that an edit deletes in a text: those of its range that it had observed.
DeletedBy(text, e) ==
  {text[k] : k \in {k \in 1..Len(text) : Observed(e.versions, Ts(text[k]))
       /\ \E i, j \in 1..Len(text) : text[i] = e.start /\ text[j] = e.end /\ i < k /\ k <= j}}

Struck(text, e) == {<<c, e.ts>> : c \in DeletedBy(text, e)}
Deletions(O, versions, text) ==
  UNION {Struck(text, e) : e \in {e \in O : e.kind = "edit" /\ Observed(versions, e.ts)}}

Undoings(O, versions) ==
  UNION {{<<<<v, u.ts[2]>>, u.ts[1]>> : v \in u.edits} :
            u \in {u \in O : u.kind = "undo" /\ Observed(versions, u.ts)}}

Doc(O, s) ==
  /\ Closed(O, s.versions)
  /\ Complete(O, s.versions, s.text)
  /\ Tree(O, s.text)
  /\ s.dels = Deletions(O, s.versions, s.text)
  /\ s.undos = Undoings(O, s.versions)
  /\ s.clock \in Nat /\ \A q \in Replicas : s.versions[q] <= s.clock

-----------------------------------------------------------------------------
(* Induction, and counting in an order. *)

LEMMA Least ==
  ASSUME NEW S \in SUBSET Nat, S # {}
  PROVE  \E n \in S : \A m \in S : n <= m
<1>1. PICK n \in S : \A m \in S : ~(<<m, n>> \in OpToRel(<, Nat))
  BY NatLessThanWellFounded, WFMin
<1>2. \A m \in S : n <= m
  <2> SUFFICES ASSUME NEW m \in S, m < n PROVE FALSE
    OBVIOUS
  <2>1. <<m, n>> \in Nat \X Nat /\ <<m, n>>[1] < <<m, n>>[2]
    OBVIOUS
  <2>2. <<m, n>> \in OpToRel(<, Nat)
    BY <2>1, Zenon DEF OpToRel
  <2> QED
    BY <1>1, <2>2
<1> QED
  BY <1>2

LEMMA Induction ==
  ASSUME NEW S, 0 \in S, \A n \in Nat : n \in S => n + 1 \in S
  PROVE  Nat \subseteq S
<1> SUFFICES ASSUME Nat \ S # {} PROVE FALSE
  OBVIOUS
<1>1. PICK n \in Nat \ S : \A m \in Nat \ S : n <= m
  BY Least
<1>2. n # 0 /\ n - 1 \in Nat /\ n - 1 \notin Nat \ S
  BY <1>1
<1> QED
  BY <1>1, <1>2

\* In a finite set with a total order R every element has its rank.
Total(T, R) ==
  /\ \A x, y \in T : <<x, y>> \in R \/ <<y, x>> \in R
  /\ \A x, y \in T : <<x, y>> \in R /\ <<y, x>> \in R => x = y
  /\ \A x, y, z \in T : <<x, y>> \in R /\ <<y, z>> \in R => <<x, z>> \in R
UpTo(T, R, x) == {y \in T : <<y, x>> \in R}

LEMMA Ranking ==
  ASSUME NEW T, IsFiniteSet(T), NEW R, Total(T, R)
  PROVE  /\ \A k \in 1..Cardinality(T) : \E x \in T : Cardinality(UpTo(T, R, x)) = k
         /\ \A x, y \in T : <<x, y>> \in R => Cardinality(UpTo(T, R, x)) <= Cardinality(UpTo(T, R, y))
<1> DEFINE n == Cardinality(T)
           rank == [x \in T |-> Cardinality(UpTo(T, R, x))]
<1>1. n \in Nat
  BY FS_CardinalityType
<1>2. ASSUME NEW x \in T
      PROVE  /\ IsFiniteSet(UpTo(T, R, x)) /\ Cardinality(UpTo(T, R, x)) \in 1..n
  <2>1. UpTo(T, R, x) \in SUBSET T /\ x \in UpTo(T, R, x)
    BY DEF UpTo, Total
  <2>2. IsFiniteSet(UpTo(T, R, x)) /\ Cardinality(UpTo(T, R, x)) <= n
    BY <2>1, FS_Subset
  <2>3. Cardinality(UpTo(T, R, x)) \in Nat /\ Cardinality(UpTo(T, R, x)) # 0
    BY <2>1, <2>2, FS_CardinalityType, FS_EmptySet
  <2> QED
    BY <1>1, <2>2, <2>3
<1>3. ASSUME NEW x \in T, NEW y \in T, x # y, <<x, y>> \in R
      PROVE  Cardinality(UpTo(T, R, x)) # Cardinality(UpTo(T, R, y))
  <2>1. UpTo(T, R, x) \in SUBSET UpTo(T, R, y) /\ y \in UpTo(T, R, y) /\ y \notin UpTo(T, R, x)
    BY <1>3 DEF UpTo, Total
  <2> QED
    BY <1>2, <2>1, FS_Subset
<1>4. rank \in [T -> 1..n]
  BY <1>2
<1>5. \A x, y \in T : rank[x] = rank[y] => x = y
  BY <1>3 DEF Total
<1>6. rank \in Injection(T, 1..n)
  BY <1>4, <1>5 DEF Injection, IsInjective
<1>7. IsFiniteSet(1..n) /\ Cardinality(1..n) = n
  BY <1>1, FS_Interval
<1>8. rank \in Surjection(T, 1..n)
  BY <1>6, <1>7, FS_Injection
<1>9. \A k \in 1..n : \E x \in T : rank[x] = k
  BY <1>8 DEF Surjection
<1>10. ASSUME NEW x \in T, NEW y \in T, <<x, y>> \in R
       PROVE  Cardinality(UpTo(T, R, x)) <= Cardinality(UpTo(T, R, y))
  <2>1. UpTo(T, R, x) \in SUBSET UpTo(T, R, y)
    BY <1>10 DEF UpTo, Total
  <2> QED
    BY <1>2, <2>1, FS_Subset
<1> QED
  BY <1>9, <1>10

\* The k-th of a set of positions.
LEMMA NthFacts ==
  ASSUME NEW V \in SUBSET Nat, IsFiniteSet(V), NEW k \in 1..Cardinality(V)
  PROVE  Nth(V, k) \in V
<1> DEFINE R == {x \in V \X V : x[1] <= x[2]}
<1>1. \A x, y \in V : <<x, y>> \in R <=> x <= y
  OBVIOUS
<1> HIDE DEF R
<1>2. Total(V, R)
  BY <1>1 DEF Total
<1>3. PICK i \in V : Cardinality(UpTo(V, R, i)) = k
  BY <1>2, Ranking
<1>4. UpTo(V, R, i) = {j \in V : j <= i}
  BY <1>1 DEF UpTo
<1>5. Cardinality({j \in V : j <= i}) = k
  BY <1>3, <1>4
<1> QED
  BY <1>5, Zenon DEF Nth

\* A timestamp has a value and a replica.
TsOK(x) == x.ts \in Nat \X Nat

\* Operations sorted by their timestamps: all of them, none before an earlier one.
LEMMA SortedFacts ==
  ASSUME NEW T, IsFiniteSet(T), \A x \in T : TsOK(x), \A x, y \in T : x.ts = y.ts => x = y
  PROVE  /\ Cardinality(T) \in Nat /\ Sorted(T) \in [1..Cardinality(T) -> T]
         /\ \A x \in T : \E i \in 1..Cardinality(T) : Sorted(T)[i] = x
         /\ \A i, j \in 1..Cardinality(T) : i < j => ~Before(Sorted(T)[j].ts, Sorted(T)[i].ts)
<1> DEFINE n == Cardinality(T)
           R == {x \in T \X T : ~Before(x[2].ts, x[1].ts)}
           q == [k \in 1..n |-> CHOOSE x \in T : Cardinality(UpTo(T, R, x)) = k]
<1>1. n \in Nat
  BY FS_CardinalityType
<1>2. \A x, y \in T : <<x, y>> \in R <=> ~Before(y.ts, x.ts)
  OBVIOUS
<1> HIDE DEF R
<1>3. Total(T, R)
  <2>1. \A x, y \in T : <<x, y>> \in R /\ <<y, x>> \in R => x = y
    <3> SUFFICES ASSUME NEW x \in T, NEW y \in T, ~Before(y.ts, x.ts), ~Before(x.ts, y.ts)
                 PROVE  x.ts = y.ts
      BY <1>2
    <3>1. x.ts \in Nat \X Nat /\ y.ts \in Nat \X Nat
      BY DEF TsOK
    <3>2. x.ts[1] = y.ts[1] /\ x.ts[2] = y.ts[2]
      BY <3>1 DEF Before
    <3> QED
      BY <3>1, <3>2
  <2>2. \A x, y \in T : <<x, y>> \in R \/ <<y, x>> \in R
    <3>1. \A x, y \in T : ~Before(x.ts, y.ts) \/ ~Before(y.ts, x.ts)
      BY DEF TsOK, Before
    <3> QED
      BY <1>2, <3>1
  <2>3. \A x, y, z \in T : <<x, y>> \in R /\ <<y, z>> \in R => <<x, z>> \in R
    <3>1. \A x, y, z \in T : ~Before(y.ts, x.ts) /\ ~Before(z.ts, y.ts) => ~Before(z.ts, x.ts)
      BY DEF TsOK, Before
    <3> QED
      BY <1>2, <3>1
  <2> QED
    BY <2>1, <2>2, <2>3 DEF Total
<1>4. \A k \in 1..n : q[k] \in T /\ Cardinality(UpTo(T, R, q[k])) = k
  BY <1>3, Ranking
<1>5. q \in [1..n -> T]
  BY <1>4
<1> HIDE DEF q
<1>6. q \in Listings(T)
  BY <1>4, <1>5 DEF Listings, IsInjective
<1>7. \A i, j \in 1..n : i < j => ~Before(q[j].ts, q[i].ts)
  <2> SUFFICES ASSUME NEW i \in 1..n, NEW j \in 1..n, i < j, Before(q[j].ts, q[i].ts)
               PROVE  FALSE
    OBVIOUS
  <2>1. <<q[j], q[i]>> \in R
    BY <1>2, <1>3, <1>4 DEF Total
  <2>2. j <= i
    BY <1>3, <1>4, <2>1, Ranking
  <2> QED
    BY <2>2
<1>8. DOMAIN q = 1..n
  BY <1>5
<1>9. /\ Sorted(T) \in Listings(T)
      /\ \A i, j \in DOMAIN Sorted(T) : i < j => ~Before(Sorted(T)[j].ts, Sorted(T)[i].ts)
  BY <1>6, <1>7, <1>8, Zenon DEF Sorted
<1>10. Sorted(T) \in [1..n -> T] /\ Sorted(T) \in Injection(1..n, T)
  BY <1>9 DEF Listings, Injection
<1>11. IsFiniteSet(1..n) /\ Cardinality(1..n) = n
  BY <1>1, FS_Interval
<1>12. Sorted(T) \in Surjection(1..n, T)
  BY <1>10, <1>11, FS_Injection
<1> QED
  BY <1>1, <1>9, <1>10, <1>12 DEF Surjection

-----------------------------------------------------------------------------
(* Two texts. *)

LEMMA CharFacts ==
  ASSUME NEW c \in Chars
  PROVE  /\ c[1] \in Nat /\ c[2] \in 0..N /\ c[2] \in Nat /\ c[3] \in Nat /\ c = <<c[1], c[2], c[3]>>
         /\ Ts(c)[1] = c[1] /\ Ts(c)[2] = c[2] /\ Ts(c) = <<Ts(c)[1], Ts(c)[2]>>
         /\ Ts(c)[1] \in Nat /\ Ts(c)[2] \in Nat
BY ConstantsAssumption DEF Chars, Ts

\* Of two characters one is older.
LEMMA OlderTotal ==
  ASSUME NEW c \in Chars, NEW d \in Chars
  PROVE  /\ c = d \/ Older(c, d) \/ Older(d, c)
         /\ ~(Older(c, d) /\ Older(d, c))
<1>1. c[1] \in Nat /\ c[2] \in Nat /\ c[3] \in Nat /\ d[1] \in Nat /\ d[2] \in Nat /\ d[3] \in Nat
  BY ConstantsAssumption DEF Chars
<1>2. c = d <=> c[1] = d[1] /\ c[2] = d[2] /\ c[3] = d[3]
  BY DEF Chars
<1>3. Ts(c) = Ts(d) <=> c[1] = d[1] /\ c[2] = d[2]
  BY DEF Ts
<1>4. Ts(c)[1] = c[1] /\ Ts(c)[2] = c[2] /\ Ts(d)[1] = d[1] /\ Ts(d)[2] = d[2]
  BY DEF Ts
<1> QED
  BY <1>1, <1>2, <1>3, <1>4 DEF Older, Before

\* A character was put behind one other.
LEMMA BehindOne ==
  ASSUME NEW O, AllSound(O), NEW c \in Chars, NEW d, NEW e, Behind(O, c, d), Behind(O, c, e)
  PROVE  d = e
<1>1. c[3] \in Nat
  BY DEF Chars
<1>2. \A x \in O : x.ts \in (Nat \ {0}) \X Replicas
  BY DEF AllSound, Sound
<1>3. \A x \in O : x.ts # <<0, 0>>
  BY <1>2
<1>4. \A x, y \in O : x.ts = y.ts => x = y
  BY DEF AllSound
<1> QED
  BY <1>1, <1>3, <1>4 DEF Behind

\* What a text needs to be determined by its characters.
Text(O, t) ==
  /\ t \in Seq(Chars) /\ t # <<>> /\ t[1] = Root
  /\ \A i, j \in 1..Len(t) : t[i] = t[j] => i = j
  /\ Tree(O, t)

LEMMA SameOrder ==
  ASSUME NEW O, AllSound(O), NEW t, NEW u, Text(O, t), Text(O, u)
  PROVE  \A i, j \in 1..Len(t) : \A k, l \in 1..Len(u) :
           t[i] = u[k] /\ t[j] = u[l] /\ i < j => k < l
<1> DEFINE Inverted(i, j, k, l) == t[i] = u[k] /\ t[j] = u[l] /\ i < j /\ l < k
           S == {n \in Nat : \E i, j \in 1..Len(t) : \E k, l \in 1..Len(u) :
                               n = i + j /\ Inverted(i, j, k, l)}
<1>1. /\ Len(t) \in Nat /\ Len(u) \in Nat /\ 1 \in 1..Len(t) /\ 1 \in 1..Len(u)
      /\ \A i \in 1..Len(t) : t[i] \in Chars
      /\ \A i \in 1..Len(u) : u[i] \in Chars
  BY DEF Text
<1>2. /\ \A i, j \in 1..Len(t) : t[i] = t[j] => i = j
      /\ \A i, j \in 1..Len(u) : u[i] = u[j] => i = j
      /\ t[1] = u[1]
  BY DEF Text
<1>3. ASSUME NEW w, NEW i \in 1..Len(w), i # 1, Text(O, w)
      PROVE  \E a \in 1..(i - 1) : /\ Behind(O, w[i], w[a])
                                   /\ \A j \in (a + 1)..(i - 1) : Older(w[i], w[j])
  <2>1. i \in 2..Len(w)
    BY <1>3 DEF Text
  <2> QED
    BY <1>3, <2>1 DEF Text, Tree
<1>0. \A a, b \in 1..Len(t) : \A c, d \in 1..Len(u) : Inverted(a, b, c, d) => a + b \in S
  BY <1>1
<1>4. ASSUME S # {} PROVE FALSE
  <2>1. PICK n \in S : \A m \in S : n <= m
    BY <1>4, Least
  <2>2. PICK i \in 1..Len(t), j \in 1..Len(t), k \in 1..Len(u), l \in 1..Len(u) :
          n = i + j /\ Inverted(i, j, k, l)
    BY <2>1
  <2>3. \A a, b \in 1..Len(t) : \A c, d \in 1..Len(u) : Inverted(a, b, c, d) => i + j <= a + b
    <3> HIDE DEF Inverted, S
    <3> QED
      BY <1>0, <2>1, <2>2
  <2> HIDE DEF S
  <2>4. t[i] \in Chars /\ t[j] \in Chars /\ t[i] # t[j]
    BY <1>1, <1>2, <2>2
  <2>5. CASE Older(t[i], t[j])
    <3>1. j # 1 /\ l # 1
      BY <1>1, <1>2, <2>2
    <3>2. PICK a \in 1..(j - 1) : /\ Behind(O, t[j], t[a])
                                  /\ \A m \in (a + 1)..(j - 1) : Older(t[j], t[m])
      BY <1>3, <3>1
    <3>3. PICK b \in 1..(l - 1) : Behind(O, u[l], u[b])
      BY <1>3, <3>1
    <3>4. a \in 1..Len(t) /\ b \in 1..Len(u) /\ t[a] = u[b]
      BY <1>1, <2>2, <2>4, <3>2, <3>3, BehindOne
    <3>5. i \notin (a + 1)..(j - 1)
      BY <2>4, <2>5, <3>2, OlderTotal
    <3>6. i <= a /\ i # a
      BY <1>1, <1>2, <2>2, <3>4, <3>5
    <3>7. Inverted(i, a, k, b)
      BY <1>1, <2>2, <3>4, <3>6
    <3> QED
      BY <1>1, <2>3, <3>2, <3>4, <3>7
  <2>6. CASE Older(t[j], t[i])
    <3>1. i # 1 /\ k # 1
      BY <1>1, <1>2, <2>2
    <3>2. PICK b \in 1..(k - 1) : /\ Behind(O, u[k], u[b])
                                  /\ \A m \in (b + 1)..(k - 1) : Older(u[k], u[m])
      BY <1>3, <3>1
    <3>3. PICK a \in 1..(i - 1) : Behind(O, t[i], t[a])
      BY <1>3, <3>1
    <3>4. a \in 1..Len(t) /\ b \in 1..Len(u) /\ t[a] = u[b]
      BY <1>1, <2>2, <2>4, <3>2, <3>3, BehindOne
    <3>5. l \notin (b + 1)..(k - 1)
      BY <2>2, <2>4, <2>6, <3>2, OlderTotal
    <3>6. l <= b /\ l # b
      BY <1>1, <1>2, <2>2, <3>3, <3>4, <3>5
    <3>7. Inverted(a, j, b, l)
      BY <1>1, <2>2, <3>3, <3>4, <3>6
    <3> QED
      BY <1>1, <2>3, <3>3, <3>4, <3>7
  <2> QED
    BY <2>4, <2>5, <2>6, OlderTotal
<1> SUFFICES ASSUME NEW i \in 1..Len(t), NEW j \in 1..Len(t), NEW k \in 1..Len(u),
                    NEW l \in 1..Len(u), t[i] = u[k], t[j] = u[l], i < j
             PROVE  k < l
  OBVIOUS
<1>5. ~(l < k)
  <2> SUFFICES ASSUME l < k PROVE i + j \in S
    BY <1>4
  <2> HIDE DEF S
  <2> QED
    BY <1>0
<1> QED
  BY <1>1, <1>2, <1>5

\* Two texts of the same characters are the same.
LEMMA SameText ==
  ASSUME NEW O, AllSound(O), NEW t, NEW u, Text(O, t), Text(O, u), Range(t) = Range(u)
  PROVE  t = u
<1>1. ASSUME NEW v, NEW w, Text(O, v), Text(O, w), Range(v) = Range(w)
      PROVE  \A i \in 1..Len(v) : i <= Len(w) /\ v[i] = w[i]
  <2> DEFINE S == {i \in 1..Len(v) : ~(i <= Len(w) /\ v[i] = w[i])}
  <2>1. /\ Len(v) \in Nat /\ Len(w) \in Nat /\ S \in SUBSET Nat
        /\ DOMAIN v = 1..Len(v) /\ DOMAIN w = 1..Len(w)
    BY <1>1 DEF Text
  <2>2. /\ \A i, j \in 1..Len(v) : v[i] = v[j] => i = j
        /\ \A i, j \in 1..Len(w) : w[i] = w[j] => i = j
    BY <1>1 DEF Text
  <2> SUFFICES ASSUME S # {} PROVE FALSE
    OBVIOUS
  <2>3. PICK i \in S : \A m \in S : i <= m
    BY <2>1, Least
  <2>4. i \in 1..Len(v) /\ \A m \in 1..(i - 1) : m <= Len(w) /\ v[m] = w[m]
    BY <2>1, <2>3
  <2>5. PICK k \in 1..Len(w) : w[k] = v[i]
    BY <1>1, <2>1, <2>4, ZenonT(60) DEF Range
  <2>6. i < k
    BY <2>1, <2>2, <2>3, <2>4, <2>5
  <2>7. PICK j \in 1..Len(v) : v[j] = w[i]
    <3>1. i \in DOMAIN w
      BY <2>1, <2>4, <2>5, <2>6
    <3>2. w[i] \in Range(v)
      BY <1>1, <3>1, Zenon DEF Range
    <3> QED
      BY <2>1, <3>2 DEF Range
  <2>8. i < j
    BY <2>1, <2>2, <2>3, <2>4, <2>5, <2>6, <2>7
  <2>9. k < i
    BY <1>1, <2>1, <2>4, <2>5, <2>6, <2>7, <2>8, SameOrder
  <2> QED
    BY <2>1, <2>4, <2>5, <2>6, <2>9
<1>2. t \in Seq(Chars) /\ u \in Seq(Chars)
  BY DEF Text
<1>3. Len(t) = Len(u)
  BY <1>1, <1>2
<1> QED
  BY <1>1, <1>2, <1>3, SeqEqual

LEMMA DocText ==
  ASSUME NEW O, NEW s, Doc(O, s)
  PROVE  Text(O, s.text)
<1>1. s.text \in Seq(Chars) /\ IsInjective(s.text)
  BY DEF Doc, Complete
<1>2. DOMAIN s.text = 1..Len(s.text)
  BY <1>1
<1> QED
  BY <1>1, <1>2 DEF Doc, Complete, Text, IsInjective

\* A character that was observed has a place in the text.
LEMMA Placed ==
  ASSUME NEW O, AllSound(O), NEW s, Doc(O, s),
         NEW c \in Chars, Known(O, c), Observed(s.versions, Ts(c))
  PROVE  /\ c \in Range(s.text)
         /\ Position(s, c) \in 1..Len(s.text) /\ s.text[Position(s, c)] = c
<1>1. DOMAIN s.text = 1..Len(s.text)
  BY DocText DEF Text
<1>2. c \in Range(s.text)
  <2>1. c = <<c[1], c[2], c[3]>>
    BY CharFacts
  <2>2. CASE c[1] = 0 /\ c[2] = 0 /\ c[3] \in 0..BaseLen
    <3>1. <<0, 0, c[3]>> \in Range(s.text)
      BY <2>2 DEF Doc, Complete
    <3> QED
      BY <2>1, <2>2, <3>1
  <2>3. CASE \E e \in O : e.kind = "edit" /\ Ts(c) = e.ts /\ c[3] \in 1..e.len
    <3>1. PICK e \in O : e.kind = "edit" /\ Ts(c) = e.ts /\ c[3] \in 1..e.len
      BY <2>3
    <3>2. <<e.ts[1], e.ts[2], c[3]>> \in Range(s.text)
      BY <3>1 DEF Doc, Complete
    <3>3. e.ts[1] = c[1] /\ e.ts[2] = c[2]
      BY <3>1 DEF Ts
    <3> QED
      BY <2>1, <3>2, <3>3
  <2> QED
    BY <2>2, <2>3 DEF Known
<1>3. \E i \in DOMAIN s.text : s.text[i] = c
  BY <1>2 DEF Range
<1> QED
  BY <1>1, <1>2, <1>3, Zenon DEF Position

\* Convergence of two buffers.
LEMMA SameDoc ==
  ASSUME NEW O, AllSound(O), NEW s, NEW t, Doc(O, s), Doc(O, t), s.versions = t.versions
  PROVE  s.text = t.text /\ s.dels = t.dels /\ s.undos = t.undos
<1>1. ASSUME NEW v, NEW w, Doc(O, v), Doc(O, w), v.versions = w.versions
      PROVE  Range(v.text) \subseteq Range(w.text)
  <2>1. DOMAIN v.text = 1..Len(v.text)
    BY <1>1, DocText DEF Text
  <2>2. \A i \in 1..Len(v.text) : v.text[i] \in Range(w.text)
    BY <1>1, Placed, SMTT(60) DEF Doc, Complete
  <2> QED
    BY <2>1, <2>2 DEF Range
<1>2. Range(s.text) = Range(t.text)
  BY <1>1
<1>3. s.text = t.text
  BY <1>2, DocText, SameText
<1> QED
  BY <1>3 DEF Doc

-----------------------------------------------------------------------------
(* Versions. *)

LEMMA Timestamps ==
  ASSUME NEW O, AllSound(O), NEW x \in O
  PROVE  x.ts \in (Nat \ {0}) \X Replicas /\ x.ts[1] \in Nat \ {0} /\ x.ts[2] \in Replicas
         /\ x.ts[2] \in Nat /\ x.ts[2] # 0 /\ x.ts = <<x.ts[1], x.ts[2]>>
BY DEF AllSound, Sound, Replicas

\* To observe an operation of which all that it depends on was observed adds just that one.
LEMMA ObserveFacts ==
  ASSUME NEW O, AllSound(O), NEW op \in O, Changes(op), NEW versions, Closed(O, versions),
         ~Observed(versions, op.ts), Includes(versions, op.versions)
  PROVE  LET after == Observe(versions, op.ts)
         IN  /\ Closed(O, after) /\ Includes(after, versions)
             /\ after[op.ts[2]] = op.ts[1]
             /\ \A q \in Replicas : q # op.ts[2] => after[q] = versions[q]
             /\ \A y \in O : Changes(y) => (Observed(after, y.ts) <=> Observed(versions, y.ts) \/ y = op)
<1> DEFINE after == Observe(versions, op.ts)
           r == op.ts[2]
<1>1. r \in Replicas /\ r # 0 /\ op.ts[1] \in Nat \ {0} /\ op.ts = <<op.ts[1], r>>
  BY Timestamps
<1>2. versions \in [Replicas -> Nat] /\ versions[r] < op.ts[1]
  BY <1>1 DEF Closed, Observed
<1>3. /\ after \in [Replicas -> Nat] /\ after[r] = op.ts[1]
      /\ \A q \in Replicas : q # r => after[q] = versions[q]
  BY <1>1, <1>2 DEF Observe, Larger
<1>4. Includes(after, versions)
  BY <1>2, <1>3 DEF Includes
<1>5. op.versions \in [Replicas -> Nat] /\ op.versions[r] <= versions[r]
  BY <1>1 DEF Includes, AllSound, Sound, Informed
<1> HIDE DEF after
<1>6. ASSUME NEW y \in O, Changes(y)
      PROVE  Observed(after, y.ts) <=> Observed(versions, y.ts) \/ y = op
  <2>1. y.ts[2] \in Replicas /\ y.ts[2] # 0 /\ y.ts[1] \in Nat /\ y.ts = <<y.ts[1], y.ts[2]>>
    BY Timestamps
  <2>2. CASE y.ts[2] # r
    <3>1. y # op
      BY <2>2
    <3> QED
      BY <1>3, <2>1, <2>2, <3>1 DEF Observed
  <2>3. CASE y.ts[2] = r /\ y.ts[1] = op.ts[1]
    <3>1. y.ts = op.ts
      BY <1>1, <2>1, <2>3, Zenon
    <3>2. y = op
      BY <3>1 DEF AllSound
    <3> QED
      BY <1>1, <1>3, <2>1, <2>3, <3>2 DEF Observed
  <2>4. CASE y.ts[2] = r /\ y.ts[1] > op.ts[1]
    BY <1>1, <1>2, <1>3, <2>1, <2>4 DEF Observed
  <2>5. CASE y.ts[2] = r /\ y.ts[1] < op.ts[1]
    <3>1. y.ts[1] <= op.versions[r]
      BY <1>6, <2>5 DEF AllSound, Sound, Informed
    <3> QED
      BY <1>1, <1>2, <1>3, <1>5, <2>1, <2>5, <3>1 DEF Observed
  <2> QED
    BY <1>1, <2>1, <2>2, <2>3, <2>4, <2>5
<1>7. Closed(O, after)
  <2>1. ASSUME NEW q \in Replicas PROVE Real(O, after[q], q)
    <3>1. CASE q = r
      BY <1>1, <1>3, <3>1 DEF Real
    <3>2. CASE q # r
      BY <1>3, <3>2 DEF Closed
    <3> QED
      BY <3>1, <3>2
  <2>2. ASSUME NEW e \in O, Changes(e), Observed(after, e.ts) PROVE Includes(after, e.versions)
    <3>1. Includes(versions, e.versions)
      BY <1>6, <2>2 DEF Closed
    <3>2. e.versions \in [Replicas -> Nat]
      BY <2>2 DEF AllSound, Sound, Informed
    <3> QED
      BY <1>2, <1>3, <1>4, <3>1, <3>2 DEF Includes
  <2> QED
    BY <1>3, <2>1, <2>2 DEF Closed
<1> QED
  BY <1>3, <1>4, <1>6, <1>7 DEF after

\* No character of the text is newer than the clock, and none is of an operation not observed.
LEMMA TextClock ==
  ASSUME NEW O, AllSound(O), NEW s, Doc(O, s), NEW i \in 1..Len(s.text)
  PROVE  Ts(s.text[i])[1] <= s.clock
<1> DEFINE c == s.text[i]
<1>1. c \in Chars /\ Known(O, c) /\ Observed(s.versions, Ts(c))
  BY DEF Doc, Complete
<1>2. Ts(c)[1] = c[1] /\ Ts(c)[2] = c[2]
  BY DEF Ts
<1>3. CASE c[1] = 0
  BY <1>2, <1>3 DEF Doc
<1>4. CASE \E e \in O : e.kind = "edit" /\ Ts(c) = e.ts
  <2>1. c[2] \in Replicas /\ c[2] # 0 /\ c[1] \in Nat
    BY <1>2, <1>4, Timestamps
  <2>2. c[1] <= s.versions[c[2]]
    BY <1>1, <1>2, <2>1 DEF Observed, Doc, Closed
  <2> QED
    BY <1>2, <2>1, <2>2 DEF Doc, Closed
<1> QED
  BY <1>1, <1>3, <1>4 DEF Known

-----------------------------------------------------------------------------
(* An edit inserts its characters. *)

Inserted(t, p, op) ==
  SubSeq(t, 1, p - 1) \o [k \in 1..op.len |-> <<op.ts[1], op.ts[2], k>>] \o SubSeq(t, p, Len(t))

\* Where the character at i of the text is after the insertion.
Shifted(p, op, i) == IF i < p THEN i ELSE i + op.len

\* u is the text t with the characters of op from position p on.
Insertion(t, u, p, op) ==
  /\ u \in Seq(Chars) /\ Len(u) \in Nat /\ Len(u) = Len(t) + op.len
  /\ \A k \in 1..op.len : u[p - 1 + k] = <<op.ts[1], op.ts[2], k>> /\ Ts(u[p - 1 + k]) = op.ts
  /\ \A i \in 1..Len(t) : Shifted(p, op, i) \in 1..Len(u) /\ u[Shifted(p, op, i)] = t[i]
  /\ \A n \in 1..Len(u) : \/ \E i \in 1..Len(t) : n = Shifted(p, op, i)
                          \/ \E k \in 1..op.len : n = p - 1 + k

LEMMA InsertedFacts ==
  ASSUME NEW t \in Seq(Chars), NEW p \in 1..(Len(t) + 1), NEW op,
         op.len \in Nat, op.ts \in (Nat \ {0}) \X Replicas
  PROVE  Insertion(t, Inserted(t, p, op), p, op)
<1> DEFINE left == SubSeq(t, 1, p - 1)
           new == [k \in 1..op.len |-> <<op.ts[1], op.ts[2], k>>]
           right == SubSeq(t, p, Len(t))
           both == left \o new
           u == Inserted(t, p, op)
<1>1. Len(t) \in Nat /\ p \in Nat /\ \A i \in 1..Len(t) : t[i] \in Chars
  OBVIOUS
<1>2. /\ left \in Seq(Chars) /\ Len(left) = p - 1
      /\ \A i \in 1..(p - 1) : left[i] = t[i]
  <2>1. \A i \in 1..(p - 1) : t[i] \in Chars
    BY <1>1
  <2> HIDE DEF Chars
  <2> QED
    BY <1>1, <2>1, SubSeqProperties
<1>3. /\ right \in Seq(Chars) /\ Len(right) = Len(t) - p + 1
      /\ \A i \in 1..(Len(t) - p + 1) : right[i] = t[p + i - 1]
  <2>1. \A i \in p..Len(t) : t[i] \in Chars
    BY <1>1
  <2> HIDE DEF Chars
  <2>2. /\ right \in Seq(Chars) /\ Len(right) = IF p <= Len(t) THEN Len(t) - p + 1 ELSE 0
        /\ \A i \in 1..(Len(t) - p + 1) : right[i] = t[p + i - 1]
    BY <1>1, <2>1, SubSeqProperties
  <2> QED
    BY <1>1, <2>2
<1>4. new \in Seq(Chars) /\ Len(new) = op.len /\ \A k \in 1..op.len : new[k] = <<op.ts[1], op.ts[2], k>>
  <2>1. op.ts[1] \in Nat /\ op.ts[2] \in 0..N
    BY ConstantsAssumption DEF Replicas
  <2>2. \A k \in 1..op.len : <<op.ts[1], op.ts[2], k>> \in Chars
    BY <2>1 DEF Chars
  <2>3. new \in [1..op.len -> Chars]
    BY <2>2
  <2>4. \A k \in 1..op.len : new[k] = <<op.ts[1], op.ts[2], k>>
    OBVIOUS
  <2> HIDE DEF new
  <2>5. new \in Seq(Chars) /\ Len(new) = op.len
    BY <2>3
  <2> QED
    BY <2>4, <2>5
<1> HIDE DEF left, new, right
<1>5. /\ both \in Seq(Chars) /\ Len(both) = p - 1 + op.len
      /\ \A i \in 1..(p - 1 + op.len) : both[i] = IF i <= p - 1 THEN left[i] ELSE new[i - (p - 1)]
  <2>1. /\ both \in Seq(Chars) /\ Len(both) = Len(left) + Len(new)
        /\ \A i \in 1..(Len(left) + Len(new)) :
             both[i] = IF i <= Len(left) THEN left[i] ELSE new[i - Len(left)]
    BY <1>2, <1>4, ConcatProperties, ZenonT(60)
  <2> HIDE DEF both
  <2> QED
    BY <1>2, <1>4, <2>1
<1>6. u = both \o right
  BY DEF Inserted, left, new, right
<1> HIDE DEF both, u
<1>7. /\ u \in Seq(Chars) /\ Len(u) = Len(t) + op.len
      /\ \A i \in 1..Len(u) : u[i] = IF i <= p - 1 + op.len THEN both[i] ELSE right[i - (p - 1 + op.len)]
  <2>1. /\ u \in Seq(Chars) /\ Len(u) = Len(both) + Len(right)
        /\ \A i \in 1..(Len(both) + Len(right)) :
             u[i] = IF i <= Len(both) THEN both[i] ELSE right[i - Len(both)]
    BY <1>3, <1>5, <1>6, ConcatProperties, ZenonT(60)
  <2> QED
    BY <1>1, <1>3, <1>5, <2>1, SMTT(60)
<1>8. ASSUME NEW k \in 1..op.len PROVE u[p - 1 + k] = <<op.ts[1], op.ts[2], k>>
  <2>1. /\ p - 1 + k \in 1..Len(u) /\ p - 1 + k \in 1..(p - 1 + op.len)
        /\ ~(p - 1 + k <= p - 1) /\ (p - 1 + k) - (p - 1) = k
    BY <1>1, <1>7
  <2>2. u[p - 1 + k] = both[p - 1 + k] /\ both[p - 1 + k] = new[k]
    BY <1>5, <1>7, <2>1
  <2> QED
    BY <1>4, <2>2
<1>9. ASSUME NEW i \in 1..Len(t) PROVE Shifted(p, op, i) \in 1..Len(u) /\ u[Shifted(p, op, i)] = t[i]
  <2>1. CASE i < p
    <3>1. /\ Shifted(p, op, i) = i /\ i \in 1..Len(u) /\ i \in 1..(p - 1 + op.len)
          /\ i <= p - 1 /\ i \in 1..(p - 1)
      BY <1>1, <1>7, <2>1 DEF Shifted
    <3>2. u[i] = both[i] /\ both[i] = left[i]
      BY <1>5, <1>7, <3>1
    <3> QED
      BY <1>2, <3>1, <3>2
  <2>2. CASE i >= p
    <3>1. Shifted(p, op, i) = i + op.len /\ i + op.len \in 1..Len(u) /\ i + op.len > p - 1 + op.len
      BY <1>1, <1>7, <2>2, SMTT(60) DEF Shifted
    <3>2. u[i + op.len] = right[i - (p - 1)] /\ i - (p - 1) \in 1..(Len(t) - p + 1)
      BY <1>1, <1>7, <2>2, <3>1, SMTT(60)
    <3>3. right[i - (p - 1)] = t[p + (i - (p - 1)) - 1]
      BY <1>3, <3>2
    <3>4. p + (i - (p - 1)) - 1 = i
      BY <1>1
    <3> QED
      BY <3>1, <3>2, <3>3, <3>4
  <2> QED
    BY <1>1, <2>1, <2>2
<1>10. ASSUME NEW n \in 1..Len(u)
       PROVE  \/ \E i \in 1..Len(t) : n = Shifted(p, op, i)
              \/ \E k \in 1..op.len : n = p - 1 + k
  <2>1. CASE n < p
    <3>1. n \in 1..Len(t) /\ Shifted(p, op, n) = n
      BY <1>1, <2>1 DEF Shifted
    <3> QED
      BY <3>1
  <2>2. CASE n >= p /\ n < p + op.len
    <3>1. n - (p - 1) \in 1..op.len /\ n = p - 1 + (n - (p - 1))
      BY <1>1, <2>2
    <3> QED
      BY <3>1
  <2>3. CASE n >= p + op.len
    <3>1. n - op.len \in 1..Len(t) /\ n = Shifted(p, op, n - op.len)
      BY <1>1, <1>7, <2>3, SMTT(60) DEF Shifted
    <3> QED
      BY <3>1
  <2> QED
    BY <1>1, <2>1, <2>2, <2>3
<1>11. ASSUME NEW k \in 1..op.len PROVE Ts(u[p - 1 + k]) = op.ts
  <2>1. op.ts = <<op.ts[1], op.ts[2]>>
    OBVIOUS
  <2> QED
    BY <1>8, <2>1 DEF Ts
<1>12. Len(u) \in Nat
  BY <1>1, <1>7
<1>13. Insertion(t, u, p, op)
  BY <1>7, <1>8, <1>9, <1>10, <1>11, <1>12, Zenon DEF Insertion
<1> QED
  BY <1>13 DEF u

LEMMA InsertedRange ==
  ASSUME NEW t \in Seq(Chars), NEW p \in 1..(Len(t) + 1), NEW op,
         op.len \in Nat, op.ts \in (Nat \ {0}) \X Replicas
  PROVE  Range(t) \subseteq Range(Inserted(t, p, op))
<1> DEFINE u == Inserted(t, p, op)
<1>1. Insertion(t, u, p, op)
  BY InsertedFacts
<1> HIDE DEF u
<1>2. DOMAIN u = 1..Len(u) /\ DOMAIN t = 1..Len(t)
  BY <1>1 DEF Insertion
<1>3. \A i \in 1..Len(t) : Shifted(p, op, i) \in 1..Len(u) /\ u[Shifted(p, op, i)] = t[i]
  BY <1>1 DEF Insertion
<1>4. Range(t) \subseteq Range(u)
  BY <1>2, <1>3 DEF Range
<1> QED
  BY <1>4 DEF u

LEMMA ShiftedOrder ==
  ASSUME NEW n \in Nat, NEW p \in 1..(n + 1), NEW op, op.len \in Nat
  PROVE  /\ \A i, j \in 1..n : i < j <=> Shifted(p, op, i) < Shifted(p, op, j)
         /\ \A i \in 1..n, k \in 1..op.len : Shifted(p, op, i) # p - 1 + k
BY DEF Shifted

LEMMA BeforeTransitive ==
  ASSUME NEW a, NEW b, NEW c, a[1] \in Nat /\ a[2] \in Nat /\ b[1] \in Nat /\ b[2] \in Nat
                              /\ c[1] \in Nat /\ c[2] \in Nat,
         Before(a, b), Before(b, c)
  PROVE  Before(a, c)
BY DEF Before

\* The edit's first character comes behind its start, before whatever is older.
Fits(t, a, p, op) ==
  /\ a \in 1..Len(t) /\ t[a] = op.start /\ p \in (a + 1)..(Len(t) + 1)
  /\ \A j \in (a + 1)..(p - 1) : ~Before(Ts(t[j]), op.ts)
  /\ p <= Len(t) => Before(Ts(t[p]), op.ts)

LEMMA InsertedText ==
  ASSUME NEW O, AllSound(O), NEW op \in O, op.kind = "edit", NEW t, Text(O, t),
         NEW a, NEW p, Fits(t, a, p, op), \A i \in 1..Len(t) : Ts(t[i]) # op.ts
  PROVE  Text(O, Inserted(t, p, op))
<1> DEFINE u == Inserted(t, p, op)
           n == op.len
           at(i) == Shifted(p, op, i)
           new(k) == <<op.ts[1], op.ts[2], k>>
<1>1. n \in Nat /\ op.ts \in (Nat \ {0}) \X Replicas /\ op.ts = <<op.ts[1], op.ts[2]>>
  BY Timestamps DEF AllSound, Sound
<1>2. /\ t \in Seq(Chars) /\ Len(t) \in Nat /\ t # <<>> /\ t[1] = Root /\ Tree(O, t)
      /\ \A i \in 1..Len(t) : t[i] \in Chars
  BY DEF Text
<1>3. a \in 1..Len(t) /\ p \in (a + 1)..(Len(t) + 1) /\ p \in 2..(Len(t) + 1)
  BY <1>2 DEF Fits
<1>4. /\ u \in Seq(Chars) /\ Len(u) = Len(t) + n
      /\ \A k \in 1..n : u[p - 1 + k] = new(k)
      /\ \A i \in 1..Len(t) : at(i) \in 1..Len(u) /\ u[at(i)] = t[i]
      /\ \A m \in 1..Len(u) : (\E i \in 1..Len(t) : m = at(i)) \/ (\E k \in 1..n : m = p - 1 + k)
  <2>1. Insertion(t, u, p, op)
    BY <1>1, <1>2, <1>3, InsertedFacts
  <2> HIDE DEF u, at
  <2>2. \A k \in 1..n : u[p - 1 + k] = new(k)
    BY <2>1 DEF Insertion
  <2> QED
    BY <2>1, <2>2, Zenon DEF Insertion, at
<1>5. /\ \A i, j \in 1..Len(t) : i < j <=> at(i) < at(j)
      /\ \A i \in 1..Len(t), k \in 1..n : at(i) # p - 1 + k
  <2>1. p \in 1..(Len(t) + 1)
    BY <1>2, <1>3
  <2> HIDE DEF at
  <2>2. \A i, j \in 1..Len(t) : i < j <=> Shifted(p, op, i) < Shifted(p, op, j)
    BY <1>1, <1>2, <2>1, ShiftedOrder
  <2>3. \A i \in 1..Len(t), k \in 1..n : Shifted(p, op, i) # p - 1 + k
    BY <1>1, <1>2, <2>1, ShiftedOrder
  <2> QED
    BY <2>2, <2>3 DEF at
<1>6. \A k : Ts(new(k)) = op.ts /\ new(k)[1] = op.ts[1] /\ new(k)[2] = op.ts[2] /\ new(k)[3] = k
  BY <1>1 DEF Ts
<1>7. \A i \in 1..Len(t) : IF i < p THEN at(i) = i ELSE at(i) = i + n
  BY DEF Shifted
<1> HIDE DEF u, at, new
<1>8. \A i, j \in 1..Len(u) : u[i] = u[j] => i = j
  <2> SUFFICES ASSUME NEW i \in 1..Len(u), NEW j \in 1..Len(u), u[i] = u[j] PROVE i = j
    OBVIOUS
  <2>1. CASE \E k, l \in 1..Len(t) : i = at(k) /\ j = at(l)
    <3>1. PICK k \in 1..Len(t), l \in 1..Len(t) : i = at(k) /\ j = at(l)
      BY <2>1
    <3>2. t[k] = t[l]
      BY <1>4, <3>1
    <3> QED
      BY <3>1, <3>2 DEF Text
  <2>2. CASE \E k, l \in 1..n : i = p - 1 + k /\ j = p - 1 + l
    <3>1. PICK k \in 1..n, l \in 1..n : i = p - 1 + k /\ j = p - 1 + l
      BY <2>2
    <3>2. new(k) = new(l)
      BY <1>4, <3>1
    <3>3. k = l
      BY <1>6, <3>2
    <3> QED
      BY <3>1, <3>3
  <2>3. CASE \E k \in 1..Len(t), l \in 1..n : (i = at(k) /\ j = p - 1 + l) \/ (j = at(k) /\ i = p - 1 + l)
    BY <1>4, <1>6, <2>3
  <2> QED
    BY <1>4, <2>1, <2>2, <2>3
<1>9. \A k \in 1..n : \A c \in Chars : Before(Ts(c), op.ts) => Older(c, new(k))
  BY <1>6 DEF Older
<1>10. ASSUME NEW m \in 2..Len(u)
       PROVE  \E b \in 1..(m - 1) : /\ Behind(O, u[m], u[b])
                                    /\ \A j \in (b + 1)..(m - 1) : Older(u[m], u[j])
  <2>1. ASSUME NEW i \in 1..Len(t), m = at(i)
        PROVE  \E b \in 1..(m - 1) : /\ Behind(O, u[m], u[b])
                                     /\ \A j \in (b + 1)..(m - 1) : Older(u[m], u[j])
    <3>1. i \in 2..Len(t)
      BY <1>3, <1>7, <2>1
    <3>2. PICK c \in 1..(i - 1) : /\ Behind(O, t[i], t[c])
                                  /\ \A j \in (c + 1)..(i - 1) : Older(t[i], t[j])
      BY <1>2, <3>1 DEF Tree
    <3>3. c \in 1..Len(t) /\ at(c) \in 1..(m - 1) /\ Behind(O, u[m], u[at(c)])
      BY <1>2, <1>4, <1>5, <2>1, <3>2
    <3>4. ASSUME NEW j \in (at(c) + 1)..(m - 1) PROVE Older(u[m], u[j])
      <4>1. j \in 1..Len(u)
        BY <1>4, <3>3, SMTT(30)
      <4>2. CASE \E d \in 1..Len(t) : j = at(d)
        <5>1. PICK d \in 1..Len(t) : j = at(d)
          BY <4>2
        <5>2. d \in (c + 1)..(i - 1)
          BY <1>2, <1>4, <1>5, <2>1, <3>3, <3>4, <5>1
        <5> QED
          BY <1>4, <2>1, <3>2, <5>1, <5>2
      <4>3. CASE \E k \in 1..n : j = p - 1 + k
        <5>1. PICK k \in 1..n : j = p - 1 + k
          BY <4>3
        <5>2. c < p /\ i >= p
          <6>1. at(c) < p - 1 + k /\ p - 1 + k < at(i)
            <7>1. Len(u) \in Nat /\ m \in Nat
              BY <1>1, <1>2, <1>4
            <7>2. at(c) \in Nat /\ j \in Nat /\ at(c) < j /\ j < m
              BY <3>3, <3>4, <7>1
            <7> QED
              BY <2>1, <5>1, <7>2
          <6>2. (IF c < p THEN at(c) = c ELSE at(c) = c + n) /\ (IF i < p THEN at(i) = i ELSE at(i) = i + n)
            BY <1>7, <3>3
          <6>3. n \in Nat /\ k \in 1..n /\ p \in Nat /\ c \in Nat /\ i \in Nat
            BY <1>1, <1>2, <1>3, <3>3, SMTT(30)
          <6> QED
            BY <6>1, <6>2, <6>3
        <5>3. i = p \/ Older(t[i], t[p])
          BY <1>3, <3>2, <5>2
        <5>4. p <= Len(t) /\ Before(Ts(t[p]), op.ts)
          BY <1>2, <1>3, <5>2 DEF Fits
        <5>5. Before(Ts(t[i]), op.ts)
          <6>1. Ts(t[i]) = Ts(t[p]) \/ Before(Ts(t[i]), Ts(t[p]))
            BY <5>3 DEF Older
          <6>2. /\ Ts(t[i])[1] \in Nat /\ Ts(t[i])[2] \in Nat /\ Ts(t[p])[1] \in Nat /\ Ts(t[p])[2] \in Nat
                /\ op.ts[1] \in Nat /\ op.ts[2] \in Nat
            <7>1. t[i] \in Chars /\ t[p] \in Chars
              BY <1>2, <1>3, <5>4
            <7> QED
              BY <7>1, Timestamps, CharFacts
          <6> QED
            BY <5>4, <6>1, <6>2, BeforeTransitive, Zenon
        <5> QED
          BY <1>2, <1>4, <1>9, <2>1, <5>1, <5>5
      <4> QED
        BY <1>4, <4>1, <4>2, <4>3
    <3> QED
      BY <3>3, <3>4
  <2>2. ASSUME NEW k \in 1..n, m = p - 1 + k
        PROVE  \E b \in 1..(m - 1) : /\ Behind(O, u[m], u[b])
                                     /\ \A j \in (b + 1)..(m - 1) : Older(u[m], u[j])
    <3>0. u[m] = new(k) /\ new(k) = <<op.ts[1], op.ts[2], k>>
      BY <1>4, <2>2 DEF new
    <3>1. CASE k > 1
      <4>1. k - 1 \in 1..n /\ m - 1 = p - 1 + (k - 1) /\ m - 1 \in 1..(m - 1)
        BY <1>1, <1>2, <1>3, <2>2, <3>1
      <4>2. u[m - 1] = <<op.ts[1], op.ts[2], k - 1>>
        BY <1>4, <4>1 DEF new
      <4>3. Behind(O, u[m], u[m - 1])
        BY <1>6, <3>0, <3>1, <4>2 DEF Behind
      <4>4. \A j \in ((m - 1) + 1)..(m - 1) : Older(u[m], u[j])
        BY <4>1
      <4> QED
        BY <4>1, <4>3, <4>4
    <3>2. CASE k = 1
      <4>1. m = p /\ at(a) = a /\ a \in 1..(m - 1) /\ u[a] = t[a] /\ t[a] = op.start
        BY <1>2, <1>3, <1>4, <1>7, <2>2, <3>2 DEF Fits
      <4>2. Behind(O, u[m], u[a])
        BY <1>6, <3>0, <3>2, <4>1 DEF Behind
      <4>3. ASSUME NEW j \in (a + 1)..(m - 1) PROVE Older(u[m], u[j])
        <5>1. j \in 1..Len(t) /\ at(j) = j /\ u[j] = t[j] /\ ~Before(Ts(t[j]), op.ts)
          BY <1>2, <1>3, <1>4, <1>7, <4>1 DEF Fits
        <5>2. Ts(t[j]) # op.ts /\ t[j] \in Chars
          BY <1>2, <5>1
        <5>3. Before(op.ts, Ts(t[j]))
          <6>1. Ts(t[j]) = <<Ts(t[j])[1], Ts(t[j])[2]>> /\ Ts(t[j])[1] \in Nat /\ Ts(t[j])[2] \in Nat
            BY <5>2, CharFacts
          <6>2. Ts(t[j])[1] # op.ts[1] \/ Ts(t[j])[2] # op.ts[2]
            BY <1>1, <5>2, <6>1, Zenon
          <6>3. op.ts[1] \in Nat /\ op.ts[2] \in Nat
            BY Timestamps
          <6> QED
            BY <5>1, <6>1, <6>2, <6>3 DEF Before
        <5> QED
          BY <1>6, <3>0, <5>1, <5>3 DEF Older
      <4> QED
        BY <4>1, <4>2, <4>3
    <3> QED
      BY <3>1, <3>2
  <2> QED
    BY <1>4, <2>1, <2>2
<1>11. u # <<>> /\ u[1] = Root
  BY <1>2, <1>3, <1>4, <1>7
<1> QED
  BY <1>4, <1>8, <1>10, <1>11 DEF Text, Tree, u

-----------------------------------------------------------------------------
(* An edit or undo that is applied. *)

\* What was observed stays so.
LEMMA ObservedStays ==
  ASSUME NEW v \in [Replicas -> Nat], NEW w \in [Replicas -> Nat], Includes(w, v),
         NEW ts, ts[1] \in Nat, ts[2] \in 0..N, Observed(v, ts)
  PROVE  Observed(w, ts)
<1>1. CASE ts[2] = 0
  BY <1>1 DEF Observed
<1>2. CASE ts[2] # 0
  <2>1. ts[2] \in Replicas
    BY <1>2, ConstantsAssumption DEF Replicas
  <2>2. v[ts[2]] >= ts[1] /\ v[ts[2]] <= w[ts[2]] /\ v[ts[2]] \in Nat /\ w[ts[2]] \in Nat
    BY <1>2, <2>1 DEF Observed, Includes
  <2> QED
    BY <2>2 DEF Observed
<1> QED
  BY <1>1, <1>2

\* An edit deletes the same characters when one that it has not observed was applied first.
LEMMA DeletedByStays ==
  ASSUME NEW t \in Seq(Chars), NEW p \in 1..(Len(t) + 1), NEW op,
         op.len \in Nat, op.ts \in (Nat \ {0}) \X Replicas,
         NEW e, ~Observed(e.versions, op.ts),
         Observed(e.versions, Ts(e.start)), Observed(e.versions, Ts(e.end))
  PROVE  DeletedBy(Inserted(t, p, op), e) = DeletedBy(t, e)
<1> DEFINE u == Inserted(t, p, op)
           at(i) == Shifted(p, op, i)
<1>1. /\ Len(u) \in Nat
      /\ \A k \in 1..op.len : Ts(u[p - 1 + k]) = op.ts
      /\ \A i \in 1..Len(t) : at(i) \in 1..Len(u) /\ u[at(i)] = t[i]
      /\ \A n \in 1..Len(u) : (\E i \in 1..Len(t) : n = at(i)) \/ (\E k \in 1..op.len : n = p - 1 + k)
  <2>1. Insertion(t, u, p, op)
    BY InsertedFacts
  <2> HIDE DEF u
  <2> QED
    BY <2>1, Zenon DEF Insertion, at
<1>2. \A i, j \in 1..Len(t) : i < j <=> at(i) < at(j)
  <2>1. Len(t) \in Nat
    OBVIOUS
  <2> QED
    BY <2>1, ShiftedOrder
<1>3. \A i \in 1..Len(t) : at(i) \in Nat /\ i \in Nat
  BY <1>1
<1> HIDE DEF u, at
<1>4. ASSUME NEW n \in 1..Len(u), Observed(e.versions, Ts(u[n]))
      PROVE  \E i \in 1..Len(t) : n = at(i)
  BY <1>1, <1>4
<1>5. ASSUME NEW c \in DeletedBy(u, e) PROVE c \in DeletedBy(t, e)
  <2>1. PICK k \in 1..Len(u), i \in 1..Len(u), j \in 1..Len(u) :
          /\ c = u[k] /\ Observed(e.versions, Ts(u[k]))
          /\ u[i] = e.start /\ u[j] = e.end /\ i < k /\ k <= j
    BY DEF DeletedBy
  <2>2. PICK kk \in 1..Len(t), ii \in 1..Len(t), jj \in 1..Len(t) : k = at(kk) /\ i = at(ii) /\ j = at(jj)
    BY <1>4, <2>1
  <2>3. t[kk] = c /\ t[ii] = e.start /\ t[jj] = e.end
    BY <1>1, <2>1, <2>2
  <2>4. ii < kk /\ kk <= jj
    <3>1. at(ii) < at(kk) /\ ~(at(jj) < at(kk))
      BY <1>1, <2>1, <2>2
    <3>2. ii < kk /\ ~(jj < kk)
      BY <1>2, <3>1
    <3> QED
      BY <1>3, <3>2
  <2> QED
    BY <2>1, <2>3, <2>4 DEF DeletedBy
<1>6. ASSUME NEW c \in DeletedBy(t, e) PROVE c \in DeletedBy(u, e)
  <2>1. PICK k \in 1..Len(t), i \in 1..Len(t), j \in 1..Len(t) :
          /\ c = t[k] /\ Observed(e.versions, Ts(t[k]))
          /\ t[i] = e.start /\ t[j] = e.end /\ i < k /\ k <= j
    BY DEF DeletedBy
  <2>2. /\ u[at(k)] = c /\ u[at(i)] = e.start /\ u[at(j)] = e.end
        /\ at(k) \in 1..Len(u) /\ at(i) \in 1..Len(u) /\ at(j) \in 1..Len(u)
    BY <1>1, <2>1
  <2>3. at(i) < at(k) /\ ~(at(j) < at(k))
    BY <1>2, <1>3, <2>1
  <2>4. at(k) <= at(j)
    BY <1>3, <2>3
  <2> QED
    BY <2>1, <2>2, <2>3, <2>4 DEF DeletedBy
<1> QED
  BY <1>5, <1>6 DEF u

LEMMA DocEdit ==
  ASSUME NEW O, AllSound(O), NEW op \in O, op.kind = "edit", NEW s, Doc(O, s),
         ~Observed(s.versions, op.ts), Includes(s.versions, op.versions),
         NEW a, NEW p, Fits(s.text, a, p, op),
         NEW t, t.text = Inserted(s.text, p, op), t.undos = s.undos,
         t.dels = s.dels \cup Struck(s.text, op),
         t.versions = Observe(s.versions, op.ts),
         t.clock \in Nat, s.clock <= t.clock, op.ts[1] <= t.clock
  PROVE  Doc(O, t)
<1> DEFINE r == op.ts[2]
           at(i) == Shifted(p, op, i)
<1>1. /\ r \in Replicas /\ r # 0 /\ op.ts[1] \in Nat /\ op.ts = <<op.ts[1], r>>
      /\ op.ts \in (Nat \ {0}) \X Replicas
      /\ op.len \in Nat /\ Changes(op) /\ Informed(O, op)
  BY Timestamps DEF AllSound, Sound, Changes
<1>2. /\ s.versions \in [Replicas -> Nat] /\ Closed(O, s.versions) /\ Complete(O, s.versions, s.text)
      /\ s.text \in Seq(Chars) /\ Len(s.text) \in Nat /\ Text(O, s.text)
      /\ \A i \in 1..Len(s.text) : s.text[i] \in Chars
  <2>1. s.versions \in [Replicas -> Nat] /\ Closed(O, s.versions) /\ Complete(O, s.versions, s.text)
    BY DEF Doc, Closed
  <2>2. Text(O, s.text)
    BY DocText
  <2>3. s.text \in Seq(Chars)
    BY <2>2 DEF Text
  <2> QED
    BY <2>1, <2>2, <2>3
<1>3. p \in 1..(Len(s.text) + 1)
  BY <1>2 DEF Fits
<1>4. /\ Closed(O, t.versions) /\ Includes(t.versions, s.versions)
      /\ t.versions[r] = op.ts[1]
      /\ \A q \in Replicas : q # r => t.versions[q] = s.versions[q]
      /\ \A y \in O : Changes(y) => (Observed(t.versions, y.ts) <=> Observed(s.versions, y.ts) \/ y = op)
  BY <1>1, <1>2, ObserveFacts
<1>5. t.versions \in [Replicas -> Nat]
  BY <1>4 DEF Closed
<1>6. \A i \in 1..Len(s.text) : Ts(s.text[i]) # op.ts
  BY <1>2 DEF Complete
<1>7. Text(O, t.text)
  BY <1>2, <1>6, InsertedText
<1>8. /\ t.text \in Seq(Chars) /\ Len(t.text) \in Nat /\ DOMAIN t.text = 1..Len(t.text)
      /\ \A i, j \in 1..Len(t.text) : t.text[i] = t.text[j] => i = j
  BY <1>7 DEF Text
<1>9. /\ Len(t.text) = Len(s.text) + op.len
      /\ \A k \in 1..op.len : t.text[p - 1 + k] = <<op.ts[1], op.ts[2], k>>
      /\ \A i \in 1..Len(s.text) : at(i) \in 1..Len(t.text) /\ t.text[at(i)] = s.text[i]
      /\ \A n \in 1..Len(t.text) : \/ \E i \in 1..Len(s.text) : n = at(i)
                                   \/ \E k \in 1..op.len : n = p - 1 + k
  <2>1. Insertion(s.text, t.text, p, op)
    BY <1>1, <1>2, <1>3, InsertedFacts
  <2>2. \A k \in 1..op.len : t.text[p - 1 + k] = <<op.ts[1], op.ts[2], k>>
    BY <2>1 DEF Insertion
  <2> QED
    BY <2>1, <2>2, Zenon DEF Insertion, at
<1> HIDE DEF at
<1>10. Range(s.text) \subseteq Range(t.text)
  BY <1>1, <1>2, <1>3, InsertedRange
<1>11. Complete(O, t.versions, t.text)
  <2>1. ASSUME NEW n \in 1..Len(t.text)
        PROVE  Known(O, t.text[n]) /\ Observed(t.versions, Ts(t.text[n]))
    <3>1. CASE \E i \in 1..Len(s.text) : n = at(i)
      <4>1. PICK i \in 1..Len(s.text) : n = at(i)
        BY <3>1
      <4>2. Known(O, s.text[i]) /\ Observed(s.versions, Ts(s.text[i])) /\ s.text[i] \in Chars
        BY <1>2 DEF Complete
      <4>3. Ts(s.text[i])[1] \in Nat /\ Ts(s.text[i])[2] \in 0..N
        BY <4>2, CharFacts
      <4> QED
        BY <1>2, <1>4, <1>5, <1>9, <4>1, <4>2, <4>3, ObservedStays, ZenonT(60)
    <3>2. CASE \E k \in 1..op.len : n = p - 1 + k
      <4>1. PICK k \in 1..op.len : n = p - 1 + k
        BY <3>2
      <4>2. t.text[n] = <<op.ts[1], op.ts[2], k>>
        BY <1>9, <4>1
      <4>3. Ts(t.text[n]) = op.ts /\ t.text[n][3] = k
        BY <1>1, <4>2 DEF Ts
      <4>4. Observed(t.versions, op.ts)
        BY <1>1, <1>4
      <4> QED
        BY <4>3, <4>4 DEF Known
    <3> QED
      BY <1>9, <3>1, <3>2
  <2>2. \A k \in 0..BaseLen : <<0, 0, k>> \in Range(t.text)
    BY <1>2, <1>10 DEF Complete
  <2>3. ASSUME NEW e \in O, e.kind = "edit", Observed(t.versions, e.ts), NEW k \in 1..e.len
        PROVE  <<e.ts[1], e.ts[2], k>> \in Range(t.text)
    <3>1. CASE Observed(s.versions, e.ts)
      BY <1>2, <1>10, <2>3, <3>1 DEF Complete
    <3>2. CASE e = op
      <4>1. p - 1 + k \in 1..Len(t.text)
        BY <1>1, <1>2, <1>3, <1>9, <3>2
      <4> QED
        BY <1>8, <1>9, <3>2, <4>1 DEF Range
    <3> QED
      BY <1>4, <2>3, <3>1, <3>2 DEF Changes
  <2>4. IsInjective(t.text)
    BY <1>8 DEF IsInjective
  <2> QED
    BY <1>7, <1>8, <2>1, <2>2, <2>3, <2>4 DEF Complete, Text
<1>12. t.dels = Deletions(O, t.versions, t.text)
  <2> DEFINE Seen(v) == {e \in O : e.kind = "edit" /\ Observed(v, e.ts)}
  <2>1. Seen(t.versions) = Seen(s.versions) \cup {op}
    BY <1>4 DEF Changes
  <2>2. ASSUME NEW e \in Seen(t.versions) PROVE Struck(t.text, e) = Struck(s.text, e)
    <3>1. e \in O /\ e.kind = "edit" /\ Informed(O, e) /\ Place(O, e, e.start) /\ Place(O, e, e.end)
      BY DEF AllSound, Sound, Changes
    <3>2. e.versions \in [Replicas -> Nat] /\ e.versions[r] < op.ts[1]
      <4>1. CASE e = op
        BY <1>1, <3>1, <4>1 DEF Informed
      <4>2. CASE Observed(s.versions, e.ts)
        <5>1. e.versions \in [Replicas -> Nat] /\ e.versions[r] <= s.versions[r]
          BY <1>1, <1>2, <3>1, <4>2 DEF Closed, Includes, Informed, Changes
        <5>2. s.versions[r] < op.ts[1] /\ s.versions[r] \in Nat
          BY <1>1, <1>2 DEF Observed
        <5> QED
          BY <1>1, <5>1, <5>2
      <4> QED
        BY <2>1, <4>1, <4>2
    <3>3. ~Observed(e.versions, op.ts)
      BY <1>1, <3>2 DEF Observed
    <3> QED
      BY <1>1, <1>2, <1>3, <3>1, <3>3, DeletedByStays DEF Place, Struck
  <2>3. Deletions(O, t.versions, t.text) =
          UNION {Struck(t.text, e) : e \in Seen(t.versions)}
    BY Zenon DEF Deletions
  <2>4. s.dels = UNION {Struck(s.text, e) : e \in Seen(s.versions)}
    BY Zenon DEF Deletions, Doc
  <2> HIDE DEF Seen
  <2>5. Deletions(O, t.versions, t.text) =
          UNION {Struck(s.text, e) : e \in Seen(t.versions)}
    BY <2>2, <2>3
  <2> QED
    BY <2>1, <2>4, <2>5
<1>13. t.undos = Undoings(O, t.versions)
  <2>1. {u \in O : u.kind = "undo" /\ Observed(t.versions, u.ts)} =
        {u \in O : u.kind = "undo" /\ Observed(s.versions, u.ts)}
    BY <1>4 DEF Changes
  <2> QED
    BY <2>1 DEF Undoings, Doc
<1>14. \A q \in Replicas : t.versions[q] <= t.clock
  <2>1. \A q \in Replicas : s.versions[q] <= s.clock /\ s.versions[q] \in Nat /\ s.clock \in Nat
    BY <1>2 DEF Doc
  <2> QED
    BY <1>1, <1>4, <2>1
<1>15. Tree(O, t.text)
  BY <1>7 DEF Text
<1> QED
  BY <1>4, <1>11, <1>12, <1>13, <1>14, <1>15 DEF Doc

LEMMA DocUndo ==
  ASSUME NEW O, AllSound(O), NEW op \in O, op.kind = "undo", NEW s, Doc(O, s),
         ~Observed(s.versions, op.ts), Includes(s.versions, op.versions),
         NEW t, t.text = s.text, t.dels = s.dels,
         t.undos = s.undos \cup {<<<<v, op.ts[2]>>, op.ts[1]>> : v \in op.edits},
         t.versions = Observe(s.versions, op.ts),
         t.clock \in Nat, s.clock <= t.clock, op.ts[1] <= t.clock
  PROVE  Doc(O, t)
<1> DEFINE r == op.ts[2]
<1>1. r \in Replicas /\ op.ts[1] \in Nat /\ Changes(op)
  BY Timestamps DEF Changes
<1>2. s.versions \in [Replicas -> Nat] /\ Closed(O, s.versions) /\ Complete(O, s.versions, s.text)
  BY DEF Doc, Closed
<1>3. /\ Closed(O, t.versions) /\ Includes(t.versions, s.versions)
      /\ t.versions[r] = op.ts[1]
      /\ \A q \in Replicas : q # r => t.versions[q] = s.versions[q]
      /\ \A y \in O : Changes(y) => (Observed(t.versions, y.ts) <=> Observed(s.versions, y.ts) \/ y = op)
  BY <1>1, <1>2, ObserveFacts
<1>4. t.versions \in [Replicas -> Nat]
  BY <1>3 DEF Closed
<1>5. Complete(O, t.versions, t.text)
  <2>1. ASSUME NEW n \in 1..Len(t.text) PROVE Observed(t.versions, Ts(t.text[n]))
    <3>1. s.text[n] \in Chars /\ Observed(s.versions, Ts(s.text[n]))
      BY <1>2 DEF Complete
    <3>2. Ts(s.text[n])[1] \in Nat /\ Ts(s.text[n])[2] \in 0..N
      BY <3>1, CharFacts
    <3> QED
      BY <1>2, <1>3, <1>4, <3>1, <3>2, ObservedStays
  <2>2. ASSUME NEW e \in O, e.kind = "edit", Observed(t.versions, e.ts) PROVE Observed(s.versions, e.ts)
    BY <1>3, <2>2 DEF Changes
  <2> QED
    BY <1>2, <2>1, <2>2 DEF Complete
<1>6. t.dels = Deletions(O, t.versions, t.text)
  <2>1. {e \in O : e.kind = "edit" /\ Observed(t.versions, e.ts)} =
        {e \in O : e.kind = "edit" /\ Observed(s.versions, e.ts)}
    BY <1>3 DEF Changes
  <2>2. t.dels = Deletions(O, s.versions, t.text)
    BY DEF Doc
  <2> QED
    BY <2>1, <2>2, Zenon DEF Deletions
<1>7. t.undos = Undoings(O, t.versions)
  <2> DEFINE Seen(v) == {u \in O : u.kind = "undo" /\ Observed(v, u.ts)}
             Of(u) == {<<<<v, u.ts[2]>>, u.ts[1]>> : v \in u.edits}
  <2>1. Seen(t.versions) = Seen(s.versions) \cup {op}
    BY <1>3 DEF Changes
  <2>2. s.undos = UNION {Of(u) : u \in Seen(s.versions)}
    BY Zenon DEF Doc, Undoings
  <2>3. Undoings(O, t.versions) = UNION {Of(u) : u \in Seen(t.versions)}
    BY Zenon DEF Undoings
  <2>4. t.undos = s.undos \cup Of(op)
    OBVIOUS
  <2> HIDE DEF Seen, Of
  <2> QED
    BY <2>1, <2>2, <2>3, <2>4
<1>8. \A q \in Replicas : t.versions[q] <= t.clock
  <2>1. \A q \in Replicas : s.versions[q] <= s.clock /\ s.versions[q] \in Nat /\ s.clock \in Nat
    BY <1>2 DEF Doc
  <2> QED
    BY <1>1, <1>3, <2>1
<1> QED
  BY <1>3, <1>5, <1>6, <1>7, <1>8 DEF Doc

\* The clock and what is not part of the text may change.
LEMMA DocClock ==
  ASSUME NEW O, NEW s, Doc(O, s), NEW t, t.text = s.text, t.dels = s.dels, t.undos = s.undos,
         t.versions = s.versions, t.clock \in Nat, s.clock <= t.clock
  PROVE  Doc(O, t)
<1>1. \A q \in Replicas : t.versions[q] <= t.clock
  <2>1. \A q \in Replicas : s.versions[q] <= s.clock /\ s.versions[q] \in Nat /\ s.clock \in Nat
    BY DEF Doc, Closed
  <2> QED
    BY <2>1
<1> QED
  BY <1>1 DEF Doc

\* An operation that a buffer has not observed does not matter to it.
LEMMA DocGrows ==
  ASSUME NEW O, NEW x, NEW s, Doc(O, s), Changes(x) => ~Observed(s.versions, x.ts)
  PROVE  Doc(O \cup {x}, s)
<1> DEFINE P == O \cup {x}
<1>1. \A c : Known(O, c) => Known(P, c)
  BY DEF Known
<1>2. \A v, q : Real(O, v, q) => Real(P, v, q)
  BY DEF Real
<1>3. \A c, d : Behind(O, c, d) => Behind(P, c, d)
  BY DEF Behind
<1>4. Closed(P, s.versions)
  BY <1>2 DEF Doc, Closed
<1>5. Complete(P, s.versions, s.text)
  BY <1>1 DEF Doc, Complete, Changes
<1>6. Tree(P, s.text)
  BY <1>3 DEF Doc, Tree
<1>7. Deletions(P, s.versions, s.text) = Deletions(O, s.versions, s.text)
  <2>1. {e \in P : e.kind = "edit" /\ Observed(s.versions, e.ts)} =
        {e \in O : e.kind = "edit" /\ Observed(s.versions, e.ts)}
    BY DEF Changes
  <2> QED
    BY <2>1, Zenon DEF Deletions
<1>8. Undoings(P, s.versions) = Undoings(O, s.versions)
  <2>1. {u \in P : u.kind = "undo" /\ Observed(s.versions, u.ts)} =
        {u \in O : u.kind = "undo" /\ Observed(s.versions, u.ts)}
    BY DEF Changes
  <2> QED
    BY <2>1, Zenon DEF Undoings
<1> QED
  BY <1>4, <1>5, <1>6, <1>7, <1>8 DEF Doc

\* What an edit deletes, by the places of its ends.
Between(t, e, a, b) == {t[j] : j \in {k \in (a + 1)..b : Observed(e.versions, Ts(t[k]))}}

LEMMA DeletedByPlaces ==
  ASSUME NEW O, NEW t, Text(O, t), NEW e, NEW a \in 1..Len(t), NEW b \in 1..Len(t),
         t[a] = e.start, t[b] = e.end
  PROVE  DeletedBy(t, e) = Between(t, e, a, b)
<1>1. Len(t) \in Nat /\ \A i, j \in 1..Len(t) : t[i] = t[j] => i = j
  BY DEF Text
<1>2. ASSUME NEW k \in 1..Len(t)
      PROVE  (\E i, j \in 1..Len(t) : t[i] = e.start /\ t[j] = e.end /\ i < k /\ k <= j)
               <=> k \in (a + 1)..b
  BY <1>1
<1>3. \A k \in (a + 1)..b : k \in 1..Len(t)
  BY <1>1
<1> QED
  BY <1>2, <1>3 DEF DeletedBy, Between
=============================================================================
