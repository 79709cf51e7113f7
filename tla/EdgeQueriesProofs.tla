-------------------------- MODULE EdgeQueriesProofs --------------------------
(***************************************************************************)
(* What a query returns is what its caller meant, for every choice of the  *)
(* constants and every number of calls.                                    *)
(*                                                                         *)
(* The proof follows the evaluation inwards out.  Kinds are sorted by a    *)
(* key that tells them apart (DenseKeys), so a list in dense order holds   *)
(* each kind once and in order (DenseOrder), and merging two of them       *)
(* intersects them (IntersectionIsExact).  Resolving the sources of an     *)
(* end keeps, at every source, what the lane and the sources so far share  *)
(* (ResolveIsExact), and what a nested query contributes is what running   *)
(* it returns (ResultsUnfold): builders own builders put aside before.     *)
(* EdgeIInv is the inductive invariant: the state is typed, the lanes of   *)
(* the builder are those that were asked for, the mask included, and an    *)
(* answer is that of the query as it stands.                               *)
(***************************************************************************)
EXTENDS EdgeQueries, FiniteSetTheorems, WellFoundedInduction, TLAPS

(* Numbers are well-founded. *)
LEMMA LeastNumber ==
  ASSUME NEW S \in SUBSET Nat, S # {}
  PROVE  \E x \in S : \A y \in S : x <= y
<1> DEFINE R == {r \in Nat \X Nat : r[1] < r[2]}
<1>1. IsWellFoundedOn(R, Nat)
  BY NatLessThanWellFounded DEF OpToRel
<1>2. PICK x \in S : \A y \in S : ~(<<y, x>> \in R)
  <2> HIDE DEF R
  <2> QED BY <1>1, WFMin
<1>3. \A y \in S : x <= y
  <2> TAKE y \in S
  <2>1. x \in Nat /\ y \in Nat
    OBVIOUS
  <2>2. ~(y < x)
    BY <1>2, <2>1
  <2> QED BY <2>1, <2>2
<1> QED BY <1>3

(* Induction over an interval, as a statement about sets: the theorems of
   the library that take a predicate cannot be instantiated.               *)
LEMMA IntervalInduction ==
  ASSUME NEW n \in Nat, NEW S, 0 \in S, \A i \in 0..(n - 1) : i \in S => i + 1 \in S
  PROVE  0..n \subseteq S
<1> DEFINE bad == {i \in 0..n : i \notin S}
<1>1. bad \in SUBSET Nat
  OBVIOUS
<1>2. CASE bad # {}
  <2>1. PICK x \in bad : \A y \in bad : x <= y
    <3> HIDE DEF bad
    <3> QED BY <1>1, <1>2, LeastNumber
  <2>2. x \in 1..n /\ x \notin S
    BY <2>1
  <2>3. x - 1 \in 0..(n - 1) /\ x - 1 \notin bad
    BY <2>1, <2>2
  <2>4. x - 1 \in S
    BY <2>3
  <2>5. (x - 1) + 1 \in S
    BY <2>3, <2>4
  <2> QED BY <2>2, <2>5
<1> QED BY <1>2


(* An injection between finite sets of one size reaches everything. *)
LEMMA InjectionReaches ==
  ASSUME NEW S, NEW n \in Nat, IsFiniteSet(S), Cardinality(S) = n, NEW f \in [S -> 1..n],
         \A a, b \in S : f[a] = f[b] => a = b
  PROVE  \A i \in 1..n : \E a \in S : f[a] = i
<1> DEFINE R == {f[a] : a \in S}
<1>1. f \in Bijection(S, R)
  BY DEF Bijection, Injection, Surjection, IsInjective
<1>2. Cardinality(R) = n
  <2> HIDE DEF R
  <2> QED BY <1>1, FS_Bijection DEF ExistsBijection
<1>3. R \subseteq 1..n
  OBVIOUS
<1>4. IsFiniteSet(1..n) /\ Cardinality(1..n) = n
  BY FS_Interval
<1>5. R = 1..n
  <2> HIDE DEF R
  <2> QED BY <1>2, <1>3, <1>4, FS_Subset
<1> QED BY <1>5

-----------------------------------------------------------------------------
(* Kinds in dense order                                                    *)

SnapshotOK == [key : Keys, kinds : Seq(Kinds), edges : SUBSET (Kinds \X Kinds \X Kinds)]

LEMMA SnapshotTyped ==
  ASSUME at \in DOMAIN Snapshots
  PROVE  snapshot \in SnapshotOK
<1>1. Snapshots \in Seq(SnapshotOK)
  BY EdgeQueryAssumption DEF SnapshotOK
<1> HIDE DEF SnapshotOK
<1> QED BY <1>1 DEF snapshot

(* No two kinds have the same key: those the snapshot knows have their
   place, the others their own number behind all places.                   *)
LEMMA DenseKeys ==
  ASSUME at \in DOMAIN Snapshots
  PROVE  /\ \A k \in Kinds : DenseKey(k) \in Nat
         /\ \A a, b \in Kinds : DenseKey(a) = DenseKey(b) => a = b
<1> DEFINE s == snapshot.kinds
           known(k) == k \in ToSet(s)
<1>1. s \in Seq(Kinds) /\ Len(s) \in Nat /\ DOMAIN s = 1..Len(s) /\ Kinds \subseteq Nat
  BY SnapshotTyped, EdgeQueryAssumption DEF SnapshotOK
<1>2. ASSUME NEW k \in Kinds, known(k)
      PROVE  DenseKey(k) \in 1..Len(s) /\ s[DenseKey(k)] = k
  <2>1. \E i \in DOMAIN s : s[i] = k
    BY <1>2 DEF ToSet
  <2>2. DenseKey(k) = CHOOSE i \in DOMAIN s : s[i] = k
    BY <1>2 DEF DenseKey
  <2> HIDE DEF s
  <2> QED BY <1>1, <2>1, <2>2
<1>3. ASSUME NEW k \in Kinds, ~known(k)
      PROVE  DenseKey(k) = Len(s) + 1 + k
  BY <1>3 DEF DenseKey
<1>4. \A k \in Kinds : DenseKey(k) \in Nat
  <2> TAKE k \in Kinds
  <2> HIDE DEF s
  <2>1. CASE known(k)
    BY <1>1, <1>2, <2>1
  <2>2. CASE ~known(k)
    BY <1>1, <1>3, <2>2
  <2> QED BY <2>1, <2>2
<1>5. ASSUME NEW a \in Kinds, NEW b \in Kinds, DenseKey(a) = DenseKey(b) PROVE a = b
  <2>0. a \in Nat /\ b \in Nat
    BY <1>1
  <2> HIDE DEF known
  <2>1. CASE known(a) /\ known(b)
    BY <1>2, <1>5, <2>1
  <2>2. CASE ~known(a) /\ ~known(b)
    <3> HIDE DEF s
    <3> QED BY <1>1, <1>3, <1>5, <2>0, <2>2
  <2>3. CASE known(a) /\ ~known(b)
    <3> HIDE DEF s
    <3>1. DenseKey(a) \in 1..Len(s) /\ DenseKey(b) = Len(s) + 1 + b
      BY <1>2, <1>3, <2>3
    <3> QED BY <1>1, <1>5, <2>0, <3>1
  <2>4. CASE ~known(a) /\ known(b)
    <3> HIDE DEF s
    <3>1. DenseKey(b) \in 1..Len(s) /\ DenseKey(a) = Len(s) + 1 + a
      BY <1>2, <1>3, <2>4
    <3> QED BY <1>1, <1>5, <2>0, <3>1
  <2> QED BY <2>1, <2>2, <2>3, <2>4
<1> QED BY <1>4, <1>5

Before(S, k) == {j \in S : DenseKey(j) < DenseKey(k)}

(* A set of kinds as a list in dense order. *)
IsDenseOrder(s, S) ==
  /\ s \in Seq(S)
  /\ \A k \in S : \E i \in 1..Len(s) : s[i] = k
  /\ \A i, j \in 1..Len(s) : i < j => DenseKey(s[i]) < DenseKey(s[j])

LEMMA RanksOrder ==
  ASSUME at \in DOMAIN Snapshots, NEW S \in SUBSET Kinds
  PROVE  /\ IsFiniteSet(S) /\ Cardinality(S) \in Nat
         /\ \A k \in S : Cardinality(Before(S, k)) \in 0..(Cardinality(S) - 1)
         /\ \A a, b \in S : DenseKey(a) < DenseKey(b) =>
              Cardinality(Before(S, a)) < Cardinality(Before(S, b))
<1>0. \A k \in S : DenseKey(k) \in Nat
  BY DenseKeys
<1>1. IsFiniteSet(S) /\ Cardinality(S) \in Nat
  BY EdgeQueryAssumption, FS_Subset, FS_CardinalityType
<1>2. ASSUME NEW T \in SUBSET S, NEW k \in S \ T
      PROVE  IsFiniteSet(T) /\ Cardinality(T) \in 0..(Cardinality(S) - 1)
  <2>1. IsFiniteSet(T) /\ Cardinality(T) <= Cardinality(S) /\ Cardinality(T) # Cardinality(S)
    BY <1>1, <1>2, FS_Subset
  <2>2. Cardinality(T) \in Nat
    BY <2>1, FS_CardinalityType
  <2> QED BY <1>1, <2>1, <2>2
<1>3. ASSUME NEW k \in S
      PROVE  /\ Before(S, k) \in SUBSET S /\ k \in S \ Before(S, k)
             /\ IsFiniteSet(Before(S, k)) /\ Cardinality(Before(S, k)) \in 0..(Cardinality(S) - 1)
  <2>1. Before(S, k) \in SUBSET S /\ k \in S \ Before(S, k)
    BY <1>0 DEF Before
  <2> QED BY <1>2, <2>1
<1>4. ASSUME NEW a \in S, NEW b \in S, DenseKey(a) < DenseKey(b)
      PROVE  Cardinality(Before(S, a)) < Cardinality(Before(S, b))
  <2>1. Before(S, a) \subseteq Before(S, b) /\ a \in Before(S, b) /\ a \notin Before(S, a)
    BY <1>0, <1>4 DEF Before
  <2>2. /\ Cardinality(Before(S, a)) <= Cardinality(Before(S, b))
        /\ Cardinality(Before(S, a)) # Cardinality(Before(S, b))
    BY <1>3, <2>1, FS_Subset
  <2>3. Cardinality(Before(S, a)) \in Nat /\ Cardinality(Before(S, b)) \in Nat
    BY <1>3, FS_CardinalityType
  <2> QED BY <2>2, <2>3
<1> QED BY <1>1, <1>3, <1>4

(* dedup_sorted_kinds: every kind of the set, once and in order. *)
LEMMA DenseOrder ==
  ASSUME at \in DOMAIN Snapshots, NEW S \in SUBSET Kinds
  PROVE  IsDenseOrder(InDenseOrder(S), S)
<1> DEFINE n == Cardinality(S)
           rank == [k \in S |-> Cardinality(Before(S, k)) + 1]
           s == InDenseOrder(S)
<1>0. \A k \in S : DenseKey(k) \in Nat
  BY DenseKeys
<1>1. /\ IsFiniteSet(S) /\ n \in Nat
      /\ \A k \in S : Cardinality(Before(S, k)) \in 0..(n - 1)
      /\ \A a, b \in S : DenseKey(a) < DenseKey(b) =>
           Cardinality(Before(S, a)) < Cardinality(Before(S, b))
  BY RanksOrder
<1>2. rank \in [S -> 1..n]
  <2> SUFFICES ASSUME NEW k \in S PROVE Cardinality(Before(S, k)) + 1 \in 1..n
    OBVIOUS
  <2> HIDE DEF n
  <2> QED BY <1>1
<1>3. \A a, b \in S : rank[a] < rank[b] => DenseKey(a) < DenseKey(b)
  <2> SUFFICES ASSUME NEW a \in S, NEW b \in S, rank[a] < rank[b]
               PROVE  DenseKey(a) < DenseKey(b)
    OBVIOUS
  <2>1. Cardinality(Before(S, a)) < Cardinality(Before(S, b))
    <3>1. Cardinality(Before(S, a)) \in Int /\ Cardinality(Before(S, b)) \in Int
      <4> HIDE DEF n
      <4> QED BY <1>1
    <3> QED BY <3>1
  <2>2. CASE DenseKey(a) = DenseKey(b)
    <3>1. a = b
      BY <2>2, DenseKeys
    <3>2. Cardinality(Before(S, a)) \in Int
      <4> HIDE DEF n
      <4> QED BY <1>1
    <3> QED BY <2>1, <3>1, <3>2
  <2>3. CASE DenseKey(b) < DenseKey(a)
    <3>1. Cardinality(Before(S, b)) < Cardinality(Before(S, a))
      BY <1>1, <2>3
    <3>2. Cardinality(Before(S, a)) \in Int /\ Cardinality(Before(S, b)) \in Int
      <4> HIDE DEF n
      <4> QED BY <1>1
    <3> QED BY <2>1, <3>1, <3>2
  <2> QED BY <1>0, <2>2, <2>3
<1>4. \A a, b \in S : rank[a] = rank[b] => a = b
  <2> SUFFICES ASSUME NEW a \in S, NEW b \in S, rank[a] = rank[b] PROVE a = b
    OBVIOUS
  <2>1. Cardinality(Before(S, a)) = Cardinality(Before(S, b))
    <3>1. Cardinality(Before(S, a)) \in Int /\ Cardinality(Before(S, b)) \in Int
      <4> HIDE DEF n
      <4> QED BY <1>1
    <3> QED BY <3>1
  <2>2. ~(DenseKey(a) < DenseKey(b)) /\ ~(DenseKey(b) < DenseKey(a))
    <3>1. Cardinality(Before(S, a)) \in Int /\ Cardinality(Before(S, b)) \in Int
      <4> HIDE DEF n
      <4> QED BY <1>1
    <3>2. ~(Cardinality(Before(S, a)) < Cardinality(Before(S, b)))
      BY <2>1, <3>1
    <3>3. ~(Cardinality(Before(S, b)) < Cardinality(Before(S, a)))
      BY <2>1, <3>1
    <3> QED BY <1>1, <3>2, <3>3
  <2> QED BY <1>0, <2>2, DenseKeys
<1>5. \A i \in 1..n : \E k \in S : rank[k] = i
  <2> HIDE DEF rank
  <2> QED BY <1>1, <1>2, <1>4, InjectionReaches
<1>6. s = [i \in 1..n |-> CHOOSE k \in S : Cardinality(Before(S, k)) = i - 1]
  BY DEF InDenseOrder, Before
<1>7. ASSUME NEW i \in 1..n PROVE s[i] \in S /\ rank[s[i]] = i
  <2>1. \E k \in S : Cardinality(Before(S, k)) = i - 1
    <3>1. PICK k \in S : rank[k] = i
      BY <1>5
    <3>2. Cardinality(Before(S, k)) \in Int /\ i \in Int
      <4> HIDE DEF n
      <4> QED BY <1>1
    <3> QED BY <3>1, <3>2
  <2>2. s[i] \in S /\ Cardinality(Before(S, s[i])) = i - 1
    <3> HIDE DEF n
    <3> QED BY <1>6, <2>1
  <2> QED BY <1>1, <2>2
<1>8. s \in Seq(S) /\ Len(s) = n
  <2> HIDE DEF s, n
  <2>1. DOMAIN s = 1..n /\ s \in [1..n -> S]
    BY <1>6, <1>7
  <2> QED BY <1>1, <2>1
<1>9. \A k \in S : \E i \in 1..Len(s) : s[i] = k
  <2> SUFFICES ASSUME NEW k \in S PROVE \E i \in 1..n : s[i] = k
    BY <1>8
  <2>1. rank[k] \in 1..n
    BY <1>2
  <2>2. s[rank[k]] \in S /\ rank[s[rank[k]]] = rank[k]
    BY <1>7, <2>1
  <2>3. s[rank[k]] = k
    <3> HIDE DEF rank, s
    <3> QED BY <1>4, <2>2
  <2> QED BY <2>1, <2>3
<1>10. \A i, j \in 1..Len(s) : i < j => DenseKey(s[i]) < DenseKey(s[j])
  <2> HIDE DEF rank, s, n
  <2> QED BY <1>3, <1>7, <1>8
<1> QED
  <2> HIDE DEF rank, s, n
  <2> QED BY <1>8, <1>9, <1>10 DEF IsDenseOrder, s

-----------------------------------------------------------------------------
(* The merge                                                               *)

(* What a list holds from a place on. *)
Rest(s, i) == {s[x] : x \in i..Len(s)}

Indices(left, right) == (1..(Len(left) + 1)) \X (1..(Len(right) + 1))

(* The recursion of Merge. *)
MergeAt(left, right, f, i, j) ==
  IF i > Len(left) \/ j > Len(right) THEN {}
  ELSE IF DenseKey(left[i]) < DenseKey(right[j]) THEN f[<<i + 1, j>>]
  ELSE IF DenseKey(left[i]) > DenseKey(right[j]) THEN f[<<i, j + 1>>]
  ELSE {left[i]} \cup f[<<i + 1, j + 1>>]
IsMerge(left, right, f) == f = [p \in Indices(left, right) |-> MergeAt(left, right, f, p[1], p[2])]

LEMMA DenseListHolds ==
  ASSUME NEW S, NEW s, IsDenseOrder(s, S)
  PROVE  /\ s \in Seq(S) /\ Len(s) \in Nat /\ \A x \in 1..Len(s) : s[x] \in S
         /\ Rest(s, 1) = S
<1>1. s \in Seq(S)
  BY DEF IsDenseOrder
<1>2. Len(s) \in Nat /\ \A x \in 1..Len(s) : s[x] \in S
  BY <1>1
<1>3. \A k \in S : \E x \in 1..Len(s) : s[x] = k
  BY DEF IsDenseOrder
<1>4. Rest(s, 1) = S
  BY <1>2, <1>3 DEF Rest
<1> QED BY <1>1, <1>2, <1>4

LEMMA RestUnfolds ==
  ASSUME at \in DOMAIN Snapshots, NEW S \in SUBSET Kinds, NEW s, IsDenseOrder(s, S), NEW i \in 1..Len(s)
  PROVE  /\ s[i] \in Kinds /\ DenseKey(s[i]) \in Nat
         /\ Rest(s, i) = {s[i]} \cup Rest(s, i + 1)
         /\ \A k \in Rest(s, i) : k \in Kinds /\ DenseKey(k) \in Nat /\ DenseKey(s[i]) <= DenseKey(k)
         /\ \A k \in Rest(s, i + 1) : DenseKey(s[i]) < DenseKey(k)
<1>1. s \in Seq(S) /\ Len(s) \in Nat /\ \A x \in 1..Len(s) : s[x] \in S
  BY DenseListHolds
<1>2. \A x \in 1..Len(s) : s[x] \in Kinds /\ DenseKey(s[x]) \in Nat
  BY <1>1, DenseKeys
<1>3. i..Len(s) = {i} \cup (i + 1)..Len(s) /\ i..Len(s) \subseteq 1..Len(s)
  BY <1>1
<1>4. Rest(s, i) = {s[i]} \cup Rest(s, i + 1)
  BY <1>3 DEF Rest
<1>5. ASSUME NEW k \in Rest(s, i + 1)
      PROVE  k \in Kinds /\ DenseKey(k) \in Nat /\ DenseKey(s[i]) < DenseKey(k)
  <2>1. PICK x \in (i + 1)..Len(s) : k = s[x]
    BY DEF Rest
  <2>2. x \in 1..Len(s) /\ i < x
    BY <1>1, <2>1
  <2>3. DenseKey(s[i]) < DenseKey(s[x])
    BY <2>2 DEF IsDenseOrder
  <2> QED BY <1>2, <2>1, <2>2, <2>3
<1>6. ASSUME NEW k \in Rest(s, i)
      PROVE  k \in Kinds /\ DenseKey(k) \in Nat /\ DenseKey(s[i]) <= DenseKey(k)
  <2>1. CASE k = s[i]
    BY <1>2, <2>1
  <2>2. CASE k \in Rest(s, i + 1)
    <3>1. DenseKey(s[i]) \in Nat
      BY <1>2
    <3> QED BY <1>5, <2>2, <3>1
  <2> QED BY <1>4, <2>1, <2>2
<1> QED BY <1>2, <1>4, <1>5, <1>6

(* What the rests of two lists share follows the recursion. *)
LEMMA SharedUnfolds ==
  ASSUME at \in DOMAIN Snapshots, NEW S \in SUBSET Kinds, NEW R \in SUBSET Kinds,
         NEW left, IsDenseOrder(left, S), NEW right, IsDenseOrder(right, R),
         NEW i \in 1..Len(left), NEW j \in 1..Len(right)
  PROVE  LET shared(x, y) == Rest(left, x) \cap Rest(right, y)
         IN /\ DenseKey(left[i]) < DenseKey(right[j]) => shared(i, j) = shared(i + 1, j)
            /\ DenseKey(left[i]) > DenseKey(right[j]) => shared(i, j) = shared(i, j + 1)
            /\ ~(DenseKey(left[i]) < DenseKey(right[j])) /\ ~(DenseKey(left[i]) > DenseKey(right[j])) =>
                 shared(i, j) = {left[i]} \cup shared(i + 1, j + 1)
<1>1. /\ left[i] \in Kinds /\ DenseKey(left[i]) \in Nat
      /\ Rest(left, i) = {left[i]} \cup Rest(left, i + 1)
      /\ \A k \in Rest(left, i) : k \in Kinds /\ DenseKey(k) \in Nat /\ DenseKey(left[i]) <= DenseKey(k)
      /\ \A k \in Rest(left, i + 1) : DenseKey(left[i]) < DenseKey(k)
  BY RestUnfolds
<1>2. /\ right[j] \in Kinds /\ DenseKey(right[j]) \in Nat
      /\ Rest(right, j) = {right[j]} \cup Rest(right, j + 1)
      /\ \A k \in Rest(right, j) : k \in Kinds /\ DenseKey(k) \in Nat /\ DenseKey(right[j]) <= DenseKey(k)
      /\ \A k \in Rest(right, j + 1) : DenseKey(right[j]) < DenseKey(k)
  BY RestUnfolds
<1>3. ASSUME DenseKey(left[i]) < DenseKey(right[j]) PROVE left[i] \notin Rest(right, j)
  BY <1>1, <1>2, <1>3
<1>4. ASSUME DenseKey(left[i]) > DenseKey(right[j]) PROVE right[j] \notin Rest(left, i)
  BY <1>1, <1>2, <1>4
<1>5. ASSUME ~(DenseKey(left[i]) < DenseKey(right[j])), ~(DenseKey(left[i]) > DenseKey(right[j]))
      PROVE  left[i] = right[j] /\ left[i] \notin Rest(left, i + 1) /\ left[i] \notin Rest(right, j + 1)
  <2>1. DenseKey(left[i]) = DenseKey(right[j])
    BY <1>1, <1>2, <1>5
  <2>2. left[i] = right[j]
    BY <1>1, <1>2, <2>1, DenseKeys
  <2> QED BY <1>1, <1>2, <2>2
<1> QED BY <1>1, <1>2, <1>3, <1>4, <1>5

LEMMA SharedIsMerge ==
  ASSUME at \in DOMAIN Snapshots, NEW S \in SUBSET Kinds, NEW R \in SUBSET Kinds,
         NEW left, IsDenseOrder(left, S), NEW right, IsDenseOrder(right, R)
  PROVE  IsMerge(left, right,
                 [p \in Indices(left, right) |-> Rest(left, p[1]) \cap Rest(right, p[2])])
<1> DEFINE f == [p \in Indices(left, right) |-> Rest(left, p[1]) \cap Rest(right, p[2])]
<1>1. Len(left) \in Nat /\ Len(right) \in Nat
  BY DEF IsDenseOrder
<1>2. \A i \in 1..(Len(left) + 1), j \in 1..(Len(right) + 1) :
        <<i, j>> \in Indices(left, right) /\ f[<<i, j>>] = Rest(left, i) \cap Rest(right, j)
  BY DEF Indices
<1>3. ASSUME NEW i \in 1..(Len(left) + 1), NEW j \in 1..(Len(right) + 1)
      PROVE  Rest(left, i) \cap Rest(right, j) = MergeAt(left, right, f, i, j)
  <2> HIDE DEF f
  <2>1. CASE i > Len(left)
    <3>1. i..Len(left) = {}
      BY <1>1, <2>1
    <3> QED BY <2>1, <3>1 DEF Rest, MergeAt
  <2>2. CASE j > Len(right)
    <3>1. j..Len(right) = {}
      BY <1>1, <2>2
    <3> QED BY <2>2, <3>1 DEF Rest, MergeAt
  <2>3. CASE ~(i > Len(left)) /\ ~(j > Len(right))
    <3>1. i \in 1..Len(left) /\ j \in 1..Len(right)
      BY <1>1, <2>3
    <3>2. i + 1 \in 1..(Len(left) + 1) /\ j + 1 \in 1..(Len(right) + 1)
      BY <1>1, <3>1
    <3>3. /\ f[<<i + 1, j>>] = Rest(left, i + 1) \cap Rest(right, j)
          /\ f[<<i, j + 1>>] = Rest(left, i) \cap Rest(right, j + 1)
          /\ f[<<i + 1, j + 1>>] = Rest(left, i + 1) \cap Rest(right, j + 1)
      BY <1>2, <3>2
    <3>4. /\ DenseKey(left[i]) < DenseKey(right[j]) =>
               Rest(left, i) \cap Rest(right, j) = Rest(left, i + 1) \cap Rest(right, j)
          /\ DenseKey(left[i]) > DenseKey(right[j]) =>
               Rest(left, i) \cap Rest(right, j) = Rest(left, i) \cap Rest(right, j + 1)
          /\ ~(DenseKey(left[i]) < DenseKey(right[j])) /\ ~(DenseKey(left[i]) > DenseKey(right[j])) =>
               Rest(left, i) \cap Rest(right, j) = {left[i]} \cup (Rest(left, i + 1) \cap Rest(right, j + 1))
      BY <3>1, SharedUnfolds
    <3> QED BY <2>3, <3>3, <3>4 DEF MergeAt
  <2> QED BY <2>1, <2>2, <2>3
<1>4. \A p \in Indices(left, right) : f[p] = MergeAt(left, right, f, p[1], p[2])
  <2> TAKE p \in Indices(left, right)
  <2>1. p[1] \in 1..(Len(left) + 1) /\ p[2] \in 1..(Len(right) + 1)
    BY DEF Indices
  <2>2. f[p] = Rest(left, p[1]) \cap Rest(right, p[2])
    OBVIOUS
  <2> HIDE DEF f
  <2> QED BY <1>3, <2>1, <2>2
<1>5. f = [p \in Indices(left, right) |-> f[p]]
  OBVIOUS
<1>6. IsMerge(left, right, f)
  <2> HIDE DEF f
  <2> QED BY <1>4, <1>5 DEF IsMerge
<1> QED BY <1>6

(* What the merge has left to do. *)
LeftOver(left, right, p) == (Len(left) + 1 - p[1]) + (Len(right) + 1 - p[2])

LEMMA MergeMeasure ==
  ASSUME NEW a \in Nat, NEW b \in Nat, NEW i \in 1..(a + 1), NEW j \in 1..(b + 1)
  PROVE  /\ (a + 1 - i) + (b + 1 - j) \in 0..(a + b)
         /\ (a + 1 - i) + (b + 1 - j) = 0 => i > a
         /\ ~(i > a) /\ ~(j > b) =>
              \A x \in {i, i + 1}, y \in {j, j + 1} : x # i \/ y # j =>
                /\ x \in 1..(a + 1) /\ y \in 1..(b + 1)
                /\ (a + 1 - x) + (b + 1 - y) < (a + 1 - i) + (b + 1 - j)
OBVIOUS

LEMMA MergeDetermined ==
  ASSUME NEW S, NEW R, NEW left \in Seq(S), NEW right \in Seq(R),
         NEW f, IsMerge(left, right, f), NEW g, IsMerge(left, right, g)
  PROVE  f = g
<1> DEFINE D == Indices(left, right)
           n == Len(left) + Len(right)
           done == {m \in 0..n : \A p \in D : LeftOver(left, right, p) <= m => f[p] = g[p]}
<1>1. Len(left) \in Nat /\ Len(right) \in Nat /\ n \in Nat
  OBVIOUS
<1>2. \A p \in D : /\ f[p] = MergeAt(left, right, f, p[1], p[2])
                   /\ g[p] = MergeAt(left, right, g, p[1], p[2])
  BY DEF IsMerge
<1>3. ASSUME NEW p \in D
      PROVE  /\ p[1] \in 1..(Len(left) + 1) /\ p[2] \in 1..(Len(right) + 1)
             /\ LeftOver(left, right, p) \in 0..n
             /\ p[1] > Len(left) \/ p[2] > Len(right) => f[p] = g[p]
             /\ LeftOver(left, right, p) = 0 => f[p] = g[p]
  <2>1. p[1] \in 1..(Len(left) + 1) /\ p[2] \in 1..(Len(right) + 1)
    BY DEF Indices
  <2>2. LeftOver(left, right, p) \in 0..n
    BY <1>1, <2>1, MergeMeasure DEF LeftOver
  <2>3. p[1] > Len(left) \/ p[2] > Len(right) => f[p] = g[p]
    BY <1>2 DEF MergeAt
  <2>4. LeftOver(left, right, p) = 0 => p[1] > Len(left)
    BY <1>1, <2>1, MergeMeasure DEF LeftOver
  <2> QED BY <2>1, <2>2, <2>3, <2>4
<1>4. 0 \in done
  <2>1. \A p \in D : LeftOver(left, right, p) <= 0 => f[p] = g[p]
    <3> TAKE p \in D
    <3> HAVE LeftOver(left, right, p) <= 0
    <3>1. LeftOver(left, right, p) = 0
      <4> HIDE DEF n
      <4> QED BY <1>1, <1>3
    <3> QED BY <1>3, <3>1
  <2> QED BY <1>1, <2>1
<1>5. ASSUME NEW m \in 0..(n - 1), m \in done PROVE m + 1 \in done
  <2>1. ASSUME NEW p \in D, LeftOver(left, right, p) <= m + 1 PROVE f[p] = g[p]
    <3>1. CASE p[1] > Len(left) \/ p[2] > Len(right)
      BY <1>3, <3>1
    <3>2. CASE ~(p[1] > Len(left)) /\ ~(p[2] > Len(right))
      <4>1. \A x \in {p[1], p[1] + 1}, y \in {p[2], p[2] + 1} : x # p[1] \/ y # p[2] =>
              /\ x \in 1..(Len(left) + 1) /\ y \in 1..(Len(right) + 1)
              /\ (Len(left) + 1 - x) + (Len(right) + 1 - y) < LeftOver(left, right, p)
        BY <1>1, <1>3, <3>2, MergeMeasure DEF LeftOver
      <4>2. \A x \in {p[1], p[1] + 1}, y \in {p[2], p[2] + 1} :
              x # p[1] \/ y # p[2] => <<x, y>> \in D /\ LeftOver(left, right, <<x, y>>) <= m
        <5> TAKE x \in {p[1], p[1] + 1}, y \in {p[2], p[2] + 1}
        <5> HAVE x # p[1] \/ y # p[2]
        <5>1. /\ x \in 1..(Len(left) + 1) /\ y \in 1..(Len(right) + 1)
              /\ LeftOver(left, right, <<x, y>>) < LeftOver(left, right, p)
          BY <4>1 DEF LeftOver
        <5>2. <<x, y>> \in D
          BY <5>1 DEF Indices
        <5>3. LeftOver(left, right, <<x, y>>) \in Int /\ LeftOver(left, right, p) \in Int /\ m \in Int
          <6> HIDE DEF D, n
          <6> QED BY <1>1, <1>3, <2>1, <5>2
        <5> QED BY <2>1, <5>1, <5>2, <5>3
      <4>3. \A x \in {p[1], p[1] + 1}, y \in {p[2], p[2] + 1} :
              x # p[1] \/ y # p[2] => f[<<x, y>>] = g[<<x, y>>]
        BY <1>5, <4>2
      <4>4. p[1] + 1 # p[1] /\ p[2] + 1 # p[2]
        BY <1>3
      <4>5. /\ f[<<p[1] + 1, p[2]>>] = g[<<p[1] + 1, p[2]>>]
            /\ f[<<p[1], p[2] + 1>>] = g[<<p[1], p[2] + 1>>]
            /\ f[<<p[1] + 1, p[2] + 1>>] = g[<<p[1] + 1, p[2] + 1>>]
        BY <4>3, <4>4
      <4>6. MergeAt(left, right, f, p[1], p[2]) = MergeAt(left, right, g, p[1], p[2])
        BY <4>5 DEF MergeAt
      <4> QED BY <1>2, <4>6
    <3> QED BY <3>1, <3>2
  <2>2. m + 1 \in 0..n
    BY <1>1
  <2> QED BY <2>1, <2>2
<1>6. 0..n \subseteq done
  <2> HIDE DEF done, n
  <2> QED BY <1>1, <1>4, <1>5, IntervalInduction
<1>7. \A p \in D : f[p] = g[p]
  <2> TAKE p \in D
  <2>1. LeftOver(left, right, p) \in 0..n
    BY <1>3
  <2>2. LeftOver(left, right, p) \in done
    BY <1>6, <2>1
  <2>3. LeftOver(left, right, p) <= LeftOver(left, right, p)
    <3> HIDE DEF n
    <3> QED BY <1>1, <2>1
  <2> QED BY <2>2, <2>3
<1>8. f = [p \in D |-> f[p]] /\ g = [p \in D |-> g[p]]
  BY DEF IsMerge
<1> QED BY <1>7, <1>8

(* intersect_kind_sets intersects, for kinds in dense order. *)
LEMMA IntersectionIsExact ==
  ASSUME at \in DOMAIN Snapshots, NEW S \in SUBSET Kinds, NEW R \in SUBSET Kinds
  PROVE  Intersect(S, R) = S \cap R
<1> DEFINE left == InDenseOrder(S)
           right == InDenseOrder(R)
           g == [p \in Indices(left, right) |-> Rest(left, p[1]) \cap Rest(right, p[2])]
<1>1. IsDenseOrder(left, S) /\ IsDenseOrder(right, R)
  BY DenseOrder
<1>2. left \in Seq(S) /\ right \in Seq(R) /\ Len(left) \in Nat /\ Len(right) \in Nat
  <2> HIDE DEF left, right
  <2> QED BY <1>1 DEF IsDenseOrder
<1>3. IsMerge(left, right, g)
  <2> HIDE DEF left, right
  <2> QED BY <1>1, SharedIsMerge
<1>4. \A f : IsMerge(left, right, f) => f = g
  <2> HIDE DEF left, right, g
  <2> QED BY <1>2, <1>3, MergeDetermined
<1>5. Merge(left, right) = g[<<1, 1>>]
  <2>1. (CHOOSE f : IsMerge(left, right, f)) = g
    <3> HIDE DEF left, right, g
    <3> QED BY <1>3, <1>4
  <2>2. Merge(left, right) = (CHOOSE f : IsMerge(left, right, f))[<<1, 1>>]
    <3> HIDE DEF left, right, g
    <3> QED BY DEF Merge, IsMerge, MergeAt, Indices
  <2> QED BY <2>1, <2>2
<1>6. g[<<1, 1>>] = Rest(left, 1) \cap Rest(right, 1)
  <2>1. <<1, 1>> \in Indices(left, right)
    <3> HIDE DEF left, right
    <3> QED BY <1>2 DEF Indices
  <2> QED BY <2>1
<1>7. Rest(left, 1) = S /\ Rest(right, 1) = R
  <2> HIDE DEF left, right
  <2> QED BY <1>1, DenseListHolds
<1> QED BY <1>5, <1>6, <1>7 DEF Intersect

-----------------------------------------------------------------------------
(* Resolving the sources of an end                                         *)

Unfiltered(direct) == [fault |-> "Ok", set |-> IF direct = {} THEN AnyKind ELSE direct]
IsResolving(direct, values, n, f) ==
  f = [i \in 0..n |-> IF i = 0 THEN Unfiltered(direct) ELSE NextSource(f[i - 1], values[i])]

LEMMA ResolvingExists ==
  ASSUME NEW direct, NEW values, NEW n \in Nat
  PROVE  \E f : IsResolving(direct, values, n, f)
<1> DEFINE S == {i \in 0..n : \E f : IsResolving(direct, values, i, f)}
<1>1. 0 \in S
  <2> DEFINE f == [i \in 0..0 |-> Unfiltered(direct)]
  <2>1. IsResolving(direct, values, 0, f)
    BY DEF IsResolving
  <2> QED BY <2>1
<1>2. ASSUME NEW i \in 0..(n - 1), i \in S PROVE i + 1 \in S
  <2>1. PICK f : IsResolving(direct, values, i, f)
    BY <1>2
  <2> DEFINE g == [j \in 0..(i + 1) |-> IF j = i + 1 THEN NextSource(f[i], values[i + 1]) ELSE f[j]]
  <2>2. \A j \in 0..i : f[j] = IF j = 0 THEN Unfiltered(direct) ELSE NextSource(f[j - 1], values[j])
    BY <2>1 DEF IsResolving
  <2>3. ASSUME NEW j \in 0..(i + 1)
        PROVE  g[j] = IF j = 0 THEN Unfiltered(direct) ELSE NextSource(g[j - 1], values[j])
    <3>1. CASE j = i + 1
      BY <3>1, <1>2
    <3>2. CASE j # i + 1
      <4>1. j \in 0..i /\ (j # 0 => j - 1 \in 0..i)
        BY <3>2, <1>2
      <4>2. g[j] = f[j] /\ (j # 0 => g[j - 1] = f[j - 1])
        BY <4>1
      <4> QED BY <2>2, <4>1, <4>2
    <3> QED BY <3>1, <3>2
  <2>4. IsResolving(direct, values, i + 1, g)
    <3>1. g = [j \in 0..(i + 1) |-> g[j]]
      OBVIOUS
    <3> HIDE DEF g
    <3> QED BY <2>3, <3>1 DEF IsResolving
  <2>5. i + 1 \in 0..n
    OBVIOUS
  <2> HIDE DEF g
  <2> QED BY <2>4, <2>5
<1>3. 0..n \subseteq S
  <2> HIDE DEF S
  <2> QED BY <1>1, <1>2, IntervalInduction
<1> QED BY <1>3

LEMMA ResolveUnfolds ==
  ASSUME NEW direct, NEW values, NEW n \in Nat, Len(values) = n
  PROVE  \E f : IsResolving(direct, values, n, f) /\ Resolve(direct, values) = f[n]
<1>1. \E f : IsResolving(direct, values, n, f)
  BY ResolvingExists
<1>2. Resolve(direct, values) = (CHOOSE f : IsResolving(direct, values, n, f))[n]
  BY DEF Resolve, IsResolving, Unfiltered
<1> QED BY <1>1, <1>2

(* The loop gets to a source: those in front of it have no fault and leave
   a kind.                                                                 *)
Reached(direct, values, offered, i) ==
  /\ \A j \in 1..(i - 1) : values[j].fault = "Ok"
  /\ i > 1 => \E k \in Kinds : (direct = {} \/ k \in direct) /\ \A j \in 1..(i - 1) : k \in offered[j]

(* What the loop over the sources has after some of them: what the lane and
   these sources share, as offered by each, or the first fault.            *)
SoFar(direct, values, offered, i, current) ==
  /\ current.fault = "Ok" =>
       /\ current.set = AnyKind \/ current.set \in SUBSET Kinds
       /\ \A k \in Kinds :
            KindMatches(current.set, k) <=>
              (direct = {} \/ k \in direct) /\ \A j \in 1..i : k \in offered[j]
       /\ current.set # {} => \A j \in 1..i : values[j].fault = "Ok"
       /\ current.set = {} => i > 0
       /\ current.set = AnyKind => i = 0
       /\ \A j \in 1..i : values[j].fault # "Ok" => ~Reached(direct, values, offered, j)
  /\ current.fault # "Ok" =>
       \E j \in 1..i : values[j].fault = current.fault /\ Reached(direct, values, offered, j)

LEMMA NextSourceIsExact ==
  ASSUME at \in DOMAIN Snapshots, NEW direct, NEW values, NEW offered, NEW i \in Nat,
         values[i + 1].fault = "Ok" => /\ values[i + 1].set \in SUBSET Kinds
                                       /\ values[i + 1].set = offered[i + 1],
         NEW current, SoFar(direct, values, offered, i, current)
  PROVE  SoFar(direct, values, offered, i + 1, NextSource(current, values[i + 1]))
<1> DEFINE value == values[i + 1]
           next == NextSource(current, value)
<1>0. 1..(i + 1) = 1..i \cup {i + 1} /\ 1..((i + 1) - 1) = 1..i
  OBVIOUS
<1>1. {} # AnyKind /\ \A S \in SUBSET Kinds : S # AnyKind
  BY EdgeQueryAssumption
<1>2. CASE current.fault # "Ok"
  <2>1. next = current
    BY <1>2 DEF NextSource
  <2>2. \E j \in 1..i : values[j].fault = current.fault /\ Reached(direct, values, offered, j)
    BY <1>2 DEF SoFar
  <2> QED BY <1>0, <1>2, <2>1, <2>2 DEF SoFar
<1>3. CASE current.fault = "Ok" /\ current.set = {}
  <2>1. next = current
    BY <1>3 DEF NextSource
  <2>2. \A k \in Kinds : ~KindMatches(current.set, k)
    BY <1>1, <1>3 DEF KindMatches
  <2>3. \A k \in Kinds : ~((direct = {} \/ k \in direct) /\ \A j \in 1..i : k \in offered[j])
    BY <1>3, <2>2 DEF SoFar
  <2>4. \A k \in Kinds : ~((direct = {} \/ k \in direct) /\ \A j \in 1..(i + 1) : k \in offered[j])
    BY <1>0, <2>3
  <2>5. i > 0 /\ \A j \in 1..i : values[j].fault # "Ok" => ~Reached(direct, values, offered, j)
    BY <1>3 DEF SoFar
  <2>6. ~Reached(direct, values, offered, i + 1)
    BY <1>0, <2>3, <2>5 DEF Reached
  <2>7. \A j \in 1..(i + 1) : values[j].fault # "Ok" => ~Reached(direct, values, offered, j)
    BY <1>0, <2>5, <2>6
  <2>8. current.set # AnyKind
    BY <1>1, <1>3
  <2> QED BY <1>1, <1>3, <2>1, <2>2, <2>4, <2>7, <2>8 DEF SoFar
<1>4. CASE current.fault = "Ok" /\ current.set # {} /\ value.fault # "Ok"
  <2>1. next = value
    BY <1>4 DEF NextSource
  <2>2. \A m \in 1..((i + 1) - 1) : values[m].fault = "Ok"
    BY <1>0, <1>4 DEF SoFar
  <2>3. i > 0 => \E k \in Kinds : (direct = {} \/ k \in direct) /\ \A j \in 1..i : k \in offered[j]
    <3> SUFFICES ASSUME i > 0
                 PROVE  \E k \in Kinds : (direct = {} \/ k \in direct) /\ \A j \in 1..i : k \in offered[j]
      OBVIOUS
    <3>1. current.set \in SUBSET Kinds
      BY <1>4 DEF SoFar
    <3>2. PICK k \in Kinds : k \in current.set
      BY <1>4, <3>1
    <3>3. KindMatches(current.set, k)
      BY <3>2 DEF KindMatches
    <3> QED BY <1>4, <3>2, <3>3 DEF SoFar
  <2>4. Reached(direct, values, offered, i + 1)
    BY <1>0, <2>2, <2>3 DEF Reached
  <2>5. \E j \in 1..(i + 1) : values[j].fault = value.fault /\ Reached(direct, values, offered, j)
    BY <1>0, <2>4
  <2> QED BY <1>4, <2>1, <2>5 DEF SoFar
<1>5. CASE current.fault = "Ok" /\ current.set # {} /\ value.fault = "Ok"
  <2>1. next = [fault |-> "Ok", set |-> Narrow(current.set, value.set)]
    BY <1>5 DEF NextSource
  <2>2. value.set \in SUBSET Kinds /\ value.set = offered[i + 1]
    BY <1>5
  <2>3. current.set = AnyKind \/ current.set \in SUBSET Kinds
    BY <1>5 DEF SoFar
  <2>4. /\ Narrow(current.set, value.set) \in SUBSET Kinds
        /\ \A k \in Kinds : k \in Narrow(current.set, value.set) <=>
             KindMatches(current.set, k) /\ k \in value.set
    <3>1. CASE current.set = AnyKind
      BY <2>2, <3>1 DEF Narrow, KindMatches
    <3>2. CASE current.set # AnyKind
      <4>1. Narrow(current.set, value.set) = current.set \cap value.set
        BY <2>2, <2>3, <3>2, IntersectionIsExact DEF Narrow
      <4> QED BY <2>2, <2>3, <3>2, <4>1 DEF KindMatches
    <3> QED BY <3>1, <3>2
  <2>5. next.fault = "Ok" /\ next.set = Narrow(current.set, value.set)
    BY <2>1
  <2>6. \A k \in Kinds : KindMatches(next.set, k) <=>
          (direct = {} \/ k \in direct) /\ \A j \in 1..(i + 1) : k \in offered[j]
    <3> TAKE k \in Kinds
    <3>1. KindMatches(next.set, k) <=> KindMatches(current.set, k) /\ k \in offered[i + 1]
      BY <1>1, <2>2, <2>4, <2>5 DEF KindMatches
    <3>2. KindMatches(current.set, k) <=>
            (direct = {} \/ k \in direct) /\ \A j \in 1..i : k \in offered[j]
      BY <1>5 DEF SoFar
    <3> QED BY <1>0, <3>1, <3>2
  <2>7. \A j \in 1..(i + 1) : values[j].fault = "Ok"
    BY <1>0, <1>5 DEF SoFar
  <2>8. next.set # AnyKind /\ i + 1 > 0
    BY <1>1, <2>4, <2>5
  <2> HIDE DEF next
  <2> QED BY <2>4, <2>5, <2>6, <2>7, <2>8 DEF SoFar, next
<1> QED BY <1>2, <1>3, <1>4, <1>5

(* resolve_kind_set: an end of a query admits what its lane lists and all its
   sources offer, or fails with the first faulty source.                   *)
LEMMA ResolveIsExact ==
  ASSUME at \in DOMAIN Snapshots, NEW direct \in SUBSET Kinds, NEW values, NEW offered,
         NEW n \in Nat, Len(values) = n,
         \A i \in 1..n : values[i].fault = "Ok" =>
           values[i].set \in SUBSET Kinds /\ values[i].set = offered[i]
  PROVE  SoFar(direct, values, offered, n, Resolve(direct, values))
<1>1. PICK f : IsResolving(direct, values, n, f) /\ Resolve(direct, values) = f[n]
  BY ResolveUnfolds
<1>2. \A i \in 0..n : f[i] = IF i = 0 THEN Unfiltered(direct) ELSE NextSource(f[i - 1], values[i])
  BY <1>1 DEF IsResolving
<1> DEFINE S == {i \in 0..n : SoFar(direct, values, offered, i, f[i])}
<1>3. 0 \in S
  <2>1. f[0] = Unfiltered(direct)
    BY <1>2
  <2>2. SoFar(direct, values, offered, 0, Unfiltered(direct))
    <3>1. \A T \in SUBSET Kinds : T # AnyKind
      BY EdgeQueryAssumption
    <3>2. 1..0 = {}
      OBVIOUS
    <3> QED BY <3>1, <3>2 DEF SoFar, Unfiltered, KindMatches
  <2> QED BY <2>1, <2>2
<1>4. ASSUME NEW i \in 0..(n - 1), i \in S PROVE i + 1 \in S
  <2>1. i \in Nat /\ i + 1 \in 1..n /\ i + 1 \in 0..n /\ i + 1 # 0 /\ (i + 1) - 1 = i
    OBVIOUS
  <2>2. f[i + 1] = NextSource(f[i], values[i + 1])
    BY <1>2, <2>1
  <2>3. SoFar(direct, values, offered, i, f[i])
    BY <1>4
  <2>4. SoFar(direct, values, offered, i + 1, NextSource(f[i], values[i + 1]))
    BY <2>1, <2>3, NextSourceIsExact
  <2> QED BY <2>1, <2>2, <2>4
<1>5. n \in S
  <2> HIDE DEF S
  <2>1. 0..n \subseteq S
    BY <1>3, <1>4, IntervalInduction
  <2> QED BY <2>1
<1> QED BY <1>1, <1>5

-----------------------------------------------------------------------------
(* Queries nested in queries                                               *)

(* The builders put aside own builders put aside before them. *)
Nested ==
  /\ queries \in Seq(Builders(Nat))
  /\ \A q \in DOMAIN queries : queries[q] \in Builders(1..(q - 1))

LEMMA SourceShape ==
  ASSUME NEW places, NEW s \in Sources(places)
  PROVE  /\ s.tag \in {"Kinds", "Traversal", "Edge", "Compiled"}
         /\ s.tag \in {"Kinds", "Traversal"} => s.kinds \in SUBSET Kinds
         /\ s.tag = "Edge" => s.query \in places
         /\ s.tag = "Compiled" => /\ s.selection \in Selections
                                  /\ s.subjects \in SUBSET Kinds /\ s.targets \in SUBSET Kinds
<1>1. CASE s \in [tag : {"Kinds"}, kinds : SUBSET Kinds]
  BY <1>1
<1>2. CASE s \in TraversalSources
  <2>1. s \in [tag : {"Traversal"}, key : {None} \cup Keys, fault : STRING, kinds : SUBSET Kinds]
    BY <1>2, EdgeQueryAssumption
  <2> QED BY <2>1
<1>3. CASE s \in [tag : {"Edge"}, query : places]
  BY <1>3
<1>4. CASE s \in [tag : {"Compiled"}, key : Keys, selection : Selections,
                  subjects : SUBSET Kinds, targets : SUBSET Kinds]
  BY <1>4
<1> QED BY <1>1, <1>2, <1>3, <1>4 DEF Sources

LEMMA BuilderShape ==
  ASSUME NEW places, NEW b \in Builders(places)
  PROVE  /\ b.lists \in [Lanes -> SUBSET Kinds] /\ b.selection \in Selections
         /\ b.direction \in Directions /\ b.empty_lanes \in SUBSET Lanes
         /\ \A side \in Sides : /\ b.sources[side] \in Seq(Sources(places)) /\ b.lists[side] \in SUBSET Kinds
                                /\ Len(b.sources[side]) \in Nat
                                /\ DOMAIN b.sources[side] = 1..Len(b.sources[side])
                                /\ \A i \in DOMAIN b.sources[side] : b.sources[side][i] \in Sources(places)
<1>1. /\ b.lists \in [Lanes -> SUBSET Kinds] /\ b.selection \in Selections
      /\ b.direction \in Directions /\ b.empty_lanes \in SUBSET Lanes
      /\ b.sources \in [Sides -> Seq(Sources(places))]
  BY DEF Builders
<1>2. \A side \in Sides : b.sources[side] \in Seq(Sources(places)) /\ b.lists[side] \in SUBSET Kinds
  BY <1>1 DEF Sides, Lanes
<1> QED BY <1>1, <1>2

(* What a source evaluates to depends on the builders it owns. *)
LEMMA EvaluationAgrees ==
  ASSUME NEW places, NEW f, NEW g, \A q \in places : f[q] = g[q], NEW s \in Sources(places)
  PROVE  EvaluateWith(f, s) = EvaluateWith(g, s)
<1>1. CASE s.tag = "Edge"
  <2>1. f[s.query] = g[s.query]
    BY <1>1, SourceShape
  <2> QED BY <1>1, <2>1 DEF EvaluateWith
<1>2. CASE s.tag = "Kinds"
  BY <1>2 DEF EvaluateWith
<1>3. CASE s.tag = "Traversal"
  BY <1>3 DEF EvaluateWith
<1>4. CASE s.tag = "Compiled"
  BY <1>4 DEF EvaluateWith
<1> QED BY <1>1, <1>2, <1>3, <1>4, SourceShape

LEMMA RunsAgree ==
  ASSUME NEW places, NEW f, NEW g, \A q \in places : f[q] = g[q], NEW b \in Builders(places)
  PROVE  RunWith(f, b) = RunWith(g, b)
<1>1. ASSUME NEW side \in Sides PROVE EndsWith(f, b, side) = EndsWith(g, b, side)
  <2>1. \A i \in DOMAIN b.sources[side] :
          EvaluateWith(f, b.sources[side][i]) = EvaluateWith(g, b.sources[side][i])
    BY BuilderShape, EvaluationAgrees
  <2>2. Values(f, b.sources[side]) = Values(g, b.sources[side])
    BY <2>1 DEF Values
  <2> QED BY <2>2 DEF EndsWith
<1>2. "subjects" \in Sides /\ "targets" \in Sides
  BY DEF Sides
<1> QED BY <1>1, <1>2 DEF RunWith

IsResults(f, n) == f = [q \in 1..n |-> RunWith(f, queries[q])]

LEMMA ResultsExist ==
  ASSUME Nested
  PROVE  \E f : IsResults(f, Len(queries))
<1> DEFINE n == Len(queries)
           S == {i \in 0..n : \E f : IsResults(f, i)}
<1>0. n \in Nat /\ DOMAIN queries = 1..n
  BY DEF Nested
<1>1. 0 \in S
  <2> DEFINE f == [q \in 1..0 |-> {}]
  <2>1. IsResults(f, 0)
    <3>1. 1..0 = {}
      OBVIOUS
    <3> QED BY <3>1 DEF IsResults
  <2> HIDE DEF n
  <2> QED BY <1>0, <2>1
<1>2. ASSUME NEW i \in 0..(n - 1), i \in S PROVE i + 1 \in S
  <2>1. PICK f : IsResults(f, i)
    BY <1>2
  <2> DEFINE g == [q \in 1..(i + 1) |-> IF q = i + 1 THEN RunWith(f, queries[i + 1]) ELSE f[q]]
  <2>2. \A q \in 1..i : f[q] = RunWith(f, queries[q])
    BY <2>1 DEF IsResults
  <2>3. ASSUME NEW q \in 1..(i + 1) PROVE g[q] = RunWith(g, queries[q])
    <3>1. queries[q] \in Builders(1..(q - 1))
      <4>1. q \in DOMAIN queries
        <5> HIDE DEF n
        <5> QED BY <1>0
      <4> QED BY <4>1 DEF Nested
    <3>2. \A r \in 1..(q - 1) : f[r] = g[r]
      <4> TAKE r \in 1..(q - 1)
      <4>1. r \in 1..(i + 1) /\ r # i + 1
        <5> HIDE DEF n
        <5> QED BY <1>0
      <4> QED BY <4>1
    <3>3. RunWith(f, queries[q]) = RunWith(g, queries[q])
      <4> DEFINE places == 1..(q - 1)
      <4>1. queries[q] \in Builders(places) /\ \A r \in places : f[r] = g[r]
        BY <3>1, <3>2
      <4> HIDE DEF g, places
      <4> QED BY <4>1, RunsAgree
    <3>4. CASE q = i + 1
      <4>1. g[q] = RunWith(f, queries[q])
        BY <3>4
      <4> QED BY <3>3, <4>1
    <3>5. CASE q # i + 1
      <4>1. g[q] = f[q]
        BY <3>5
      <4>2. q \in 1..i
        <5> HIDE DEF n, g
        <5> QED BY <1>0, <3>5
      <4> QED BY <2>2, <3>3, <4>1, <4>2
    <3> QED BY <3>4, <3>5
  <2>4. IsResults(g, i + 1)
    <3>1. g = [q \in 1..(i + 1) |-> g[q]]
      OBVIOUS
    <3> HIDE DEF g
    <3> QED BY <2>3, <3>1 DEF IsResults
  <2>5. i + 1 \in 0..n
    <3> HIDE DEF n
    <3> QED BY <1>0
  <2> HIDE DEF g
  <2> QED BY <2>4, <2>5
<1>3. n \in S
  <2> HIDE DEF S
  <2>1. n \in Nat
    BY <1>0
  <2>2. 0..n \subseteq S
    <3> HIDE DEF n
    <3> QED BY <1>1, <1>2, <2>1, IntervalInduction
  <2> HIDE DEF n
  <2> QED BY <2>1, <2>2
<1> QED BY <1>3

(* What a query contributes as a source is what running it returns. *)
LEMMA ResultsUnfold ==
  ASSUME Nested
  PROVE  \A q \in DOMAIN queries : Results[q] = Run(queries[q])
<1> DEFINE n == Len(queries)
<1>1. DOMAIN queries = 1..n
  BY DEF Nested
<1>2. Results = CHOOSE f : IsResults(f, n)
  BY <1>1 DEF Results, IsResults
<1>3. IsResults(Results, n)
  BY <1>2, ResultsExist
<1>4. \A q \in 1..n : Results[q] = RunWith(Results, queries[q])
  <2> HIDE DEF n
  <2> QED BY <1>3 DEF IsResults
<1> QED BY <1>1, <1>4 DEF Run

LEMMA RunShape ==
  ASSUME at \in DOMAIN Snapshots, NEW b
  PROVE  /\ Run(b).matches \in SUBSET snapshot.edges
         /\ Run(b).subjects = {e[1] : e \in Run(b).matches}
         /\ Run(b).targets = {e[3] : e \in Run(b).matches}
         /\ Run(b).fault = FirstFault(KeyFault(b.bound), Ends(b, "subjects").fault, Ends(b, "targets").fault)
         /\ Run(b).fault = "Ok" =>
              Run(b).matches = {e \in snapshot.edges :
                EdgeMatches(b, e, Ends(b, "subjects").set, Ends(b, "targets").set)}
BY DEF Run, RunWith, Ends, CompileUncached, Matching, Result

LEMMA RunTyped ==
  ASSUME at \in DOMAIN Snapshots, NEW b
  PROVE  Run(b).subjects \in SUBSET Kinds /\ Run(b).targets \in SUBSET Kinds
<1>1. snapshot.edges \in SUBSET (Kinds \X Kinds \X Kinds)
  BY SnapshotTyped DEF SnapshotOK
<1>2. \A e \in Run(b).matches : e[1] \in Kinds /\ e[3] \in Kinds
  <2> TAKE e \in Run(b).matches
  <2>1. e \in snapshot.edges
    BY RunShape
  <2>2. e \in Kinds \X Kinds \X Kinds
    BY <1>1, <2>1
  <2> QED BY <2>2
<1>3. /\ Run(b).subjects = {e[1] : e \in Run(b).matches}
      /\ Run(b).targets = {e[3] : e \in Run(b).matches}
  BY RunShape
<1> QED BY <1>2, <1>3

Offered(source) == {k \in Kinds : Offers(source, k)}

(* SetSource::evaluate: without a fault a source is what it offers. *)
LEMMA EvaluateOffers ==
  ASSUME at \in DOMAIN Snapshots, Nested, NEW s \in Sources(DOMAIN queries), Evaluate(s).fault = "Ok"
  PROVE  Evaluate(s).set \in SUBSET Kinds /\ Evaluate(s).set = Offered(s)
<1>1. CASE s.tag \in {"Kinds", "Traversal"}
  <2>1. s.kinds \in SUBSET Kinds
    BY <1>1, SourceShape
  <2>2. Evaluate(s).set = s.kinds
    <3>1. CASE s.tag = "Kinds"
      BY <3>1 DEF Evaluate, EvaluateWith
    <3>2. CASE s.tag = "Traversal"
      BY <3>2 DEF Evaluate, EvaluateWith, Faulty
    <3> QED BY <1>1, <3>1, <3>2
  <2>3. \A k \in Kinds : Offers(s, k) <=> k \in s.kinds
    BY <1>1 DEF Offers
  <2> QED BY <2>1, <2>2, <2>3 DEF Offered
<1>2. CASE s.tag = "Edge"
  <2> DEFINE query == queries[s.query]
             ran == Run(query)
  <2>1. s.query \in DOMAIN queries
    BY <1>2, SourceShape
  <2>2. Results[s.query] = ran
    BY <2>1, ResultsUnfold
  <2>3. query.selection \in Selections
    BY <2>1, BuilderShape DEF Nested
  <2>4. query.selection # "Edges" /\ Evaluate(s) = SelectedOf(ran, query.selection)
    BY <1>2, <2>2 DEF Evaluate, EvaluateWith, Faulty
  <2>5. Evaluate(s).set = IF query.selection = "Subjects" THEN ran.subjects ELSE ran.targets
    <3> HIDE DEF query, ran
    <3> QED BY <2>4 DEF SelectedOf, Selected, Faulty
  <2>6. \A k \in Kinds :
          Offers(s, k) <=> \E e \in ran.matches : \/ query.selection = "Subjects" /\ e[1] = k
                                                  \/ query.selection = "Targets" /\ e[3] = k
    BY <1>2 DEF Offers
  <2>7. /\ ran.subjects = {e[1] : e \in ran.matches} /\ ran.targets = {e[3] : e \in ran.matches}
        /\ ran.subjects \in SUBSET Kinds /\ ran.targets \in SUBSET Kinds
    BY RunShape, RunTyped
  <2> HIDE DEF query, ran
  <2>8. CASE query.selection = "Subjects"
    BY <2>5, <2>6, <2>7, <2>8 DEF Offered
  <2>9. CASE query.selection = "Targets"
    BY <2>5, <2>6, <2>7, <2>9 DEF Offered
  <2> QED BY <2>3, <2>4, <2>8, <2>9 DEF Selections
<1>3. CASE s.tag = "Compiled"
  <2>1. /\ s.selection \in Selections /\ s.subjects \in SUBSET Kinds /\ s.targets \in SUBSET Kinds
    BY <1>3, SourceShape
  <2>2. s.selection # "Edges" /\ Evaluate(s) = Selected(KeyFault(s.key), s.selection, s)
    BY <1>3 DEF Evaluate, EvaluateWith, Faulty
  <2>3. Evaluate(s).set = IF s.selection = "Subjects" THEN s.subjects ELSE s.targets
    BY <2>2 DEF Selected, Faulty
  <2>4. \A k \in Kinds : Offers(s, k) <=> \/ s.selection = "Subjects" /\ k \in s.subjects
                                          \/ s.selection = "Targets" /\ k \in s.targets
    BY <1>3 DEF Offers
  <2> QED BY <2>1, <2>2, <2>3, <2>4 DEF Offered, Selections
<1> QED BY <1>1, <1>2, <1>3, SourceShape

LEMMA EndsAreExact ==
  ASSUME at \in DOMAIN Snapshots, Nested, NEW b \in Builders(DOMAIN queries), NEW side \in Sides
  PROVE  LET sources == b.sources[side]
         IN SoFar(b.lists[side], Values(Results, sources), [i \in DOMAIN sources |-> Offered(sources[i])],
                  Len(sources), Ends(b, side))
<1> DEFINE sources == b.sources[side]
           values == Values(Results, sources)
           offered == [i \in DOMAIN sources |-> Offered(sources[i])]
           n == Len(sources)
<1>1. /\ b.lists[side] \in SUBSET Kinds /\ n \in Nat /\ DOMAIN sources = 1..n
      /\ \A i \in DOMAIN sources : sources[i] \in Sources(DOMAIN queries)
  BY BuilderShape
<1>2. \A i \in 1..n : values[i] = Evaluate(sources[i]) /\ offered[i] = Offered(sources[i])
  <2> HIDE DEF n
  <2> QED BY <1>1 DEF Values, Evaluate
<1>3. \A i \in 1..n : values[i].fault = "Ok" =>
        values[i].set \in SUBSET Kinds /\ values[i].set = offered[i]
  <2> HIDE DEF n, sources, values, offered
  <2> QED BY <1>1, <1>2, EvaluateOffers
<1>4. Len(values) = n
  <2> HIDE DEF n, sources
  <2>1. DOMAIN values = 1..n
    BY <1>1 DEF Values
  <2> HIDE DEF values
  <2> QED BY <1>1, <2>1
<1>5. SoFar(b.lists[side], values, offered, n, Resolve(b.lists[side], values))
  <2> HIDE DEF n, sources, values, offered
  <2> QED BY <1>1, <1>3, <1>4, ResolveIsExact
<1> QED BY <1>5 DEF Ends, EndsWith

-----------------------------------------------------------------------------
(* What a run of the query being built returns                             *)

(* The builder's lists are the lanes as they were asked for; the mask is
   what tells a lane left empty from one that was never asked for.         *)
LanesAgree ==
  \A l \in Lanes :
    /\ lanes[l] = AnyKind => builder.lists[l] = {} /\ l \notin builder.empty_lanes
    /\ lanes[l] # AnyKind => builder.lists[l] = lanes[l] /\ (lanes[l] = {} => l \in builder.empty_lanes)

EdgeIInv ==
  /\ TypeOK
  /\ LanesAgree
  /\ answer # None => answer = Run(builder)

LEMMA TypeNested ==
  ASSUME TypeOK
  PROVE  Nested /\ at \in DOMAIN Snapshots /\ builder \in Builders(DOMAIN queries)
BY DEF TypeOK, Nested

(* An end without a fault admits what its lane lists and its sources offer. *)
LEMMA EndsAdmit ==
  ASSUME TypeOK, LanesAgree, builder.empty_lanes = {}, NEW side \in Sides,
         Ends(builder, side).fault = "Ok", NEW k \in Kinds
  PROVE  KindMatches(Ends(builder, side).set, k) <=> Admits(side, k)
<1> DEFINE sources == builder.sources[side]
           offered == [i \in DOMAIN sources |-> Offered(sources[i])]
           direct == builder.lists[side]
<1>1. SoFar(direct, Values(Results, sources), offered, Len(sources), Ends(builder, side))
  BY TypeNested, EndsAreExact
<1>2. KindMatches(Ends(builder, side).set, k) <=>
        (direct = {} \/ k \in direct) /\ \A j \in 1..Len(sources) : k \in offered[j]
  <2> HIDE DEF sources, offered, direct
  <2> QED BY <1>1 DEF SoFar
<1>3. DOMAIN sources = 1..Len(sources)
  BY TypeNested, BuilderShape
<1>4. (direct = {} \/ k \in direct) <=> (lanes[side] = AnyKind \/ k \in lanes[side])
  <2>1. side \in Lanes
    BY DEF Sides, Lanes
  <2> QED BY <2>1 DEF LanesAgree
<1>5. \A j \in DOMAIN sources : k \in offered[j] <=> Offers(sources[j], k)
  BY DEF Offered
<1>6. Admits(side, k) <=>
        (lanes[side] = AnyKind \/ k \in lanes[side]) /\ \A j \in DOMAIN sources : Offers(sources[j], k)
  BY DEF Admits
<1> HIDE DEF sources, offered, direct
<1> QED BY <1>2, <1>3, <1>4, <1>5, <1>6

AskedFor(e) ==
  /\ lanes["relations"] = AnyKind \/ e[2] \in lanes["relations"]
  /\ \/ builder.direction \in {"Outgoing", "Both"} /\ Admits("subjects", e[1]) /\ Admits("targets", e[3])
     \/ builder.direction \in {"Incoming", "Both"} /\ Admits("subjects", e[3]) /\ Admits("targets", e[1])

LEMMA MatchesAskedFor ==
  ASSUME TypeOK, LanesAgree, Ends(builder, "subjects").fault = "Ok", Ends(builder, "targets").fault = "Ok",
         NEW e \in Kinds \X Kinds \X Kinds
  PROVE  EdgeMatches(builder, e, Ends(builder, "subjects").set, Ends(builder, "targets").set) <=> AskedFor(e)
<1>1. e[1] \in Kinds /\ e[3] \in Kinds
  OBVIOUS
<1>2. CASE builder.empty_lanes # {}
  <2>1. PICK l \in Lanes : l \in builder.empty_lanes
    BY <1>2, TypeNested, BuilderShape
  <2>2. lanes[l] # AnyKind /\ lanes[l] = {}
    BY <2>1 DEF LanesAgree, TypeOK, MaskOK
  <2>3. ~AskedFor(e)
    <3>1. CASE l = "relations"
      BY <2>2, <3>1 DEF AskedFor
    <3>2. CASE l \in Sides
      <4>1. \A k : ~Admits(l, k)
        BY <2>2 DEF Admits
      <4> QED BY <3>2, <4>1 DEF AskedFor, Sides
    <3> QED BY <3>1, <3>2 DEF Lanes, Sides
  <2> QED BY <1>2, <2>3 DEF EdgeMatches
<1>3. CASE builder.empty_lanes = {}
  <2>1. \A k \in Kinds : /\ KindMatches(Ends(builder, "subjects").set, k) <=> Admits("subjects", k)
                         /\ KindMatches(Ends(builder, "targets").set, k) <=> Admits("targets", k)
    BY <1>3, EndsAdmit DEF Sides
  <2>2. (builder.lists["relations"] = {} \/ e[2] \in builder.lists["relations"]) <=>
          (lanes["relations"] = AnyKind \/ e[2] \in lanes["relations"])
    BY <1>3 DEF LanesAgree, Lanes
  <2>3. builder.direction \in Directions
    BY TypeNested, BuilderShape
  <2>4. /\ builder.direction # "Incoming" <=> builder.direction \in {"Outgoing", "Both"}
        /\ builder.direction # "Outgoing" <=> builder.direction \in {"Incoming", "Both"}
    BY <2>3 DEF Directions
  <2> QED BY <1>1, <1>3, <2>1, <2>2, <2>4 DEF EdgeMatches, AskedFor
<1> QED BY <1>2, <1>3

LEMMA FaultFree ==
  ASSUME NEW key_fault, NEW subjects, NEW targets
  PROVE  /\ FirstFault(key_fault, subjects, targets) = "Ok" =>
              key_fault = "Ok" /\ subjects = "Ok" /\ targets = "Ok"
         /\ FirstFault(key_fault, subjects, targets) # "Ok" =>
              \/ FirstFault(key_fault, subjects, targets) = key_fault
              \/ subjects # "Ok" /\ FirstFault(key_fault, subjects, targets) = subjects
              \/ /\ subjects = "Ok" /\ targets # "Ok"
                 /\ FirstFault(key_fault, subjects, targets) = targets
<1>1. CASE key_fault # "Ok"
  BY <1>1 DEF FirstFault
<1>2. CASE key_fault = "Ok" /\ subjects # "Ok"
  BY <1>2 DEF FirstFault
<1>3. CASE key_fault = "Ok" /\ subjects = "Ok"
  BY <1>3 DEF FirstFault
<1> QED BY <1>1, <1>2, <1>3

LEMMA RunMatchesAskedFor ==
  ASSUME TypeOK, LanesAgree, Run(builder).fault = "Ok"
  PROVE  Run(builder).matches = {e \in snapshot.edges : AskedFor(e)}
<1>1. /\ Run(builder).fault =
           FirstFault(KeyFault(builder.bound), Ends(builder, "subjects").fault, Ends(builder, "targets").fault)
      /\ Run(builder).matches =
           {e \in snapshot.edges :
              EdgeMatches(builder, e, Ends(builder, "subjects").set, Ends(builder, "targets").set)}
  BY TypeNested, RunShape
<1>2. Ends(builder, "subjects").fault = "Ok" /\ Ends(builder, "targets").fault = "Ok"
  BY <1>1, FaultFree
<1>3. snapshot.edges \in SUBSET (Kinds \X Kinds \X Kinds)
  BY TypeNested, SnapshotTyped DEF SnapshotOK
<1>4. \A e \in snapshot.edges :
        EdgeMatches(builder, e, Ends(builder, "subjects").set, Ends(builder, "targets").set) <=> AskedFor(e)
  BY <1>2, <1>3, MatchesAskedFor
<1> QED BY <1>1, <1>4

LEMMA InvariantMeans ==
  ASSUME EdgeIInv
  PROVE  QueryAsMeant
<1>1. LanesDecideMatches
  <2> SUFFICES ASSUME Ran("Ok")
               PROVE  answer.matches = {e \in snapshot.edges : AskedFor(e)}
    BY DEF LanesDecideMatches, AskedFor
  <2> QED BY RunMatchesAskedFor DEF EdgeIInv, Ran
<1>2. ProductSelectsItsEdges
  <2> SUFFICES ASSUME Ran("Ok"), builder.direction = "Outgoing", \A l \in Lanes : lanes[l] # AnyKind,
                      \A side \in Sides : builder.sources[side] = <<>>
               PROVE  answer.matches =
                        snapshot.edges \cap CartesianEdges(lanes["subjects"], lanes["relations"], lanes["targets"])
    BY DEF ProductSelectsItsEdges
  <2>1. answer.matches = {e \in snapshot.edges : AskedFor(e)}
    BY RunMatchesAskedFor DEF EdgeIInv, Ran
  <2>2. \A side \in Sides : \A k : Admits(side, k) <=> k \in lanes[side]
    BY DEF Admits, Sides, Lanes
  <2>3. snapshot.edges \in SUBSET (Kinds \X Kinds \X Kinds)
    BY TypeNested, SnapshotTyped DEF SnapshotOK, EdgeIInv
  <2>4. ASSUME NEW e \in snapshot.edges
        PROVE  AskedFor(e) <=> e \in CartesianEdges(lanes["subjects"], lanes["relations"], lanes["targets"])
    <3>1. AskedFor(e) <=> e[1] \in lanes["subjects"] /\ e[2] \in lanes["relations"] /\ e[3] \in lanes["targets"]
      BY <2>2 DEF AskedFor, Sides, Lanes
    <3>2. e \in Kinds \X Kinds \X Kinds
      BY <2>3
    <3>3. e = <<e[1], e[2], e[3]>>
      BY <3>2
    <3> QED BY <3>1, <3>3 DEF CartesianEdges
  <2> QED BY <2>1, <2>4
<1> QED BY <1>1, <1>2 DEF QueryAsMeant

(* An end fails when a source in reach does, and with its fault; where it
   passes over a faulty source it admits nothing.                          *)
LEMMA EndsFail ==
  ASSUME TypeOK, LanesAgree, NEW side \in Sides
  PROVE  /\ Ends(builder, side).fault = "Ok" => FaultsInReach(side) = {}
         /\ Ends(builder, side).fault = "Ok" /\ Faults(side) # {} => Ends(builder, side).set = {}
         /\ Ends(builder, side).fault # "Ok" =>
              \E i \in FaultsInReach(side) : Evaluate(builder.sources[side][i]).fault = Ends(builder, side).fault
<1> DEFINE sources == builder.sources[side]
           values == Values(Results, sources)
           offered == [i \in DOMAIN sources |-> Offered(sources[i])]
           direct == builder.lists[side]
           n == Len(sources)
<1>1. SoFar(direct, values, offered, n, Ends(builder, side))
  BY TypeNested, EndsAreExact
<1>2. DOMAIN sources = 1..n /\ n \in Nat
  BY TypeNested, BuilderShape
<1>3. \A i \in 1..n : values[i] = Evaluate(sources[i]) /\ offered[i] = Offered(sources[i])
  <2> HIDE DEF n
  <2> QED BY <1>2 DEF Values, Evaluate
<1>4. \A k : (direct = {} \/ k \in direct) <=> (lanes[side] \in {AnyKind, {}} \/ k \in lanes[side])
  <2>1. side \in Lanes
    BY DEF Sides, Lanes
  <2> QED BY <2>1 DEF LanesAgree
<1>5. ASSUME NEW i \in 1..n PROVE Reached(direct, values, offered, i) <=> InReach(side, i)
  <2> DEFINE ahead == {sources[j] : j \in 1..(i - 1)}
  <2>1. \A j \in 1..(i - 1) : j \in 1..n
    <3> HIDE DEF n
    <3> QED BY <1>2, <1>5
  <2>2. (\A source \in ahead : Evaluate(source).fault = "Ok") <=> \A j \in 1..(i - 1) : values[j].fault = "Ok"
    <3>1. \A j \in 1..(i - 1) : Evaluate(sources[j]).fault = values[j].fault
      <4> HIDE DEF n, sources, values
      <4> QED BY <1>3, <2>1
    <3> HIDE DEF n, sources, values
    <3> QED BY <3>1
  <2>3. ASSUME NEW k \in Kinds
        PROVE  (\A source \in ahead : Offers(source, k)) <=> \A j \in 1..(i - 1) : k \in offered[j]
    <3>1. \A j \in 1..(i - 1) : k \in offered[j] <=> Offers(sources[j], k)
      <4> HIDE DEF n, sources, offered
      <4> QED BY <1>3, <2>1 DEF Offered
    <3> HIDE DEF n, sources, offered
    <3> QED BY <3>1
  <2>4. InReach(side, i) <=>
          /\ \A source \in ahead : Evaluate(source).fault = "Ok"
          /\ i > 1 => \E k \in Kinds : /\ lanes[side] \in {AnyKind, {}} \/ k \in lanes[side]
                                       /\ \A source \in ahead : Offers(source, k)
    BY DEF InReach
  <2> HIDE DEF n, sources, values, offered, direct, ahead
  <2> QED BY <1>4, <2>2, <2>3, <2>4 DEF Reached
<1>6. /\ Faults(side) = {i \in 1..n : values[i].fault # "Ok"}
      /\ FaultsInReach(side) = {i \in 1..n : values[i].fault # "Ok" /\ Reached(direct, values, offered, i)}
  <2>1. Faults(side) = {i \in 1..n : values[i].fault # "Ok"}
    <3>1. Faults(side) = {i \in DOMAIN sources : Evaluate(sources[i]).fault # "Ok"}
      BY DEF Faults
    <3> HIDE DEF n, sources, values
    <3> QED BY <1>2, <1>3, <3>1
  <2> HIDE DEF n, sources, values, offered, direct
  <2> QED BY <1>5, <2>1 DEF FaultsInReach
<1>7. \A i \in 1..n : values[i].fault = Evaluate(builder.sources[side][i]).fault
  BY <1>3
<1> HIDE DEF n, sources, values, offered, direct
<1> QED BY <1>1, <1>6, <1>7 DEF SoFar

LEMMA InvariantFirstFaults ==
  ASSUME EdgeIInv
  PROVE  FaultsAreFirst
<1> DEFINE subjects == Ends(builder, "subjects")
           targets == Ends(builder, "targets")
<1>1. "subjects" \in Sides /\ "targets" \in Sides /\ \A side \in Sides : side \in {"subjects", "targets"}
  BY DEF Sides
<1>2. TypeOK /\ LanesAgree /\ (answer # None => answer = Run(builder))
  BY DEF EdgeIInv
<1>3. Run(builder).fault = FirstFault(KeyFault(builder.bound), subjects.fault, targets.fault)
  BY <1>2, TypeNested, RunShape
<1>4. \A side \in Sides :
        /\ Ends(builder, side).fault = "Ok" <=> FaultsInReach(side) = {}
        /\ Ends(builder, side).fault # "Ok" =>
             \E i \in FaultsInReach(side) : Evaluate(builder.sources[side][i]).fault = Ends(builder, side).fault
        /\ Ends(builder, side).fault = "Ok" /\ Faults(side) # {} => Ends(builder, side).set = {}
  BY <1>2, EndsFail
<1>5. FirstInReachIsReported
  <2> SUFFICES ASSUME answer # None
               PROVE  /\ answer.fault = "Ok" <=>
                           KeyFault(builder.bound) = "Ok" /\ \A side \in Sides : FaultsInReach(side) = {}
                      /\ KeyFault(builder.bound) # "Ok" => answer.fault = KeyFault(builder.bound)
                      /\ answer.fault \notin {"Ok", KeyFault(builder.bound)} =>
                           \E side \in Sides : \E i \in FaultsInReach(side) :
                             /\ answer.fault = Evaluate(builder.sources[side][i]).fault
                             /\ side = "targets" => FaultsInReach("subjects") = {}
    BY DEF FirstInReachIsReported
  <2>1. answer.fault = FirstFault(KeyFault(builder.bound), subjects.fault, targets.fault)
    BY <1>2, <1>3
  <2> HIDE DEF subjects, targets
  <2>2. CASE KeyFault(builder.bound) # "Ok"
    <3>1. answer.fault = KeyFault(builder.bound)
      BY <2>1, <2>2 DEF FirstFault
    <3> QED BY <2>2, <3>1
  <2>3. CASE KeyFault(builder.bound) = "Ok" /\ subjects.fault # "Ok"
    <3>1. answer.fault = subjects.fault
      BY <2>1, <2>3 DEF FirstFault
    <3>2. PICK i \in FaultsInReach("subjects") : Evaluate(builder.sources["subjects"][i]).fault = subjects.fault
      BY <1>1, <1>4, <2>3 DEF subjects
    <3> QED BY <1>1, <2>3, <3>1, <3>2
  <2>4. CASE KeyFault(builder.bound) = "Ok" /\ subjects.fault = "Ok"
    <3>1. answer.fault = targets.fault /\ FaultsInReach("subjects") = {}
      BY <1>1, <1>4, <2>1, <2>4 DEF FirstFault, subjects
    <3>2. CASE targets.fault = "Ok"
      <4>1. FaultsInReach("targets") = {}
        BY <1>1, <1>4, <3>2 DEF targets
      <4> QED BY <1>1, <2>4, <3>1, <3>2, <4>1
    <3>3. CASE targets.fault # "Ok"
      <4>1. PICK i \in FaultsInReach("targets") : Evaluate(builder.sources["targets"][i]).fault = targets.fault
        BY <1>1, <1>4, <3>3 DEF targets
      <4> QED BY <1>1, <2>4, <3>1, <3>3, <4>1
    <3> QED BY <3>2, <3>3
  <2> QED BY <2>2, <2>3, <2>4
<1>6. HiddenFaultsMatchNothing
  <2> SUFFICES ASSUME Ran("Ok"), NEW side \in Sides, Faults(side) # {}
               PROVE  answer.matches = {}
    BY DEF HiddenFaultsMatchNothing
  <2>1. answer = Run(builder) /\ Run(builder).fault = "Ok"
    BY <1>2 DEF Ran
  <2>2. subjects.fault = "Ok" /\ targets.fault = "Ok"
    BY <1>3, <2>1, FaultFree
  <2>3. answer.matches = {e \in snapshot.edges : EdgeMatches(builder, e, subjects.set, targets.set)}
    BY <1>2, <2>1, TypeNested, RunShape
  <2>4. subjects.set = {} \/ targets.set = {}
    BY <1>1, <1>4, <2>2
  <2>5. \A k : ~KindMatches({}, k)
    BY EdgeQueryAssumption DEF KindMatches
  <2> HIDE DEF subjects, targets
  <2>6. \A e : ~EdgeMatches(builder, e, subjects.set, targets.set)
    BY <2>4, <2>5 DEF EdgeMatches
  <2> QED BY <2>3, <2>6
<1> QED BY <1>5, <1>6 DEF FaultsAreFirst

-----------------------------------------------------------------------------
(* The steps                                                               *)

Ranked(S, i) == CHOOSE k \in S : Cardinality(Before(S, k)) = i - 1

(* A query returns the same while its sources and the snapshot stay. *)
LEMMA RunsStay ==
  ASSUME UNCHANGED <<queries, at>>
  PROVE  \A b : Run(b)' = Run(b)
<1>1. snapshot' = snapshot /\ queries' = queries
  BY DEF snapshot
<1>2. \A k : DenseKey(k)' = DenseKey(k)
  BY <1>1 DEF DenseKey
<1>3. \A S : InDenseOrder(S)' = InDenseOrder(S)
  <2>1. \A S, k : Before(S, k)' = Before(S, k)
    BY <1>2 DEF Before
  <2>2. \A S, i : Ranked(S, i)' = Ranked(S, i)
    BY <2>1 DEF Ranked
  <2>3. \A S : /\ InDenseOrder(S) = [i \in 1..Cardinality(S) |-> Ranked(S, i)]
               /\ InDenseOrder(S)' = [i \in 1..Cardinality(S) |-> Ranked(S, i)']
    BY DEF InDenseOrder, Ranked, Before
  <2> QED BY <2>2, <2>3
<1>4. \A left, right, f, i, j : MergeAt(left, right, f, i, j)' = MergeAt(left, right, f, i, j)
  BY <1>2 DEF MergeAt
<1>5. \A left, right, f : IsMerge(left, right, f)' <=> IsMerge(left, right, f)
  BY <1>4 DEF IsMerge
<1>6. /\ \A left, right : Merge(left, right) = (CHOOSE f : IsMerge(left, right, f))[<<1, 1>>]
      /\ \A left, right : Merge(left, right)' = (CHOOSE f : IsMerge(left, right, f)')[<<1, 1>>]
  BY DEF Merge, IsMerge, MergeAt, Indices
<1>7. \A left, right : Merge(left, right)' = Merge(left, right)
  BY <1>5, <1>6
<1>8. \A S, R : Intersect(S, R)' = Intersect(S, R)
  BY <1>3, <1>7 DEF Intersect
<1>9. \A current, value : NextSource(current, value)' = NextSource(current, value)
  BY <1>8 DEF NextSource, Narrow
<1>10. \A direct, values, n, f : IsResolving(direct, values, n, f)' <=> IsResolving(direct, values, n, f)
  BY <1>9 DEF IsResolving, Unfiltered
<1>11. \A direct, values :
         /\ Resolve(direct, values) = (CHOOSE f : IsResolving(direct, values, Len(values), f))[Len(values)]
         /\ Resolve(direct, values)' = (CHOOSE f : IsResolving(direct, values, Len(values), f)')[Len(values)]
  BY DEF Resolve, IsResolving, Unfiltered
<1>12. \A direct, values : Resolve(direct, values)' = Resolve(direct, values)
  BY <1>10, <1>11
<1>13. \A key : KeyFault(key)' = KeyFault(key)
  BY <1>1 DEF KeyFault
<1>14. \A f, s : EvaluateWith(f, s)' = EvaluateWith(f, s)
  BY <1>1, <1>13 DEF EvaluateWith, SelectedOf, Selected, Faulty
<1>15. \A f, b, side : EndsWith(f, b, side)' = EndsWith(f, b, side)
  BY <1>12, <1>14 DEF EndsWith, Values
<1>16. \A f, b : RunWith(f, b)' = RunWith(f, b)
  <2>1. \A b, fault, subjects, targets :
          Matching(b, fault, subjects, targets)' = Matching(b, fault, subjects, targets)
    BY <1>1 DEF Matching, Result, EdgeMatches, KindMatches
  <2>2. \A b, subjects, targets :
          CompileUncached(b, subjects, targets)' = CompileUncached(b, subjects, targets)
    BY <1>13, <2>1 DEF CompileUncached, FirstFault
  <2> QED BY <1>15, <2>2 DEF RunWith
<1>17. \A f : IsResults(f, Len(queries))' <=> IsResults(f, Len(queries))
  BY <1>1, <1>16 DEF IsResults
<1>18. Results' = Results
  BY <1>1, <1>16 DEF Results
<1> QED BY <1>16, <1>18 DEF Run

LEMMA PlacesGrow ==
  ASSUME NEW places, NEW more, places \subseteq more
  PROVE  Sources(places) \subseteq Sources(more) /\ Builders(places) \subseteq Builders(more)
<1>1. [tag : {"Edge"}, query : places] \subseteq [tag : {"Edge"}, query : more]
  OBVIOUS
<1>2. Sources(places) \subseteq Sources(more)
  BY <1>1 DEF Sources
<1>3. Seq(Sources(places)) \subseteq Seq(Sources(more))
  <2> SUFFICES ASSUME NEW s \in Seq(Sources(places)) PROVE s \in Seq(Sources(more))
    OBVIOUS
  <2>1. \A i \in 1..Len(s) : s[i] \in Sources(more)
    BY <1>2
  <2> QED BY <2>1
<1>4. [Sides -> Seq(Sources(places))] \subseteq [Sides -> Seq(Sources(more))]
  BY <1>3
<1>5. Builders(places) \subseteq Builders(more)
  BY <1>4 DEF Builders
<1> QED BY <1>2, <1>5

LEMMA NewTyped ==
  ASSUME NEW places, NEW bound \in {None} \cup Keys
  PROVE  New(bound) \in Builders(places) /\ MaskOK(New(bound))
<1>1. [side \in Sides |-> <<>>] \in [Sides -> Seq(Sources(places))]
  OBVIOUS
<1>2. [l \in Lanes |-> {}] \in [Lanes -> SUBSET Kinds]
  OBVIOUS
<1>3. New(bound) \in Builders(places)
  BY <1>1, <1>2 DEF New, Builders, Directions, Selections
<1> QED BY <1>3 DEF New, MaskOK

(* The initial states are of the invariant. *)
LEMMA EdgeInit == Init => EdgeIInv
<1> SUFFICES ASSUME Init PROVE EdgeIInv
  OBVIOUS
<1>1. queries = <<>> /\ DOMAIN queries = {} /\ queries \in Seq(Builders(Nat))
  BY DEF Init
<1>2. at \in DOMAIN Snapshots /\ at = 1
  BY EdgeQueryAssumption DEF Init
<1>3. PICK bound \in {None, Snapshots[1].key} : builder = New(bound)
  BY DEF Init
<1>4. bound \in {None} \cup Keys
  <2>1. snapshot.key \in Keys
    BY <1>2, SnapshotTyped DEF SnapshotOK
  <2>2. snapshot = Snapshots[1]
    BY <1>2 DEF snapshot
  <2> QED BY <1>3, <2>1, <2>2
<1>5. builder \in Builders(DOMAIN queries) /\ MaskOK(builder)
  BY <1>3, <1>4, NewTyped
<1>6. lanes \in [Lanes -> {AnyKind} \cup SUBSET Kinds] /\ lanes = [l \in Lanes |-> AnyKind]
  BY DEF Init
<1>7. calls \in 0..MaxCalls /\ kept = None /\ answer = None
  BY EdgeQueryAssumption DEF Init
<1>8. TypeOK
  BY <1>1, <1>2, <1>5, <1>6, <1>7 DEF TypeOK
<1>9. LanesAgree
  BY <1>3, <1>6 DEF LanesAgree, New
<1> QED BY <1>7, <1>8, <1>9 DEF EdgeIInv

(* What a call leaves to show once its own builder is well formed. *)
LEMMA BuilderCall ==
  ASSUME EdgeIInv, Call, UNCHANGED <<queries, kept, at>>,
         builder' \in Builders(DOMAIN queries), MaskOK(builder'),
         lanes' \in [Lanes -> {AnyKind} \cup SUBSET Kinds], LanesAgree'
  PROVE  EdgeIInv'
<1>1. calls' \in 0..MaxCalls /\ answer' = None
  BY EdgeQueryAssumption DEF Call, EdgeIInv, TypeOK
<1>2. TypeOK'
  BY <1>1 DEF EdgeIInv, TypeOK, MaskOK, Builders, Sources
<1> QED BY <1>1, <1>2 DEF EdgeIInv

LEMMA AddToLaneStep ==
  ASSUME EdgeIInv, NEW lane \in Lanes, NEW S \in KindSets, AddToLane(lane, S)
  PROVE  EdgeIInv'
<1>1. S \in SUBSET Kinds /\ S # AnyKind
  BY EdgeQueryAssumption
<1>2. builder \in Builders(DOMAIN queries) /\ MaskOK(builder) /\ lanes \in [Lanes -> {AnyKind} \cup SUBSET Kinds]
  BY DEF EdgeIInv, TypeOK
<1>3. /\ builder.lists \in [Lanes -> SUBSET Kinds] /\ builder.empty_lanes \in SUBSET Lanes
  BY <1>2, BuilderShape
<1> DEFINE lists == [builder.lists EXCEPT ![lane] = @ \cup S]
           empty == IF builder.lists[lane] \cup S # {} THEN builder.empty_lanes \ {lane} ELSE builder.empty_lanes
<1>4. builder' = [builder EXCEPT !.lists = lists, !.empty_lanes = empty]
  BY DEF AddToLane, Extend
<1>5. lists \in [Lanes -> SUBSET Kinds] /\ empty \in SUBSET Lanes
  BY <1>1, <1>3
<1>6. /\ lists[lane] = builder.lists[lane] \cup S
      /\ \A l \in Lanes : l # lane => lists[l] = builder.lists[l]
      /\ \A l \in Lanes : l # lane => (l \in empty <=> l \in builder.empty_lanes)
      /\ lane \in empty <=> lists[lane] = {} /\ lane \in builder.empty_lanes
  BY <1>1, <1>3
<1> HIDE DEF lists, empty
<1>7. /\ builder' \in Builders(DOMAIN queries)
      /\ builder'.lists = lists /\ builder'.empty_lanes = empty
  BY <1>2, <1>4, <1>5 DEF Builders
<1>8. MaskOK(builder')
  BY <1>2, <1>3, <1>5, <1>6, <1>7 DEF MaskOK
<1>9. Meant(lane, S) \in {AnyKind} \cup SUBSET Kinds
  BY <1>1, <1>2 DEF Meant
<1>10. /\ lanes' \in [Lanes -> {AnyKind} \cup SUBSET Kinds] /\ lanes'[lane] = Meant(lane, S)
       /\ \A l \in Lanes : l # lane => lanes'[l] = lanes[l]
  BY <1>2, <1>9 DEF AddToLane
<1>11. ASSUME NEW l \in Lanes
       PROVE  /\ lanes'[l] = AnyKind => lists[l] = {} /\ l \notin empty
              /\ lanes'[l] # AnyKind => lists[l] = lanes'[l] /\ (lanes'[l] = {} => l \in empty)
  <2>1. CASE l # lane
    BY <1>6, <1>10, <2>1 DEF EdgeIInv, LanesAgree
  <2>2. CASE l = lane /\ lanes[lane] = AnyKind
    <3>1. builder.lists[lane] = {} /\ lane \notin builder.empty_lanes
      BY <2>2 DEF EdgeIInv, LanesAgree
    <3>2. lanes'[lane] = IF S = {} THEN AnyKind ELSE S
      BY <1>10, <2>2 DEF Meant
    <3> QED BY <1>1, <1>6, <2>2, <3>1, <3>2
  <2>3. CASE l = lane /\ lanes[lane] # AnyKind
    <3>1. builder.lists[lane] = lanes[lane] /\ (lanes[lane] = {} => lane \in builder.empty_lanes)
      BY <2>3 DEF EdgeIInv, LanesAgree
    <3>2. lanes'[lane] = lanes[lane] \cup S
      BY <1>10, <2>3 DEF Meant
    <3>3. lists[lane] \in SUBSET Kinds /\ lists[lane] # AnyKind
      BY <1>5, EdgeQueryAssumption
    <3> QED BY <1>6, <2>3, <3>1, <3>2, <3>3
  <2> QED BY <2>1, <2>2, <2>3
<1>12. LanesAgree'
  BY <1>7, <1>11 DEF LanesAgree
<1> QED BY <1>7, <1>8, <1>10, <1>12, BuilderCall DEF AddToLane

LEMMA CartesianStep ==
  ASSUME EdgeIInv, NEW p \in Products, Cartesian(p)
  PROVE  EdgeIInv'
<1> DEFINE given == [subjects |-> p[1], relations |-> p[2], targets |-> p[3]]
           empty == {l \in Lanes : given[l] = {}}
<1>1. p[1] \in SUBSET Kinds /\ p[2] \in SUBSET Kinds /\ p[3] \in SUBSET Kinds
  BY EdgeQueryAssumption
<1>2. given \in [Lanes -> SUBSET Kinds]
  BY <1>1 DEF Lanes
<1>3. builder \in Builders(DOMAIN queries)
  BY DEF EdgeIInv, TypeOK
<1>4. builder' = [builder EXCEPT !.lists = given, !.empty_lanes = empty] /\ lanes' = given
  BY DEF Cartesian, WithProduct
<1>5. empty \in SUBSET Lanes /\ \A l \in Lanes : l \in empty <=> given[l] = {}
  OBVIOUS
<1> HIDE DEF given, empty
<1>6. /\ builder' \in Builders(DOMAIN queries)
      /\ builder'.lists = given /\ builder'.empty_lanes = empty
  BY <1>2, <1>3, <1>4, <1>5 DEF Builders
<1>7. MaskOK(builder')
  BY <1>5, <1>6 DEF MaskOK
<1>8. LanesAgree'
  <2>1. \A l \in Lanes : given[l] # AnyKind
    BY <1>2, EdgeQueryAssumption
  <2> QED BY <1>4, <1>5, <1>6, <2>1 DEF LanesAgree
<1>9. lanes' \in [Lanes -> {AnyKind} \cup SUBSET Kinds]
  BY <1>2, <1>4
<1> QED BY <1>6, <1>7, <1>8, <1>9, BuilderCall DEF Cartesian

(* Direction, selection and sources leave the lanes alone. *)
LEMMA OtherCalls ==
  ASSUME EdgeIInv, Call, UNCHANGED <<lanes, queries, kept, at>>,
         builder' \in Builders(DOMAIN queries), builder'.lists = builder.lists,
         builder'.empty_lanes = builder.empty_lanes
  PROVE  EdgeIInv'
<1>1. MaskOK(builder') /\ lanes' \in [Lanes -> {AnyKind} \cup SUBSET Kinds]
  BY DEF EdgeIInv, TypeOK, MaskOK
<1>2. LanesAgree'
  BY DEF EdgeIInv, LanesAgree
<1> QED BY <1>1, <1>2, BuilderCall

LEMMA SetDirectionStep ==
  ASSUME EdgeIInv, NEW d \in Directions, SetDirection(d)
  PROVE  EdgeIInv'
<1>1. builder \in Builders(DOMAIN queries) /\ builder' = [builder EXCEPT !.direction = d]
  BY DEF EdgeIInv, TypeOK, SetDirection
<1>2. /\ builder' \in Builders(DOMAIN queries) /\ builder'.lists = builder.lists
      /\ builder'.empty_lanes = builder.empty_lanes
  BY <1>1 DEF Builders
<1> QED BY <1>2, OtherCalls DEF SetDirection

LEMMA SelectStep ==
  ASSUME EdgeIInv, NEW s \in Selections, Select(s)
  PROVE  EdgeIInv'
<1>1. builder \in Builders(DOMAIN queries) /\ builder' = [builder EXCEPT !.selection = s]
  BY DEF EdgeIInv, TypeOK, Select
<1>2. /\ builder' \in Builders(DOMAIN queries) /\ builder'.lists = builder.lists
      /\ builder'.empty_lanes = builder.empty_lanes
  BY <1>1 DEF Builders
<1> QED BY <1>2, OtherCalls DEF Select

LEMMA FromStep ==
  ASSUME EdgeIInv, NEW side \in Sides, NEW source \in Sources(DOMAIN queries), From(side, source)
  PROVE  EdgeIInv'
<1>1. builder \in Builders(DOMAIN queries)
  BY DEF EdgeIInv, TypeOK
<1> DEFINE sources == [builder.sources EXCEPT ![side] = Append(@, source)]
<1>2. builder' = [builder EXCEPT !.sources = sources]
  BY DEF From
<1>3. builder.sources \in [Sides -> Seq(Sources(DOMAIN queries))]
  BY <1>1 DEF Builders
<1>4. sources \in [Sides -> Seq(Sources(DOMAIN queries))]
  BY <1>3
<1> HIDE DEF sources
<1>5. /\ builder' \in Builders(DOMAIN queries) /\ builder'.lists = builder.lists
      /\ builder'.empty_lanes = builder.empty_lanes
  BY <1>1, <1>2, <1>4 DEF Builders
<1> QED BY <1>5, OtherCalls DEF From

(* A new query asks for nothing. *)
LEMMA BeginStep ==
  ASSUME EdgeIInv, NEW bound \in {None, snapshot.key}, Begin(bound), NEW places
  PROVE  /\ builder' \in Builders(places) /\ MaskOK(builder') /\ LanesAgree'
         /\ lanes' \in [Lanes -> {AnyKind} \cup SUBSET Kinds]
<1>1. snapshot.key \in Keys
  BY SnapshotTyped DEF SnapshotOK, EdgeIInv, TypeOK
<1>2. builder' = New(bound) /\ lanes' = [l \in Lanes |-> AnyKind]
  BY DEF Begin
<1>3. builder' \in Builders(places) /\ MaskOK(builder')
  BY <1>1, <1>2, NewTyped
<1>4. LanesAgree'
  BY <1>2 DEF LanesAgree, New
<1> QED BY <1>2, <1>3, <1>4

LEMMA KeepStep ==
  ASSUME EdgeIInv, NEW bound \in {None, snapshot.key}, Keep(bound)
  PROVE  EdgeIInv'
<1> DEFINE n == Len(queries)
<1>1. /\ queries \in Seq(Builders(Nat)) /\ n \in Nat /\ DOMAIN queries = 1..n
      /\ builder \in Builders(1..n) /\ MaskOK(builder)
      /\ \A q \in 1..n : queries[q] \in Builders(1..(q - 1)) /\ MaskOK(queries[q])
  BY DEF EdgeIInv, TypeOK
<1>2. builder \in Builders(Nat)
  <2>1. 1..n \subseteq Nat
    OBVIOUS
  <2> QED BY <1>1, <2>1, PlacesGrow
<1>3. queries' = Append(queries, builder)
  BY DEF Keep
<1>4. /\ queries' \in Seq(Builders(Nat)) /\ DOMAIN queries' = 1..(n + 1)
      /\ queries'[n + 1] = builder /\ \A q \in 1..n : queries'[q] = queries[q]
  BY <1>1, <1>2, <1>3
<1>5. ASSUME NEW q \in 1..(n + 1) PROVE queries'[q] \in Builders(1..(q - 1)) /\ MaskOK(queries'[q])
  <2> HIDE DEF n
  <2>1. CASE q \in 1..n
    BY <1>1, <1>4, <2>1
  <2>2. CASE q = n + 1
    <3>1. 1..(q - 1) = 1..n
      BY <1>1, <2>2
    <3> QED BY <1>1, <1>4, <2>2, <3>1
  <2> QED BY <1>1, <2>1, <2>2
<1>6. /\ builder' \in Builders(1..(n + 1)) /\ MaskOK(builder') /\ LanesAgree'
      /\ lanes' \in [Lanes -> {AnyKind} \cup SUBSET Kinds]
  BY BeginStep DEF Keep
<1>7. kept' \in Sources(1..(n + 1))
  <2>1. kept' = [tag |-> "Edge", query |-> n + 1] /\ n + 1 \in 1..(n + 1)
    BY <1>1 DEF Keep
  <2> HIDE DEF n
  <2> QED BY <2>1 DEF Sources
<1>8. calls' \in 0..MaxCalls /\ answer' = None /\ at' \in DOMAIN Snapshots
  BY EdgeQueryAssumption DEF Keep, Call, EdgeIInv, TypeOK
<1>9. TypeOK'
  <2> HIDE DEF n
  <2>1. \A q \in DOMAIN queries' : queries'[q] \in Builders(1..(q - 1)) /\ MaskOK(queries'[q])
    BY <1>4, <1>5
  <2>2. builder' \in Builders(DOMAIN queries') /\ kept' \in Sources(DOMAIN queries')
    BY <1>4, <1>6, <1>7
  <2> QED BY <1>4, <1>6, <1>8, <2>1, <2>2 DEF TypeOK, Builders, Sources, MaskOK
<1> QED BY <1>6, <1>8, <1>9 DEF EdgeIInv

LEMMA KeepCompiledStep ==
  ASSUME EdgeIInv, NEW bound \in {None, snapshot.key}, KeepCompiled(bound)
  PROVE  EdgeIInv'
<1>1. Call /\ Begin(bound) /\ UNCHANGED <<queries, at>>
  BY DEF KeepCompiled
<1>2. /\ builder' \in Builders(DOMAIN queries) /\ MaskOK(builder') /\ LanesAgree'
      /\ lanes' \in [Lanes -> {AnyKind} \cup SUBSET Kinds]
  BY <1>1, BeginStep
<1>3. kept' = [tag |-> "Compiled", key |-> snapshot.key, selection |-> builder.selection,
               subjects |-> Run(builder).subjects, targets |-> Run(builder).targets]
  BY DEF KeepCompiled
<1>4. kept' \in Sources(DOMAIN queries)
  <2>1. at \in DOMAIN Snapshots /\ builder \in Builders(DOMAIN queries)
    BY DEF EdgeIInv, TypeOK
  <2>2. snapshot.key \in Keys /\ builder.selection \in Selections
    BY <2>1, SnapshotTyped, BuilderShape DEF SnapshotOK
  <2>3. Run(builder).subjects \in SUBSET Kinds /\ Run(builder).targets \in SUBSET Kinds
    BY <2>1, RunTyped
  <2> QED BY <1>3, <2>2, <2>3 DEF Sources
<1>5. calls' \in 0..MaxCalls /\ answer' = None
  BY <1>1, EdgeQueryAssumption DEF Call, EdgeIInv, TypeOK
<1>6. TypeOK'
  BY <1>1, <1>2, <1>4, <1>5 DEF EdgeIInv, TypeOK, Builders, Sources, MaskOK
<1> QED BY <1>2, <1>5, <1>6 DEF EdgeIInv

LEMMA NextSnapshotStep == ASSUME EdgeIInv, NextSnapshot PROVE EdgeIInv'
<1>1. at' \in DOMAIN Snapshots
  BY EdgeQueryAssumption DEF NextSnapshot, EdgeIInv, TypeOK
<1>2. TypeOK'
  BY <1>1 DEF NextSnapshot, EdgeIInv, TypeOK, Builders, Sources, MaskOK
<1> QED BY <1>2 DEF NextSnapshot, EdgeIInv, LanesAgree

LEMMA RunEdgesStep == ASSUME EdgeIInv, RunEdges PROVE EdgeIInv'
<1>1. TypeOK' /\ LanesAgree'
  BY DEF RunEdges, EdgeIInv, TypeOK, LanesAgree, Builders, Sources, MaskOK
<1>2. Run(builder)' = Run(builder)
  BY RunsStay DEF RunEdges
<1> QED BY <1>1, <1>2 DEF RunEdges, EdgeIInv

LEMMA EdgeStutter == ASSUME EdgeIInv, UNCHANGED vars PROVE EdgeIInv'
<1>1. TypeOK' /\ LanesAgree'
  BY DEF vars, EdgeIInv, TypeOK, LanesAgree, Builders, Sources, MaskOK
<1>2. Run(builder)' = Run(builder)
  BY RunsStay DEF vars
<1> QED BY <1>1, <1>2 DEF vars, EdgeIInv

LEMMA EdgeNext == EdgeIInv /\ [Next]_vars => EdgeIInv'
<1> SUFFICES ASSUME EdgeIInv, [Next]_vars PROVE EdgeIInv'
  OBVIOUS
<1>1. CASE UNCHANGED vars
  BY <1>1, EdgeStutter
<1>2. CASE \E lane \in Lanes, S \in KindSets : AddToLane(lane, S)
  BY <1>2, AddToLaneStep
<1>3. CASE \E p \in Products : Cartesian(p)
  BY <1>3, CartesianStep
<1>4. CASE \E d \in Directions : SetDirection(d)
  BY <1>4, SetDirectionStep
<1>5. CASE \E s \in Selections : Select(s)
  BY <1>5, SelectStep
<1>6. CASE \E side \in Sides, source \in KindSources \cup TraversalSources : From(side, source)
  <2>1. KindSources \cup TraversalSources \subseteq Sources(DOMAIN queries)
    <3>1. \A S \in KindSets : [tag |-> "Kinds", kinds |-> S] \in [tag : {"Kinds"}, kinds : SUBSET Kinds]
      BY EdgeQueryAssumption
    <3> QED BY <3>1 DEF KindSources, Sources
  <2> QED BY <1>6, <2>1, FromStep
<1>7. CASE \E side \in Sides : kept # None /\ From(side, kept)
  <2>1. kept # None => kept \in Sources(DOMAIN queries)
    BY DEF EdgeIInv, TypeOK
  <2> QED BY <1>7, <2>1, FromStep
<1>8. CASE \E bound \in {None, snapshot.key} : Keep(bound) \/ KeepCompiled(bound)
  BY <1>8, KeepStep, KeepCompiledStep
<1>9. CASE NextSnapshot
  BY <1>9, NextSnapshotStep
<1>10. CASE RunEdges
  BY <1>10, RunEdgesStep
<1> QED BY <1>1, <1>2, <1>3, <1>4, <1>5, <1>6, <1>7, <1>8, <1>9, <1>10 DEF Next

-----------------------------------------------------------------------------
(* The theorems                                                            *)

(* Whatever calls are made on whatever queries, builder and lanes agree and
   an answer is that of the query as it stands.                            *)
THEOREM EdgeInvariance == Spec => []EdgeIInv
BY EdgeInit, EdgeNext, PTL DEF Spec

(* EdgeQueries.TypeOK for every instance: in particular no query is nested
   in itself, so that evaluating one ends.                                 *)
THEOREM EdgeTypeCorrect == Spec => []TypeOK
<1>1. EdgeIInv => TypeOK
  BY DEF EdgeIInv
<1> QED BY EdgeInvariance, <1>1, PTL

(* A query, however deeply others are nested in it, returns the edges its
   lanes and sources ask for (run_edges, resolve_kind_set, edge_matches).  *)
THEOREM QueriesReturnWhatIsMeant == Spec => []QueryAsMeant
<1>1. EdgeIInv => QueryAsMeant
  BY InvariantMeans
<1> QED BY EdgeInvariance, <1>1, PTL

(* A run fails exactly when its binding or a source it gets to is faulty,
   and reports the first such fault (the ? of resolve_kind_set and
   compile_uncached); a faulty source it does not get to, behind an empty
   set, leaves the query without a match.                                  *)
THEOREM FirstFaultIsReported == Spec => []FaultsAreFirst
<1>1. EdgeIInv => FaultsAreFirst
  BY InvariantFirstFaults
<1> QED BY EdgeInvariance, <1>1, PTL
=============================================================================
