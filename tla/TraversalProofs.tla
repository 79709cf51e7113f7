---------------------------- MODULE TraversalProofs ----------------------------
(***************************************************************************)
(* What a search over a snapshot finds, for any graph, any questions and   *)
(* any number of calls that share the scratch space: the invariants of the *)
(* run traversal.                                                          *)
(*                                                                         *)
(* Marks are at most their generation, so that a new generation starts     *)
(* with none of them, also when the counter wraps.  Within a call the      *)
(* marks are the kinds discovered so far (Exploring), what is expanded of  *)
(* a level has its neighbours discovered or pending (Expanding), and the   *)
(* results follow the discoveries (Collecting).  At the end: what a search *)
(* without bound finds is a least closed set.                              *)
(***************************************************************************)
EXTENDS Traversal, FiniteSetTheorems, TLAPS

-----------------------------------------------------------------------------
(* Numbers and sequences                                                   *)

(* Numbers are well-founded. *)
LEMMA LeastNumber ==
  ASSUME NEW S \in SUBSET Nat, S # {}
  PROVE  \E x \in S : \A y \in S : x <= y
<1> DEFINE R == {r \in Nat \X Nat : r[1] < r[2]}
<1>1. IsWellFoundedOn(R, Nat)
  BY NatLessThanWellFounded DEF OpToRel
<1>2. PICK x \in S : \A y \in S : ~(<<y, x>> \in R)
  <2> HIDE DEF R
  <2> QED BY <1>1, WFMin
<1>3. \A y \in S : x <= y
  <2> TAKE y \in S
  <2>1. x \in Nat /\ y \in Nat
    OBVIOUS
  <2>2. ~(y < x)
    BY <1>2, <2>1
  <2> QED BY <2>1, <2>2
<1> QED BY <1>3

(* Induction over an interval, as a statement about sets: the theorems of
   the library that take a predicate cannot be instantiated.               *)
LEMMA IntervalInduction ==
  ASSUME NEW n \in Nat, NEW S, 0 \in S, \A i \in 0..(n - 1) : i \in S => i + 1 \in S
  PROVE  0..n \subseteq S
<1> DEFINE bad == {i \in 0..n : i \notin S}
<1>1. bad \in SUBSET Nat
  OBVIOUS
<1>2. CASE bad # {}
  <2>1. PICK x \in bad : \A y \in bad : x <= y
    <3> HIDE DEF bad
    <3> QED BY <1>1, <1>2, LeastNumber
  <2>2. x \in 1..n /\ x \notin S
    BY <2>1
  <2>3. x - 1 \in 0..(n - 1) /\ x - 1 \notin bad
    BY <2>1, <2>2
  <2>4. x - 1 \in S
    BY <2>3
  <2>5. (x - 1) + 1 \in S
    BY <2>3, <2>4
  <2> QED BY <2>2, <2>5
<1> QED BY <1>2

NoRepeat(s) == \A i, j \in DOMAIN s : s[i] = s[j] => i = j

(* A list without repetitions is as long as what it holds. *)
LEMMA ListCardinality ==
  ASSUME NEW T, NEW s \in Seq(T), NoRepeat(s)
  PROVE  IsFiniteSet(Elements(s)) /\ Cardinality(Elements(s)) = Len(s)
<1>1. DOMAIN s = 1..Len(s) /\ Len(s) \in Nat /\ s \in [1..Len(s) -> T]
  OBVIOUS
<1>2. s \in Bijection(1..Len(s), Elements(s))
  BY <1>1 DEF Elements, NoRepeat, Bijection, Injection, Surjection, IsInjective
<1>3. ExistsBijection(1..Len(s), Elements(s))
  BY <1>2 DEF ExistsBijection
<1>4. IsFiniteSet(1..Len(s)) /\ Cardinality(1..Len(s)) = Len(s)
  BY <1>1, FS_Interval
<1> QED BY <1>3, <1>4, FS_Bijection

(* What appending and removing the first do to the elements. *)
LEMMA AppendElements ==
  ASSUME NEW T, NEW s \in Seq(T), NEW x \in T
  PROVE  /\ Append(s, x) \in Seq(T)
         /\ Elements(Append(s, x)) = Elements(s) \cup {x}
         /\ NoRepeat(s) /\ x \notin Elements(s) => NoRepeat(Append(s, x))
<1> DEFINE t == Append(s, x)
<1>1. /\ DOMAIN s = 1..Len(s) /\ Len(s) \in Nat
      /\ t \in Seq(T) /\ DOMAIN t = 1..(Len(s) + 1)
      /\ \A i \in 1..Len(s) : t[i] = s[i]
      /\ t[Len(s) + 1] = x
  OBVIOUS
<1> HIDE DEF t
<1>2. Elements(t) \subseteq Elements(s) \cup {x}
  BY <1>1 DEF Elements
<1>3. Elements(s) \cup {x} \subseteq Elements(t)
  <2>1. \A i \in 1..Len(s) : s[i] \in Elements(t)
    BY <1>1 DEF Elements
  <2>2. x \in Elements(t)
    BY <1>1 DEF Elements
  <2> QED BY <1>1, <2>1, <2>2 DEF Elements
<1>4. ASSUME NoRepeat(s), x \notin Elements(s) PROVE NoRepeat(t)
  <2>1. \A i \in 1..Len(s) : s[i] # x
    BY <1>1, <1>4 DEF Elements
  <2> QED BY <1>1, <1>4, <2>1 DEF NoRepeat
<1> QED BY <1>1, <1>2, <1>3, <1>4 DEF t

LEMMA TailElements ==
  ASSUME NEW T, NEW s \in Seq(T), s # <<>>
  PROVE  /\ Tail(s) \in Seq(T) /\ Head(s) \in Elements(s)
         /\ Elements(s) = {Head(s)} \cup Elements(Tail(s))
         /\ NoRepeat(s) => NoRepeat(Tail(s)) /\ Head(s) \notin Elements(Tail(s))
<1> DEFINE t == Tail(s)
<1>1. /\ DOMAIN s = 1..Len(s) /\ Len(s) \in Nat \ {0} /\ Head(s) = s[1]
      /\ t \in Seq(T) /\ DOMAIN t = 1..(Len(s) - 1)
      /\ \A i \in 1..(Len(s) - 1) : t[i] = s[i + 1]
  OBVIOUS
<1> HIDE DEF t
<1>2. Head(s) \in Elements(s) /\ Elements(t) \subseteq Elements(s)
  BY <1>1 DEF Elements
<1>3. \A i \in 1..Len(s) : i = 1 \/ (i - 1 \in 1..(Len(s) - 1) /\ s[i] = t[i - 1])
  BY <1>1
<1>4. Elements(s) \subseteq {Head(s)} \cup Elements(t)
  BY <1>1, <1>3 DEF Elements
<1>5. ASSUME NoRepeat(s) PROVE NoRepeat(t) /\ Head(s) \notin Elements(t)
  <2>1. \A i \in 1..(Len(s) - 1) : i + 1 \in 1..Len(s) /\ i + 1 # 1
    BY <1>1
  <2>2. NoRepeat(t)
    <3>1. ASSUME NEW i \in DOMAIN t, NEW j \in DOMAIN t, t[i] = t[j] PROVE i = j
      <4>1. s[i + 1] = s[j + 1] /\ i + 1 \in DOMAIN s /\ j + 1 \in DOMAIN s
        BY <1>1, <2>1, <3>1
      <4>2. i + 1 = j + 1
        BY <1>5, <4>1 DEF NoRepeat
      <4> QED BY <1>1, <4>2
    <3> QED BY <3>1 DEF NoRepeat
  <2>3. \A i \in 1..(Len(s) - 1) : t[i] # s[1]
    BY <1>1, <1>5, <2>1 DEF NoRepeat
  <2> QED BY <1>1, <2>2, <2>3 DEF Elements
<1> QED BY <1>1, <1>2, <1>4, <1>5 DEF t

LEMMA NoElements ==
  ASSUME NEW T, NEW s \in Seq(T)
  PROVE  Elements(s) = {} <=> s = <<>>
<1>1. DOMAIN s = 1..Len(s) /\ Len(s) \in Nat
  OBVIOUS
<1>2. CASE s = <<>>
  BY <1>2 DEF Elements
<1>3. CASE s # <<>>
  <2>1. 1 \in DOMAIN s
    BY <1>3
  <2> QED BY <1>3, <2>1 DEF Elements
<1> QED BY <1>2, <1>3

-----------------------------------------------------------------------------
(* Questions and snapshots                                                 *)

LEMMA CallFacts ==
  ASSUME NEW c \in Calls
  PROVE  /\ c.op \in {"traverse", "can_reach"}
         /\ c.seeds \in SUBSET Kinds /\ c.direction \in Directions /\ c.depth \in DepthSpec
         /\ c.op = "traverse" =>
              /\ c.include_start \in BOOLEAN /\ c.dedup \in BOOLEAN /\ c.stop_on_match \in BOOLEAN
              /\ c.max_results \in Nat \cup {None}
         /\ c.op = "can_reach" =>
              /\ c.depth.spec = "To" /\ c.depth.hops \in Nat /\ c.target \in Kinds
              /\ \E k \in Kinds : c.seeds = {k}
<1>1. c \in CallSet
  BY TraversalAssumption
<1>2. CASE c \in [op : {"traverse"}, seeds : SUBSET Kinds, relations : SUBSET Kinds,
                  direction : Directions, depth : DepthSpec, include_start : BOOLEAN,
                  dedup : BOOLEAN, stop_on_match : BOOLEAN, max_results : Nat \cup {None}]
  BY <1>2
<1>3. CASE c \in [op : {"can_reach"}, seeds : {{k} : k \in Kinds}, relations : {{r} : r \in Kinds},
                  direction : {"Outgoing"}, depth : [spec : {"To"}, hops : Nat], target : Kinds]
  <2>1. /\ c.op = "can_reach" /\ c.seeds \in {{k} : k \in Kinds} /\ c.direction = "Outgoing"
        /\ c.depth \in [spec : {"To"}, hops : Nat] /\ c.target \in Kinds
    BY <1>3
  <2>2. c.depth \in DepthSpec /\ c.depth.spec = "To" /\ c.depth.hops \in Nat
    BY <2>1 DEF DepthSpec
  <2> QED BY <2>1, <2>2 DEF Directions
<1> QED BY <1>1, <1>2, <1>3 DEF CallSet

(* How deep a question may go, and at which depth it wants its results. *)
LEMMA DepthFacts ==
  ASSUME call \in Calls
  PROVE  /\ MaxDepth \in Nat /\ ExactDepth \in Nat \cup {None} /\ None \notin Nat
         /\ ExactDepth # None => ExactDepth = MaxDepth
         /\ call.depth.spec \in {"To", "Transitive"} => ExactDepth = None
         /\ call.op = "can_reach" => ExactDepth = None /\ MaxDepth = call.depth.hops
<1>1. call.depth \in DepthSpec /\ None \notin Nat /\ Unbounded \in Nat
  BY CallFacts, TraversalAssumption
<1>2. \/ call.depth.spec = "One" \/ call.depth.spec = "Transitive"
      \/ call.depth.spec \in {"Exact", "To"} /\ call.depth.hops \in Nat
  BY <1>1 DEF DepthSpec
<1>3. call.op = "can_reach" => call.depth.spec = "To"
  BY CallFacts
<1> QED BY <1>1, <1>2, <1>3 DEF MaxDepth, ExactDepth

LEMMA SnapshotFacts ==
  ASSUME NEW s \in Snapshots
  PROVE  /\ s.kinds \in Seq(Kinds) /\ DOMAIN s.kinds = 1..Len(s.kinds) /\ Len(s.kinds) \in Nat
         /\ Elements(s.kinds) \subseteq Kinds
         /\ \A e \in s.edges : e[1] \in Kinds /\ e[2] \in Kinds /\ e[3] \in Kinds
<1>1. s.kinds \in Seq(Kinds)
      /\ s.edges \subseteq Elements(s.kinds) \X Elements(s.kinds) \X Elements(s.kinds)
  BY TraversalAssumption
<1>2. Elements(s.kinds) \subseteq Kinds
  BY <1>1 DEF Elements
<1>3. \A e \in s.edges : e[1] \in Elements(s.kinds) /\ e[2] \in Elements(s.kinds) /\ e[3] \in Elements(s.kinds)
  BY <1>1
<1> QED BY <1>1, <1>2, <1>3

(* A kind the snapshot knows has a place in it. *)
LEMMA DenseIndexFacts ==
  ASSUME snapshot \in Snapshots, NEW k \in Kinds, Known(k)
  PROVE  DenseIndex(k) \in 1..Len(snapshot.kinds) /\ snapshot.kinds[DenseIndex(k)] = k
<1>1. DOMAIN snapshot.kinds = 1..Len(snapshot.kinds)
  BY SnapshotFacts
<1>2. \E i \in DOMAIN snapshot.kinds : snapshot.kinds[i] = k
  BY DEF Known, Elements
<1> QED BY <1>1, <1>2 DEF DenseIndex

(* Dense order has a least kind in every set. *)
LEMMA ForemostFacts ==
  ASSUME snapshot \in Snapshots, NEW S \in SUBSET Kinds, S # {}
  PROVE  Foremost(S) \in S
<1>1. \A k \in Kinds : DenseKey(k) \in Nat
  <2> TAKE k \in Kinds
  <2>1. k \in Nat /\ Len(snapshot.kinds) \in Nat
    BY TraversalAssumption, SnapshotFacts
  <2>2. CASE Known(k)
    BY <2>1, <2>2, DenseIndexFacts DEF DenseKey
  <2>3. CASE ~Known(k)
    BY <2>1, <2>3 DEF DenseKey
  <2> QED BY <2>2, <2>3
<1> DEFINE T == {DenseKey(k) : k \in S}
<1>2. T \in SUBSET Nat /\ T # {}
  BY <1>1
<1>3. PICK x \in T : \A y \in T : x <= y
  <2> HIDE DEF T
  <2> QED BY <1>2, LeastNumber
<1>4. \E k \in S : \A j \in S : DenseKey(k) <= DenseKey(j)
  BY <1>3
<1> QED BY <1>4 DEF Foremost

(* The rows of the adjacency tables are the links of a kind. *)
LEMMA NeighboursAreLinked ==
  ASSUME snapshot \in Snapshots, call \in Calls, NEW k \in Kinds
  PROVE  Neighbours(k) = {b \in Kinds : Linked(k, b)}
<1>1. \A e \in snapshot.edges : e[1] \in Kinds /\ e[3] \in Kinds
  BY SnapshotFacts
<1>2. call.direction \in {"Outgoing", "Incoming", "Both"}
  BY CallFacts DEF Directions
<1>3. ASSUME NEW b \in Neighbours(k) PROVE b \in Kinds /\ Linked(k, b)
  BY <1>1, <1>2, <1>3 DEF Neighbours, Linked
<1>4. ASSUME NEW b \in Kinds, Linked(k, b) PROVE b \in Neighbours(k)
  <2>1. PICK e \in snapshot.edges :
          /\ call.relations = {} \/ e[2] \in call.relations
          /\ \/ call.direction \in {"Outgoing", "Both"} /\ e[1] = k /\ e[3] = b
             \/ call.direction \in {"Incoming", "Both"} /\ e[1] = b /\ e[3] = k
    BY <1>4 DEF Linked
  <2> QED BY <2>1 DEF Neighbours
<1> QED BY <1>3, <1>4

-----------------------------------------------------------------------------
(* Walks                                                                   *)

(* Where one edge leads. *)
Steps(S) == {b \in Kinds : \E a \in S : Linked(a, b)}

(* g gives the ends of the walks of up to n edges. *)
IsWalk(g, n) == g = [i \in 0..n |-> IF i = 0 THEN call.seeds ELSE Steps(g[i - 1])]

LEMMA WalksExist ==
  ASSUME NEW n \in Nat
  PROVE  \E g : IsWalk(g, n)
<1> DEFINE S == {i \in 0..n : \E g : IsWalk(g, i)}
<1>1. 0 \in S
  <2> DEFINE g == [i \in 0..0 |-> call.seeds]
  <2>1. IsWalk(g, 0)
    BY DEF IsWalk
  <2> QED BY <2>1
<1>2. ASSUME NEW i \in 0..(n - 1), i \in S PROVE i + 1 \in S
  <2>1. PICK g : IsWalk(g, i)
    BY <1>2
  <2> DEFINE h == [j \in 0..(i + 1) |-> IF j = i + 1 THEN Steps(g[i]) ELSE g[j]]
  <2>2. \A j \in 0..i : g[j] = IF j = 0 THEN call.seeds ELSE Steps(g[j - 1])
    BY <2>1 DEF IsWalk
  <2>3. ASSUME NEW j \in 0..(i + 1)
        PROVE  h[j] = IF j = 0 THEN call.seeds ELSE Steps(h[j - 1])
    <3>1. CASE j = i + 1
      BY <3>1, <1>2
    <3>2. CASE j # i + 1
      <4>1. j \in 0..i /\ (j # 0 => j - 1 \in 0..i)
        BY <3>2, <1>2
      <4>2. h[j] = g[j] /\ (j # 0 => h[j - 1] = g[j - 1])
        BY <4>1
      <4> QED BY <2>2, <4>1, <4>2
    <3> QED BY <3>1, <3>2
  <2>4. IsWalk(h, i + 1)
    <3>1. h = [j \in 0..(i + 1) |-> h[j]]
      OBVIOUS
    <3> HIDE DEF h
    <3> QED BY <2>3, <3>1 DEF IsWalk
  <2>5. i + 1 \in 0..n
    OBVIOUS
  <2> HIDE DEF h
  <2> QED BY <2>4, <2>5
<1>3. 0..n \subseteq S
  <2> HIDE DEF S
  <2> QED BY <1>1, <1>2, IntervalInduction
<1> QED BY <1>3

(* Walks of more edges continue walks of fewer. *)
LEMMA WalksAgree ==
  ASSUME NEW n \in Nat, NEW m \in Nat, n <= m, NEW g, IsWalk(g, n), NEW h, IsWalk(h, m)
  PROVE  \A i \in 0..n : g[i] = h[i]
<1> DEFINE S == {i \in 0..n : g[i] = h[i]}
<1>1. /\ \A i \in 0..n : g[i] = IF i = 0 THEN call.seeds ELSE Steps(g[i - 1])
      /\ \A i \in 0..m : h[i] = IF i = 0 THEN call.seeds ELSE Steps(h[i - 1])
  BY DEF IsWalk
<1>2. 0 \in S
  BY <1>1
<1>3. ASSUME NEW i \in 0..(n - 1), i \in S PROVE i + 1 \in S
  <2>1. g[i] = h[i] /\ i + 1 \in 0..n /\ i + 1 \in 0..m /\ i + 1 # 0 /\ (i + 1) - 1 = i
    BY <1>3
  <2>2. g[i + 1] = Steps(g[i]) /\ h[i + 1] = Steps(h[i])
    BY <1>1, <2>1
  <2> QED BY <2>1, <2>2
<1>4. 0..n \subseteq S
  <2> HIDE DEF S
  <2> QED BY <1>2, <1>3, IntervalInduction
<1> QED BY <1>4

LEMMA WalkIsWalk ==
  ASSUME NEW n \in Nat, NEW g, IsWalk(g, n)
  PROVE  Walk(n) = g[n]
<1>1. \A h : IsWalk(h, n) => h = g
  <2> TAKE h
  <2> HAVE IsWalk(h, n)
  <2>1. \A i \in 0..n : h[i] = g[i]
    BY WalksAgree
  <2>2. h = [i \in 0..n |-> h[i]] /\ g = [i \in 0..n |-> g[i]]
    BY DEF IsWalk
  <2> QED BY <2>1, <2>2
<1> QED BY <1>1 DEF Walk, IsWalk, Steps

(* The recursion of Walk, unfolded. *)
LEMMA WalkUnfolds ==
  /\ Walk(0) = call.seeds
  /\ \A n \in Nat : Walk(n + 1) = Steps(Walk(n))
<1>1. Walk(0) = call.seeds
  <2>1. PICK g : IsWalk(g, 0)
    BY WalksExist
  <2>2. Walk(0) = g[0]
    BY <2>1, WalkIsWalk
  <2> QED BY <2>1, <2>2 DEF IsWalk
<1>2. ASSUME NEW n \in Nat PROVE Walk(n + 1) = Steps(Walk(n))
  <2>1. PICK g : IsWalk(g, n + 1)
    BY WalksExist
  <2>2. PICK h : IsWalk(h, n)
    BY WalksExist
  <2>3. Walk(n + 1) = g[n + 1] /\ Walk(n) = h[n]
    BY <2>1, <2>2, WalkIsWalk
  <2>4. h[n] = g[n]
    BY <2>1, <2>2, WalksAgree
  <2>5. g[n + 1] = Steps(g[n])
    BY <2>1 DEF IsWalk
  <2> QED BY <2>3, <2>4, <2>5
<1> QED BY <1>1, <1>2

(* The question and the snapshot decide the walks. *)
LEMMA WalksStay ==
  ASSUME UNCHANGED <<snapshot, call>>
  PROVE  /\ \A a, b : Linked(a, b)' <=> Linked(a, b)
         /\ \A S : Steps(S)' = Steps(S)
         /\ \A n : Walk(n)' = Walk(n)
<1>1. \A a, b : Linked(a, b)' <=> Linked(a, b)
  BY DEF Linked
<1>2. \A S : Steps(S)' = Steps(S)
  BY DEF Linked, Steps
<1>3. \A n : Walk(n)' = Walk(n)
  BY DEF Walk, Linked
<1> QED BY <1>1, <1>2, <1>3

-----------------------------------------------------------------------------
(* Levels                                                                  *)

(* Where at least one and at most n edges lead. *)
Ball(n) == UNION {Walk(i) : i \in 1..n}

LEMMA StepsFacts ==
  /\ Steps({}) = {}
  /\ \A A, B : Steps(A \cup B) = Steps(A) \cup Steps(B)
  /\ \A A, B : A \subseteq B => Steps(A) \subseteq Steps(B)
  /\ \A A : Steps(A) \subseteq Kinds
BY DEF Steps

(* A walk leads to kinds. *)
LEMMA WalkInKinds ==
  ASSUME call \in Calls, NEW n \in Nat
  PROVE  Walk(n) \subseteq Kinds
<1>1. CASE n = 0
  <2>1. Walk(0) = call.seeds
    BY WalkUnfolds
  <2> QED BY <1>1, <2>1, CallFacts
<1>2. CASE n # 0
  <2>1. n - 1 \in Nat /\ (n - 1) + 1 = n
    BY <1>2
  <2>2. Walk((n - 1) + 1) = Steps(Walk(n - 1))
    BY <2>1, WalkUnfolds
  <2> QED BY <2>1, <2>2, StepsFacts
<1> QED BY <1>1, <1>2

LEMMA BallFacts ==
  /\ Ball(0) = {} /\ Within(0) = call.seeds /\ AtDistance(0) = call.seeds
  /\ \A n \in Nat :
       /\ Ball(n + 1) = Ball(n) \cup Walk(n + 1)
       /\ Within(n + 1) = Within(n) \cup Walk(n + 1)
       /\ AtDistance(n + 1) = Walk(n + 1) \ Within(n)
       /\ Within(n) = call.seeds \cup Ball(n)
<1>1. Ball(0) = {} /\ Within(0) = Walk(0) /\ AtDistance(0) = Walk(0)
  BY DEF Ball, Within, AtDistance
<1>2. ASSUME NEW n \in Nat
      PROVE  /\ Ball(n + 1) = Ball(n) \cup Walk(n + 1)
             /\ Within(n + 1) = Within(n) \cup Walk(n + 1)
             /\ AtDistance(n + 1) = Walk(n + 1) \ Within(n)
             /\ Within(n) = Walk(0) \cup Ball(n)
  <2>1. /\ 1..(n + 1) = (1..n) \cup {n + 1} /\ 0..(n + 1) = (0..n) \cup {n + 1}
        /\ 0..n = {0} \cup (1..n) /\ (n + 1) - 1 = n
    OBVIOUS
  <2>2. Ball(n + 1) = Ball(n) \cup Walk(n + 1)
    BY <2>1 DEF Ball
  <2>3. Within(n + 1) = Within(n) \cup Walk(n + 1)
    BY <2>1 DEF Within
  <2>4. AtDistance(n + 1) = Walk(n + 1) \ Within(n)
    BY <2>1 DEF Within, AtDistance
  <2>5. Within(n) = Walk(0) \cup Ball(n)
    BY <2>1 DEF Within, Ball
  <2> QED BY <2>2, <2>3, <2>4, <2>5
<1> QED BY <1>1, <1>2, WalkUnfolds

LEMMA BallsGrow ==
  ASSUME NEW m \in Nat, NEW n \in Nat, m <= n
  PROVE  Within(m) \subseteq Within(n) /\ Ball(m) \subseteq Ball(n) /\ AtDistance(n) \subseteq Walk(n)
<1>1. 0..m \subseteq 0..n /\ 1..m \subseteq 1..n
  OBVIOUS
<1> QED BY <1>1 DEF Within, Ball, AtDistance

(* One edge after at most n edges is at most n + 1 edges. *)
LEMMA StepsOfWithin ==
  \A n \in Nat : Steps(Within(n)) = Ball(n + 1)
<1> SUFFICES ASSUME NEW n \in Nat PROVE Steps(Within(n)) = Ball(n + 1)
  OBVIOUS
<1> DEFINE S == {i \in 0..n : Steps(Within(i)) = Ball(i + 1)}
<1>1. 0 \in S
  <2>1. 0 \in Nat /\ Within(0) = Walk(0) /\ Ball(0) = {}
    BY WalkUnfolds, BallFacts
  <2>2. Walk(0 + 1) = Steps(Walk(0)) /\ Ball(0 + 1) = Ball(0) \cup Walk(0 + 1)
    BY <2>1, WalkUnfolds, BallFacts
  <2> QED BY <2>1, <2>2
<1>2. ASSUME NEW i \in 0..(n - 1), i \in S PROVE i + 1 \in S
  <2>1. i \in Nat /\ i + 1 \in Nat /\ i + 1 \in 0..n
    OBVIOUS
  <2>2. Steps(Within(i + 1)) = Steps(Within(i)) \cup Steps(Walk(i + 1))
    BY <2>1, BallFacts, StepsFacts
  <2>3. Steps(Within(i)) = Ball(i + 1)
    BY <1>2
  <2>4. Steps(Walk(i + 1)) = Walk((i + 1) + 1)
    BY <2>1, WalkUnfolds
  <2>5. Ball((i + 1) + 1) = Ball(i + 1) \cup Walk((i + 1) + 1)
    BY <2>1, BallFacts
  <2> QED BY <2>1, <2>2, <2>3, <2>4, <2>5
<1>3. 0..n \subseteq S
  <2> HIDE DEF S
  <2> QED BY <1>1, <1>2, IntervalInduction
<1> QED BY <1>3

(* The next level comes from the kinds at the distance of this one. *)
LEMMA NextLevel ==
  ASSUME NEW n \in Nat
  PROVE  /\ Ball(n + 1) = Ball(n) \cup Steps(AtDistance(n))
         /\ Within(n + 1) = Within(n) \cup Steps(AtDistance(n))
         /\ Steps(AtDistance(n)) \subseteq Walk(n + 1)
<1>1. /\ Ball(n + 1) = Ball(n) \cup Walk(n + 1) /\ Walk(n + 1) = Steps(Walk(n))
      /\ Within(n) = call.seeds \cup Ball(n) /\ n + 1 \in Nat
      /\ Within(n + 1) = call.seeds \cup Ball(n + 1)
  BY BallFacts, WalkUnfolds
<1>2. Steps(AtDistance(n)) \subseteq Walk(n + 1)
  BY <1>1, StepsFacts, BallsGrow
<1>3. Steps(Walk(n)) \subseteq Ball(n) \cup Steps(AtDistance(n))
  <2>1. CASE n = 0
    BY <2>1, BallFacts, WalkUnfolds
  <2>2. CASE n # 0
    <3>1. PICK m \in Nat : n = m + 1
      <4>1. n - 1 \in Nat /\ n = (n - 1) + 1
        BY <2>2
      <4> QED BY <4>1
    <3>2. AtDistance(n) = Walk(n) \ Within(m)
      BY <3>1, BallFacts
    <3>3. Walk(n) \subseteq AtDistance(n) \cup Within(m)
      BY <3>2
    <3>4. Steps(Walk(n)) \subseteq Steps(AtDistance(n)) \cup Steps(Within(m))
      <4>1. Steps(Walk(n)) \subseteq Steps(AtDistance(n) \cup Within(m))
        BY <3>3, StepsFacts
      <4> QED BY <4>1, StepsFacts
    <3>5. Steps(Within(m)) = Ball(n)
      BY <3>1, StepsOfWithin
    <3> QED BY <3>4, <3>5
  <2> QED BY <2>1, <2>2
<1> QED BY <1>1, <1>2, <1>3

(* When a level leads nowhere new, no later one does. *)
LEMMA LastLevel ==
  ASSUME NEW n \in Nat, Steps(AtDistance(n)) \subseteq Within(n)
  PROVE  \A m \in Nat : m > n => /\ Within(m) = Within(n)
                                 /\ Ball(m) = Ball(n + 1)
                                 /\ AtDistance(m) = {}
<1>1. Within(n + 1) = Within(n) /\ n + 1 \in Nat
  <2>1. Within(n + 1) = Within(n) \cup Steps(AtDistance(n))
    BY NextLevel
  <2>2. Within(n) \cup Steps(AtDistance(n)) = Within(n)
    OBVIOUS
  <2> QED BY <2>1, <2>2
<1>2. \A k \in Nat : Within(k) = Within(n) => Ball(k + 1) = Ball(n + 1)
  BY StepsOfWithin
<1>3. \A k \in Nat : Within(k) = Within(n) => Within(k + 1) = Within(n)
  <2> TAKE k \in Nat
  <2> HAVE Within(k) = Within(n)
  <2>1. k + 1 \in Nat /\ Ball(k + 1) = Ball(n + 1)
    BY <1>2
  <2>2. Within(k + 1) = call.seeds \cup Ball(k + 1) /\ Within(n + 1) = call.seeds \cup Ball(n + 1)
    BY <1>1, <2>1, BallFacts
  <2> QED BY <1>1, <2>1, <2>2
<1>4. ASSUME NEW d \in Nat PROVE Within(n + d) = Within(n)
  <2> DEFINE S == {i \in 0..d : Within(n + i) = Within(n)}
  <2>1. 0 \in S
    BY DEF S
  <2>2. ASSUME NEW i \in 0..(d - 1), i \in S PROVE i + 1 \in S
    <3>1. n + i \in Nat /\ n + (i + 1) = (n + i) + 1 /\ i + 1 \in 0..d
      OBVIOUS
    <3>2. Within((n + i) + 1) = Within(n)
      BY <1>3, <2>2, <3>1
    <3> QED BY <3>1, <3>2
  <2>3. 0..d \subseteq S
    <3> HIDE DEF S
    <3> QED BY <2>1, <2>2, IntervalInduction
  <2> QED BY <2>3
<1>5. ASSUME NEW m \in Nat, m > n
      PROVE  Within(m) = Within(n) /\ Ball(m) = Ball(n + 1) /\ AtDistance(m) = {}
  <2>1. m - n \in Nat /\ n + (m - n) = m /\ (m - 1) - n \in Nat /\ n + ((m - 1) - n) = m - 1
        /\ m - 1 \in Nat /\ (m - 1) + 1 = m
    BY <1>5
  <2>2. Within(m) = Within(n) /\ Within(m - 1) = Within(n)
    BY <1>4, <2>1
  <2>3. Ball((m - 1) + 1) = Ball(n + 1)
    BY <1>2, <2>1, <2>2
  <2>4. /\ AtDistance((m - 1) + 1) = Walk((m - 1) + 1) \ Within(m - 1)
        /\ Within((m - 1) + 1) = Within(m - 1) \cup Walk((m - 1) + 1)
    BY <2>1, BallFacts
  <2>5. AtDistance((m - 1) + 1) = {}
    BY <2>1, <2>2, <2>4
  <2> QED BY <2>1, <2>2, <2>3, <2>5
<1> QED BY <1>5

-----------------------------------------------------------------------------
(* Marks                                                                   *)

Gens == 0..(Generations - 1)
MarkSpaces == [generation : Gens, marks : Seq(Gens), unknown : SUBSET Kinds]

(* No slot is ahead of the generation. *)
MarksOK(m) == m \in MarkSpaces /\ \A i \in DOMAIN m.marks : m.marks[i] <= m.generation

(* Every kind of the snapshot has a slot. *)
Covers(m) == MarksOK(m) /\ Len(snapshot.kinds) <= Len(m.marks)

MarkedIn(m) == {k \in Kinds : ~Fresh(m, k)}
Marked == MarkedIn(seen)
Returned == MarkedIn(result_seen)

LEMMA NoMarksOK == MarksOK(NoMarks)
<1>1. Generations \in Nat \ {0, 1}
  BY TraversalAssumption
<1>2. NoMarks.generation \in Gens /\ NoMarks.unknown \in SUBSET Kinds
      /\ NoMarks.marks \in Seq(Gens) /\ DOMAIN NoMarks.marks = {}
  BY <1>1 DEF NoMarks, Gens
<1>3. NoMarks \in MarkSpaces
  BY <1>2 DEF NoMarks, MarkSpaces
<1> QED BY <1>2, <1>3 DEF MarksOK

(* Marking a kind marks it and no other. *)
LEMMA MarkFacts ==
  ASSUME snapshot \in Snapshots, NEW m, Covers(m), NEW k \in Kinds
  PROVE  Covers(Mark(m, k)) /\ MarkedIn(Mark(m, k)) = MarkedIn(m) \cup {k}
<1>1. /\ m \in MarkSpaces /\ m.marks \in Seq(Gens) /\ m.generation \in Gens /\ m.unknown \in SUBSET Kinds
      /\ \A i \in DOMAIN m.marks : m.marks[i] <= m.generation
      /\ Len(snapshot.kinds) <= Len(m.marks) /\ Len(snapshot.kinds) \in Nat
      /\ Generations \in Nat \ {0, 1}
  BY SnapshotFacts, TraversalAssumption DEF Covers, MarksOK, MarkSpaces
<1>2. DOMAIN m.marks = 1..Len(m.marks) /\ Len(m.marks) \in Nat
  BY <1>1
<1>3. CASE Known(k)
  <2> DEFINE d == DenseIndex(k)
             w == [m.marks EXCEPT ![d] = m.generation]
             n == [m EXCEPT !.marks[d] = m.generation]
  <2>1. d \in 1..Len(snapshot.kinds) /\ snapshot.kinds[d] = k /\ d \in DOMAIN m.marks
    BY <1>1, <1>2, <1>3, DenseIndexFacts
  <2> HIDE DEF d
  <2>2. n.generation = m.generation /\ n.unknown = m.unknown /\ n.marks = w
        /\ n = [generation |-> m.generation, marks |-> w, unknown |-> m.unknown]
    <3>1. m = [generation |-> m.generation, marks |-> m.marks, unknown |-> m.unknown]
      BY <1>1 DEF MarkSpaces
    <3>2. n = [m EXCEPT !.marks = w]
      OBVIOUS
    <3> HIDE DEF n, w
    <3>3. n = [generation |-> m.generation, marks |-> w, unknown |-> m.unknown]
      BY <3>1, <3>2
    <3> QED BY <3>3
  <2>3. w \in Seq(Gens) /\ Len(w) = Len(m.marks) /\ DOMAIN w = DOMAIN m.marks
        /\ \A i \in DOMAIN w : w[i] = IF i = d THEN m.generation ELSE m.marks[i]
    BY <1>1, <1>2, <2>1
  <2> HIDE DEF n, w
  <2>4. Covers(n)
    <3>1. n \in MarkSpaces
      BY <1>1, <2>2, <2>3 DEF MarkSpaces
    <3>2. \A i \in DOMAIN w : w[i] <= m.generation
      <4>1. m.generation \in Nat
        BY <1>1 DEF Gens
      <4> QED BY <1>1, <2>3, <4>1
    <3> QED BY <1>1, <2>2, <2>3, <3>1, <3>2 DEF Covers, MarksOK
  <2>5. ASSUME NEW j \in Kinds PROVE ~Fresh(n, j) <=> ~Fresh(m, j) \/ j = k
    <3>1. CASE Known(j)
      <4>1. DenseIndex(j) \in 1..Len(snapshot.kinds) /\ snapshot.kinds[DenseIndex(j)] = j
        BY <3>1, DenseIndexFacts
      <4>2. DenseIndex(j) \in DOMAIN w
        BY <1>1, <1>2, <2>3, <4>1
      <4>3. DenseIndex(j) = d <=> j = k
        BY <2>1, <4>1 DEF d
      <4> QED BY <2>2, <2>3, <3>1, <4>2, <4>3 DEF Fresh
    <3>2. CASE ~Known(j)
      BY <1>3, <2>2, <3>2 DEF Fresh
    <3> QED BY <3>1, <3>2
  <2>6. Mark(m, k) = n
    BY <1>3 DEF Mark, n, d
  <2>7. MarkedIn(n) = MarkedIn(m) \cup {k}
    BY <2>5 DEF MarkedIn
  <2> QED BY <2>4, <2>6, <2>7
<1>4. CASE ~Known(k)
  <2> DEFINE n == [m EXCEPT !.unknown = m.unknown \cup {k}]
  <2>1. /\ n.generation = m.generation /\ n.unknown = m.unknown \cup {k} /\ n.marks = m.marks
        /\ n \in MarkSpaces
    BY <1>1 DEF MarkSpaces
  <2>2. Mark(m, k) = n
    BY <1>4 DEF Mark
  <2> HIDE DEF n
  <2>3. Covers(n)
    BY <1>1, <2>1 DEF Covers, MarksOK
  <2>4. ASSUME NEW j \in Kinds PROVE ~Fresh(n, j) <=> ~Fresh(m, j) \/ j = k
    BY <1>4, <2>1 DEF Fresh
  <2>5. MarkedIn(n) = MarkedIn(m) \cup {k}
    BY <2>4 DEF MarkedIn
  <2> QED BY <2>2, <2>3, <2>5
<1> QED BY <1>3, <1>4

(* A new generation has no marks yet, however far the counter was. *)
LEMMA AdvanceFacts ==
  ASSUME NEW m, MarksOK(m), NEW size \in Nat
  PROVE  LET n == Advance(m, size)
         IN /\ MarksOK(n) /\ size <= Len(n.marks) /\ n.unknown = {}
            /\ \A i \in 1..size : n.marks[i] # n.generation
<1> DEFINE next == IF m.generation + 1 = Generations THEN 0 ELSE m.generation + 1
           g == IF next = 0 THEN 1 ELSE next
           l == IF size > Len(m.marks) THEN size ELSE Len(m.marks)
           w == [i \in 1..l |-> IF next # 0 /\ i <= Len(m.marks) THEN m.marks[i] ELSE 0]
           n == [generation |-> g, marks |-> w, unknown |-> {}]
<1>1. /\ m.marks \in Seq(Gens) /\ m.generation \in Gens /\ Generations \in Nat \ {0, 1}
      /\ \A i \in DOMAIN m.marks : m.marks[i] <= m.generation
  BY TraversalAssumption DEF MarksOK, MarkSpaces
<1>2. DOMAIN m.marks = 1..Len(m.marks) /\ Len(m.marks) \in Nat /\ \A i \in DOMAIN m.marks : m.marks[i] \in Gens
  BY <1>1
<1>3. g \in Gens /\ next \in Nat /\ g > 0 /\ (next # 0 => g = m.generation + 1)
  BY <1>1 DEF Gens
<1>4. l \in Nat /\ size <= l
  BY <1>2
<1> HIDE DEF next, g, l
<1>5. \A i \in 1..l : w[i] \in Gens /\ w[i] < g
  <2> TAKE i \in 1..l
  <2>1. CASE next # 0 /\ i <= Len(m.marks)
    <3>1. i \in DOMAIN m.marks /\ w[i] = m.marks[i]
      BY <1>2, <2>1, <1>4
    <3> QED BY <1>1, <1>2, <1>3, <2>1, <3>1 DEF Gens
  <2>2. CASE ~(next # 0 /\ i <= Len(m.marks))
    <3>1. w[i] = 0
      BY <2>2
    <3> QED BY <1>1, <1>3, <3>1 DEF Gens
  <2> QED BY <2>1, <2>2
<1>6. w \in Seq(Gens) /\ Len(w) = l /\ DOMAIN w = 1..l
  BY <1>4, <1>5
<1>7. Advance(m, size) = n
  BY DEF Advance, g, next, l
<1> HIDE DEF w
<1>8. n.generation = g /\ n.marks = w /\ n.unknown = {} /\ n \in MarkSpaces
  BY <1>3, <1>6 DEF MarkSpaces
<1>9. \A i \in 1..l : w[i] <= g /\ w[i] # g
  BY <1>3, <1>5 DEF Gens
<1>10. 1..size \subseteq 1..l
  BY <1>4
<1> HIDE DEF n
<1> QED BY <1>4, <1>6, <1>7, <1>8, <1>9, <1>10 DEF MarksOK

-----------------------------------------------------------------------------
(* The invariant                                                           *)

Typed ==
  /\ MarksOK(seen) /\ MarksOK(result_seen)
  /\ frontier \in Seq(Kinds) /\ next_frontier \in Seq(Kinds) /\ results \in Seq(Kinds)
  /\ pending \in SUBSET Kinds /\ depth \in Nat
  /\ pc \in {"idle", "mark", "start", "level", "expand"}
  /\ snapshot \in Snapshots \cup {None} /\ call \in Calls \cup {None}
  /\ program \in DOMAIN Programs /\ calls \in 0..Len(Programs[program])

(* A search has a question with seeds and room for the marks, has discovered
   more kinds than it has levels behind it, and discovers each only once.  *)
Searching ==
  pc # "idle" =>
    /\ snapshot \in Snapshots /\ call \in Calls /\ call.seeds # {}
    /\ Covers(seen) /\ Covers(result_seen)
    /\ NoRepeat(frontier) /\ NoRepeat(next_frontier)
    /\ depth <= MaxDepth /\ depth <= Cardinality(Marked)
    /\ call.op = "can_reach" => call.target \notin call.seeds \cup Marked

(* Between the levels the marks are what is within the depth. *)
Exploring ==
  /\ pc = "mark" =>
       /\ depth = 0 /\ pending \subseteq call.seeds /\ next_frontier = <<>>
       /\ Marked = call.seeds \ pending /\ Elements(frontier) = Marked
  /\ pc = "start" =>
       /\ depth = 0 /\ pending # {} /\ pending \subseteq call.seeds
       /\ call.op = "traverse" /\ call.include_start
  /\ pc \in {"start", "level"} =>
       /\ Marked = Within(depth) /\ Elements(frontier) = AtDistance(depth)
       /\ depth < Cardinality(Marked) /\ frontier # <<>>
  /\ pc = "level" => pending = {}

(* Within a level the kinds that are expanded have their neighbours marked
   or pending, and what is new comes from this level.                      *)
Expanding ==
  pc = "expand" =>
    /\ depth \in Nat \ {0}
    /\ Elements(frontier) \subseteq AtDistance(depth - 1)
    /\ pending \subseteq Steps(AtDistance(depth - 1))
    /\ Marked = Within(depth - 1) \cup Elements(next_frontier)
    /\ Elements(next_frontier) \subseteq Steps(AtDistance(depth - 1)) \ Within(depth - 1)
    /\ \A a \in AtDistance(depth - 1) \ Elements(frontier) :
         Neighbours(a) \subseteq Marked \cup pending
    /\ next_frontier # <<>> => depth < Cardinality(Marked)

Starts == IF call.include_start THEN call.seeds ELSE {}
Limit == IF call.stop_on_match \/ call.max_results = 0 THEN 1 ELSE call.max_results

(* Nothing stands behind something farther away. *)
ByDistance(s) ==
  \A n \in 0..Horizon : \A i \in 1..(Len(s) - 1) :
    s[i + 1] \in Starts \cup Ball(n) => s[i] \in Starts \cup Ball(n)

(* The results are what was discovered at a depth that matches, and they
   have not reached their limit.                                           *)
Collecting ==
  pc # "idle" /\ call.op = "traverse" =>
    /\ pc = "mark" => results = <<>>
    /\ pc = "start" => Elements(results) = call.seeds \ pending
    /\ call.dedup => Returned = Elements(results) /\ NoRepeat(results)
    /\ ~Unlimited => Len(results) < Limit
    /\ ExactDepth = None =>
         /\ Elements(results) \subseteq Starts \cup Ball(depth)
         /\ pc \in {"level", "expand"} => Starts \subseteq Elements(results)
         /\ pc = "level" => Ball(depth) \subseteq Elements(results)
         /\ pc = "expand" => Ball(depth - 1) \subseteq Elements(results)
         /\ call.dedup => ByDistance(results)
    /\ ExactDepth # None /\ ~call.include_start =>
         /\ Elements(results) \subseteq Walk(ExactDepth)
         /\ depth < ExactDepth \/ depth = 0 => results = <<>>
         /\ pc = "level" /\ depth = ExactDepth /\ depth # 0 => AtDistance(depth) \subseteq Elements(results)
    /\ pc = "expand" /\ DepthMatches =>
         \A a \in AtDistance(depth - 1) \ Elements(frontier) :
           Neighbours(a) \subseteq Elements(results) \cup pending

SearchInv == Typed /\ Searching /\ Exploring /\ Expanding /\ Collecting

(* What the runs check of the answer v to a traversal query. *)
GoodAnswer(v) ==
  /\ Unlimited =>
       /\ ExactDepth = None => Elements(v) = AllResults
       /\ ExactDepth # None /\ ~call.include_start =>
            IF ExactDepth = 0 THEN Elements(v) = {}
            ELSE AtDistance(ExactDepth) \subseteq Elements(v) /\ Elements(v) \subseteq Walk(ExactDepth)
  /\ call.dedup /\ ExactDepth = None =>
       /\ Cardinality(Elements(v)) = Len(v) /\ ByDistance(v)
       /\ ~Unlimited =>
            /\ Elements(v) \subseteq AllResults
            /\ Len(v) = IF Cardinality(AllResults) < Limit THEN Cardinality(AllResults) ELSE Limit

AnswersGood == (Answered("traverse") => GoodAnswer(answer.value)) /\ CanReachAgrees

-----------------------------------------------------------------------------
(* Within a call                                                           *)

(* A question and its snapshot stay until the next. *)
LEMMA QuestionStays ==
  ASSUME UNCHANGED <<snapshot, call>>
  PROVE  /\ \A S : Steps(S)' = Steps(S)
         /\ \A n : Walk(n)' = Walk(n) /\ Within(n)' = Within(n) /\ Ball(n)' = Ball(n)
                   /\ AtDistance(n)' = AtDistance(n)
         /\ \A m : MarkedIn(m)' = MarkedIn(m) /\ (Covers(m)' <=> Covers(m))
         /\ \A k : Neighbours(k)' = Neighbours(k)
         /\ MaxDepth' = MaxDepth /\ ExactDepth' = ExactDepth /\ Horizon' = Horizon
         /\ Starts' = Starts /\ Limit' = Limit /\ (Unlimited' <=> Unlimited)
         /\ Found' = Found /\ AllResults' = AllResults
         /\ \A s : (ByDistance(s)' <=> ByDistance(s)) /\ (GoodAnswer(s)' <=> GoodAnswer(s))
<1>1. \A n : Walk(n)' = Walk(n)
  BY WalksStay
<1>2. \A n : Within(n)' = Within(n) /\ Ball(n)' = Ball(n) /\ AtDistance(n)' = AtDistance(n)
  BY <1>1 DEF Within, Ball, AtDistance
<1>3. \A m, k : Fresh(m, k)' <=> Fresh(m, k)
  BY DEF Fresh, Known, DenseIndex
<1>4. \A m : MarkedIn(m)' = MarkedIn(m) /\ (Covers(m)' <=> Covers(m))
  BY <1>3 DEF MarkedIn, Covers
<1>5. \A k : Neighbours(k)' = Neighbours(k)
  BY DEF Neighbours
<1>6. MaxDepth' = MaxDepth /\ ExactDepth' = ExactDepth
  BY DEF MaxDepth, ExactDepth
<1>7. Horizon' = Horizon
  BY <1>6 DEF Horizon
<1>8. Found' = Found
  BY <1>1, <1>7 DEF Found
<1>9. Starts' = Starts /\ Limit' = Limit /\ (Unlimited' <=> Unlimited)
  BY DEF Starts, Limit, Unlimited
<1>10. AllResults' = AllResults
  BY <1>8 DEF AllResults
<1>11. \A s : ByDistance(s)' <=> ByDistance(s)
  BY <1>2, <1>7, <1>9 DEF ByDistance
<1>12. \A s : GoodAnswer(s)' <=> GoodAnswer(s)
  BY <1>1, <1>2, <1>6, <1>9, <1>10, <1>11 DEF GoodAnswer
<1> QED BY <1>1, <1>2, <1>4, <1>5, <1>6, <1>7, <1>8, <1>9, <1>10, <1>11, <1>12, WalksStay

LEMMA MarkedFinite ==
  /\ Marked \in SUBSET Kinds
  /\ IsFiniteSet(Marked) /\ Cardinality(Marked) \in Nat /\ Cardinality(Kinds) \in Nat
  /\ Cardinality(Marked) <= Cardinality(Kinds)
<1>1. IsFiniteSet(Kinds) /\ Marked \in SUBSET Kinds
  BY TraversalAssumption DEF Marked, MarkedIn
<1> QED BY <1>1, FS_Subset, FS_CardinalityType

(* What looking at a kind does to the marks and to the list it may join. *)
LEMMA DiscoverFacts ==
  ASSUME snapshot \in Snapshots, Covers(seen), NEW k \in Kinds,
         NEW list \in Seq(Kinds), Elements(list) \subseteq Marked, NEW list2, NEW seen2,
         IF Fresh(seen, k) THEN list2 = Append(list, k) /\ seen2 = Mark(seen, k)
         ELSE list2 = list /\ seen2 = seen
  PROVE  /\ Covers(seen2) /\ MarkedIn(seen2) = Marked \cup {k}
         /\ list2 \in Seq(Kinds) /\ Elements(list2) = Elements(list) \cup ({k} \ Marked)
         /\ NoRepeat(list) => NoRepeat(list2)
         /\ Cardinality(Marked) <= Cardinality(MarkedIn(seen2))
         /\ Cardinality(MarkedIn(seen2)) \in Nat
         /\ k \notin Marked => Cardinality(MarkedIn(seen2)) = Cardinality(Marked) + 1
<1>1. Fresh(seen, k) <=> k \notin Marked
  BY DEF Marked, MarkedIn
<1>2. /\ IsFiniteSet(Marked) /\ Cardinality(Marked) \in Nat
      /\ Cardinality(Marked \cup {k}) = IF k \in Marked THEN Cardinality(Marked) ELSE Cardinality(Marked) + 1
  BY MarkedFinite, FS_AddElement
<1>3. CASE k \in Marked
  <2>1. list2 = list /\ seen2 = seen /\ Marked \cup {k} = Marked /\ {k} \ Marked = {}
    BY <1>1, <1>3
  <2>2. MarkedIn(seen2) = Marked
    BY <2>1 DEF Marked
  <2> QED BY <1>2, <1>3, <2>1, <2>2
<1>4. CASE k \notin Marked
  <2>1. list2 = Append(list, k) /\ seen2 = Mark(seen, k) /\ {k} \ Marked = {k} /\ k \notin Elements(list)
    BY <1>1, <1>4
  <2>2. Covers(seen2) /\ MarkedIn(seen2) = Marked \cup {k}
    BY <2>1, MarkFacts DEF Marked
  <2> QED BY <1>2, <1>4, <2>1, <2>2, AppendElements
<1> QED BY <1>3, <1>4

(* What pushing a kind does to the results and their marks. *)
LEMMA PushFacts ==
  ASSUME snapshot \in Snapshots, call.dedup \in BOOLEAN, Covers(result_seen), NEW k \in Kinds,
         results \in Seq(Kinds), call.dedup => Returned = Elements(results) /\ NoRepeat(results),
         NEW results2, NEW seen2,
         IF call.dedup /\ ~Fresh(result_seen, k) THEN results2 = results /\ seen2 = result_seen
         ELSE /\ results2 = Append(results, k)
              /\ seen2 = IF call.dedup THEN Mark(result_seen, k) ELSE result_seen
  PROVE  /\ Covers(seen2)
         /\ results2 \in Seq(Kinds) /\ Elements(results2) = Elements(results) \cup {k}
         /\ call.dedup => MarkedIn(seen2) = Elements(results2) /\ NoRepeat(results2)
         /\ Len(results2) \in Nat \ {0} /\ Len(results2) <= Len(results) + 1 /\ Len(results) \in Nat
         /\ \/ results2 = results /\ k \in Elements(results)
            \/ results2 = Append(results, k) /\ (call.dedup => k \notin Elements(results))
<1>1. Fresh(result_seen, k) <=> k \notin Returned
  BY DEF Returned, MarkedIn
<1>2. Len(results) \in Nat /\ DOMAIN results = 1..Len(results)
  OBVIOUS
<1>3. CASE call.dedup /\ k \in Returned
  <2>1. results2 = results /\ seen2 = result_seen /\ k \in Elements(results)
    BY <1>1, <1>3
  <2>2. Len(results) # 0
    <3>1. Elements(results) # {}
      BY <2>1
    <3> QED BY <1>2, <3>1 DEF Elements
  <2>3. MarkedIn(seen2) = Returned
    BY <2>1 DEF Returned
  <2>4. Covers(seen2) /\ Elements(results2) = Elements(results) \cup {k}
    BY <2>1
  <2>5. call.dedup => MarkedIn(seen2) = Elements(results2) /\ NoRepeat(results2)
    BY <2>1, <2>3
  <2>6. Len(results2) \in Nat \ {0} /\ Len(results2) <= Len(results) + 1
    <3>1. Len(results2) = Len(results)
      BY <2>1
    <3> DEFINE l == Len(results)
    <3>2. l \in Nat /\ l # 0
      BY <1>2, <2>2
    <3> HIDE DEF l
    <3>3. l \in Nat \ {0} /\ l <= l + 1
      BY <3>2
    <3> QED BY <3>1, <3>3 DEF l
  <2> QED BY <1>2, <2>1, <2>4, <2>5, <2>6
<1>4. CASE ~(call.dedup /\ k \in Returned)
  <2>1. results2 = Append(results, k) /\ seen2 = IF call.dedup THEN Mark(result_seen, k) ELSE result_seen
    BY <1>1, <1>4
  <2>2. results2 \in Seq(Kinds) /\ Elements(results2) = Elements(results) \cup {k}
        /\ (NoRepeat(results) /\ k \notin Elements(results) => NoRepeat(results2))
    BY <2>1, AppendElements
  <2>3. Len(results2) \in Nat \ {0} /\ Len(results2) <= Len(results) + 1
    <3>1. Len(results2) = Len(results) + 1
      BY <2>1
    <3> QED BY <1>2, <3>1
  <2>4. call.dedup => k \notin Elements(results)
    BY <1>4
  <2>5. CASE call.dedup
    <3>1. Covers(seen2) /\ MarkedIn(seen2) = Returned \cup {k}
      BY <2>1, <2>5, MarkFacts DEF Returned
    <3>2. MarkedIn(seen2) = Elements(results2) /\ NoRepeat(results2)
      BY <2>2, <2>4, <2>5, <3>1
    <3> QED BY <1>2, <2>1, <2>2, <2>3, <2>4, <3>1, <3>2
  <2>6. CASE ~call.dedup
    <3>1. seen2 = result_seen
      BY <2>1, <2>6
    <3> QED BY <1>2, <2>1, <2>2, <2>3, <2>6, <3>1
  <2> QED BY <2>5, <2>6
<1> QED BY <1>3, <1>4

-----------------------------------------------------------------------------
(* The invariant holds                                                     *)

LEMMA SearchStart == Init => SearchInv
<1> SUFFICES ASSUME Init PROVE SearchInv
  OBVIOUS
<1>1. MarksOK(seen) /\ MarksOK(result_seen)
  BY NoMarksOK DEF Init
<1>2. program \in DOMAIN Programs /\ calls \in 0..Len(Programs[program])
  <2>1. Programs \in Seq(Seq([snapshots : SUBSET Snapshots, calls : SUBSET Calls]))
    BY TraversalAssumption
  <2>2. program \in DOMAIN Programs /\ calls = 0
    BY DEF Init
  <2>3. Programs[program] \in Seq([snapshots : SUBSET Snapshots, calls : SUBSET Calls])
    BY <2>1, <2>2
  <2>4. Len(Programs[program]) \in Nat
    BY <2>3
  <2> QED BY <2>2, <2>4
<1>3. /\ frontier = <<>> /\ next_frontier = <<>> /\ pending = {} /\ depth = 0 /\ results = <<>>
      /\ pc = "idle" /\ snapshot = None /\ call = None
  BY DEF Init
<1>4. Typed
  BY <1>1, <1>2, <1>3 DEF Typed
<1> QED BY <1>3, <1>4 DEF SearchInv, Searching, Exploring, Expanding, Collecting

(* The seeds are marked, each once. *)
LEMMA MarkSeedStep == ASSUME SearchInv, MarkSeed PROVE SearchInv'
<1> DEFINE k == Foremost(pending)
<1>1. /\ pc = "mark" /\ pc' = "mark" /\ pending # {} /\ pending' = pending \ {k}
      /\ IF Fresh(seen, k) THEN frontier' = Append(frontier, k) /\ seen' = Mark(seen, k)
         ELSE frontier' = frontier /\ seen' = seen
      /\ UNCHANGED <<result_seen, next_frontier, depth, results, pc, snapshot, call, answer, asked>>
  BY DEF MarkSeed, Discover
<1>2. /\ Typed /\ Searching /\ Exploring /\ Expanding /\ Collecting
  BY DEF SearchInv
<1>3. /\ snapshot \in Snapshots /\ call \in Calls /\ call.seeds # {}
      /\ Covers(seen) /\ Covers(result_seen) /\ NoRepeat(frontier) /\ NoRepeat(next_frontier)
      /\ depth = 0 /\ depth <= MaxDepth /\ depth <= Cardinality(Marked)
      /\ call.op = "can_reach" => call.target \notin call.seeds \cup Marked
      /\ pending \subseteq call.seeds /\ next_frontier = <<>>
      /\ Marked = call.seeds \ pending /\ Elements(frontier) = Marked
      /\ call.seeds \in SUBSET Kinds
  BY <1>1, <1>2, CallFacts DEF Searching, Exploring
<1>4. k \in pending /\ k \in Kinds /\ k \in call.seeds
  BY <1>1, <1>2, <1>3, ForemostFacts DEF Typed
<1> HIDE DEF k
<1>5. /\ Covers(seen') /\ MarkedIn(seen') = Marked \cup {k}
      /\ frontier' \in Seq(Kinds) /\ Elements(frontier') = Elements(frontier) \cup ({k} \ Marked)
      /\ NoRepeat(frontier')
      /\ Cardinality(MarkedIn(seen')) \in Nat
  <2>1. frontier \in Seq(Kinds)
    BY <1>2 DEF Typed
  <2> QED BY <1>1, <1>3, <1>4, <2>1, DiscoverFacts
<1>6. /\ \A m : MarkedIn(m)' = MarkedIn(m) /\ (Covers(m)' <=> Covers(m))
      /\ MaxDepth' = MaxDepth /\ \A n : Walk(n)' = Walk(n) /\ Ball(n)' = Ball(n)
      /\ Starts' = Starts /\ Limit' = Limit /\ Horizon' = Horizon /\ (Unlimited' <=> Unlimited)
      /\ ExactDepth' = ExactDepth /\ \A s : ByDistance(s)' <=> ByDistance(s)
  BY <1>1, QuestionStays
<1>7. Marked' = call.seeds \ pending' /\ Cardinality(Marked)' \in Nat
  <2>1. Marked' = MarkedIn(seen')
    BY <1>6 DEF Marked
  <2> QED BY <1>1, <1>3, <1>4, <1>5, <2>1
<1>8. Typed'
  <2>1. MarksOK(seen')
    BY <1>5 DEF Covers
  <2> QED BY <1>1, <1>2, <1>5, <2>1 DEF Typed, asked
<1>9. Searching'
  <2>1. Covers(seen)' /\ Covers(result_seen)'
    BY <1>1, <1>3, <1>5, <1>6
  <2>2. depth' <= MaxDepth' /\ depth' <= Cardinality(Marked)'
    <3>1. depth' = 0 /\ MaxDepth' = MaxDepth /\ depth' <= MaxDepth'
      BY <1>1, <1>3, <1>6
    <3> QED BY <1>7, <3>1
  <2>3. (call.op = "can_reach" => call.target \notin call.seeds \cup Marked)'
    BY <1>1, <1>3, <1>7
  <2> QED BY <1>1, <1>3, <1>5, <2>1, <2>2, <2>3 DEF Searching
<1>10. Exploring' /\ Expanding'
  BY <1>1, <1>3, <1>4, <1>5, <1>7 DEF Exploring, Expanding
<1>11. Collecting'
  BY <1>1, <1>2, <1>6 DEF Collecting, Returned
<1> QED BY <1>8, <1>9, <1>10, <1>11 DEF SearchInv

(* All seeds are marked: they are the level at distance 0. *)
LEMMA SeedsMarkedStep == ASSUME SearchInv, SeedsMarked PROVE SearchInv'
<1>1. /\ pc = "mark" /\ pending = {}
      /\ \/ /\ call.op = "traverse" /\ call.include_start
            /\ pc' = "start" /\ pending' = call.seeds
         \/ /\ ~(call.op = "traverse" /\ call.include_start)
            /\ pc' = "level" /\ pending' = {}
      /\ UNCHANGED <<seen, result_seen, frontier, next_frontier, depth, results,
                     snapshot, call, answer, asked>>
  BY DEF SeedsMarked
<1>2. /\ Typed /\ Searching /\ Exploring /\ Expanding /\ Collecting
  BY DEF SearchInv
<1>3. /\ snapshot \in Snapshots /\ call \in Calls /\ call.seeds # {}
      /\ Covers(seen) /\ Covers(result_seen) /\ NoRepeat(frontier) /\ NoRepeat(next_frontier)
      /\ depth = 0 /\ depth <= MaxDepth /\ depth <= Cardinality(Marked)
      /\ call.op = "can_reach" => call.target \notin call.seeds \cup Marked
      /\ Marked = call.seeds /\ Elements(frontier) = call.seeds
      /\ call.seeds \in SUBSET Kinds
  BY <1>1, <1>2, CallFacts DEF Searching, Exploring
<1>4. /\ \A m : MarkedIn(m)' = MarkedIn(m) /\ (Covers(m)' <=> Covers(m))
      /\ MaxDepth' = MaxDepth /\ ExactDepth' = ExactDepth
      /\ \A n : Walk(n)' = Walk(n) /\ Ball(n)' = Ball(n) /\ Within(n)' = Within(n)
                /\ AtDistance(n)' = AtDistance(n)
      /\ Starts' = Starts /\ Limit' = Limit /\ (Unlimited' <=> Unlimited)
      /\ \A s : ByDistance(s)' <=> ByDistance(s)
  BY <1>1, QuestionStays
<1>5. Marked' = Marked /\ Returned' = Returned
  BY <1>1, <1>4 DEF Marked, Returned
<1>6. Typed'
  BY <1>1, <1>2, <1>3 DEF Typed, asked
<1>7. Searching'
  <2>1. Covers(seen)' /\ Covers(result_seen)'
    BY <1>1, <1>3, <1>4
  <2>2. depth' <= MaxDepth' /\ depth' <= Cardinality(Marked)'
    BY <1>1, <1>3, <1>4, <1>5
  <2> QED BY <1>1, <1>3, <1>5, <2>1, <2>2 DEF Searching
<1>8. Cardinality(Marked) \in Nat \ {0} /\ frontier # <<>>
  <2>1. IsFiniteSet(Marked) /\ Cardinality(Marked) \in Nat
    BY MarkedFinite
  <2>2. Cardinality(Marked) # 0
    BY <1>3, <2>1, FS_EmptySet
  <2>3. frontier # <<>>
    BY <1>3 DEF Elements
  <2> QED BY <2>1, <2>2, <2>3
<1>9. Within(0) = call.seeds /\ AtDistance(0) = call.seeds /\ Ball(0) = {}
  BY BallFacts
<1>10. Exploring'
  <2>1. Marked' = Within(depth)' /\ Elements(frontier)' = AtDistance(depth)'
    BY <1>1, <1>3, <1>4, <1>5, <1>9
  <2>2. depth' < Cardinality(Marked)' /\ frontier' # <<>> /\ depth' = 0
    BY <1>1, <1>3, <1>5, <1>8
  <2> QED BY <1>1, <1>3, <2>1, <2>2 DEF Exploring
<1>11. Expanding'
  BY <1>1 DEF Expanding
<1>12. ASSUME call.op = "traverse" PROVE Collecting'
  <2>1. /\ results = <<>> /\ Elements(results) = {}
        /\ call.dedup => Returned = Elements(results) /\ NoRepeat(results)
        /\ ~Unlimited => Len(results) < Limit
        /\ ExactDepth = None /\ call.dedup => ByDistance(results)
    BY <1>1, <1>2, <1>12 DEF Collecting, Elements
  <2>2. /\ pc' \in {"start", "level"} /\ depth' = 0 /\ results' = <<>> /\ Elements(results)' = {}
        /\ call' = call
        /\ pc' = "start" => call.include_start /\ pending' = call.seeds
        /\ pc' = "level" => Starts = {}
    BY <1>1, <1>3, <1>12, <2>1 DEF Starts
  <2>3. (Ball(depth) = {})'
    BY <1>4, <1>9, <2>2
  <2>4. /\ (call.dedup => Returned = Elements(results) /\ NoRepeat(results))'
        /\ (~Unlimited => Len(results) < Limit)'
        /\ (ExactDepth = None /\ call.dedup => ByDistance(results))'
    BY <1>1, <1>4, <1>5, <2>1, <2>2
  <2>5. ExactDepth' = None =>
          /\ Elements(results)' \subseteq Starts' \cup Ball(depth)'
          /\ pc' \in {"level", "expand"} => Starts' \subseteq Elements(results)'
          /\ pc' = "level" => Ball(depth)' \subseteq Elements(results)'
    BY <1>4, <2>2, <2>3
  <2> QED BY <2>2, <2>4, <2>5 DEF Collecting
<1>13. ASSUME call.op # "traverse" PROVE Collecting'
  BY <1>1, <1>13 DEF Collecting
<1> QED BY <1>6, <1>7, <1>10, <1>11, <1>12, <1>13 DEF SearchInv

-----------------------------------------------------------------------------
(* Answers                                                                 *)

(* When a limit is reached. *)
LEMMA LimitFacts ==
  ASSUME call \in Calls, call.op = "traverse"
  PROVE  /\ ~Unlimited => Limit \in Nat \ {0}
         /\ \A n \in Nat \ {0} :
              /\ EnoughResults(n) => ~Unlimited
              /\ ~Unlimited /\ n <= Limit => (EnoughResults(n) <=> n = Limit)
<1>1. call.stop_on_match \in BOOLEAN /\ call.max_results \in Nat \cup {None} /\ None \notin Nat
  BY CallFacts, TraversalAssumption
<1>2. CASE call.stop_on_match
  BY <1>1, <1>2 DEF Unlimited, Limit, EnoughResults
<1>3. CASE ~call.stop_on_match /\ call.max_results = None
  BY <1>1, <1>3 DEF Unlimited, Limit, EnoughResults
<1>4. CASE ~call.stop_on_match /\ call.max_results = 0
  BY <1>1, <1>4 DEF Unlimited, Limit, EnoughResults
<1>5. CASE ~call.stop_on_match /\ call.max_results \in Nat \ {0}
  BY <1>1, <1>5 DEF Unlimited, Limit, EnoughResults
<1> QED BY <1>1, <1>2, <1>3, <1>4, <1>5

(* What is searched ends where the promises of an answer end. *)
LEMMA HorizonFacts ==
  ASSUME call \in Calls, Searching, pc # "idle", depth \in Nat
  PROVE  /\ Horizon \in Nat /\ depth <= Horizon /\ Horizon <= MaxDepth
         /\ Found = Ball(Horizon) /\ Ball(depth) \subseteq Found
         /\ call.op = "traverse" => AllResults = Starts \cup Found
<1>1. MaxDepth \in Nat /\ Cardinality(Kinds) \in Nat /\ Cardinality(Marked) \in Nat
      /\ Cardinality(Marked) <= Cardinality(Kinds)
  BY DepthFacts, MarkedFinite
<1>2. depth <= MaxDepth /\ depth <= Cardinality(Marked)
  BY DEF Searching
<1>3. Horizon \in Nat /\ depth <= Horizon /\ Horizon <= MaxDepth
  BY <1>1, <1>2 DEF Horizon
<1>4. Found = Ball(Horizon)
  BY DEF Found, Ball
<1>5. Ball(depth) \subseteq Ball(Horizon)
  BY <1>3, BallsGrow
<1> QED BY <1>3, <1>4, <1>5 DEF AllResults, Starts

(* An answer that was cut short. *)
LEMMA CutAnswer ==
  ASSUME call \in Calls, call.op = "traverse", ~Unlimited,
         NEW v \in Seq(Kinds), Len(v) = Limit, call.dedup => NoRepeat(v),
         ExactDepth = None => Elements(v) \subseteq AllResults /\ (call.dedup => ByDistance(v))
  PROVE  GoodAnswer(v)
<1> SUFFICES ASSUME call.dedup, ExactDepth = None
             PROVE  /\ Cardinality(Elements(v)) = Len(v)
                    /\ Len(v) = IF Cardinality(AllResults) < Limit THEN Cardinality(AllResults) ELSE Limit
  BY DEF GoodAnswer
<1>1. Cardinality(Elements(v)) = Len(v)
  BY ListCardinality
<1>2. AllResults \subseteq Kinds
  <2>1. MaxDepth \in Nat /\ Cardinality(Kinds) \in Nat
    BY DepthFacts, MarkedFinite
  <2>2. Horizon \in Nat
    BY <2>1 DEF Horizon
  <2>3. \A i \in 1..Horizon : Walk(i) \subseteq Kinds
    BY <2>2, WalkInKinds
  <2> QED BY <2>3, CallFacts DEF AllResults, Found
<1>3. IsFiniteSet(AllResults) /\ Cardinality(AllResults) \in Nat
  BY <1>2, TraversalAssumption, FS_Subset, FS_CardinalityType
<1>4. Cardinality(Elements(v)) <= Cardinality(AllResults)
  BY <1>3, FS_Subset
<1>5. Limit \in Nat
  BY LimitFacts
<1> QED BY <1>1, <1>3, <1>4, <1>5

(* An answer that holds all there is. *)
LEMMA FullAnswer ==
  ASSUME call \in Calls, call.op = "traverse",
         NEW v \in Seq(Kinds), ~Unlimited => Len(v) < Limit, call.dedup => NoRepeat(v),
         ExactDepth = None => Elements(v) = AllResults /\ (call.dedup => ByDistance(v)),
         ExactDepth # None /\ ~call.include_start =>
            IF ExactDepth = 0 THEN Elements(v) = {}
            ELSE AtDistance(ExactDepth) \subseteq Elements(v) /\ Elements(v) \subseteq Walk(ExactDepth)
  PROVE  GoodAnswer(v)
<1>1. call.dedup => Cardinality(Elements(v)) = Len(v)
  BY ListCardinality
<1>2. ~Unlimited /\ call.dedup /\ ExactDepth = None =>
        Len(v) = IF Cardinality(AllResults) < Limit THEN Cardinality(AllResults) ELSE Limit
  BY <1>1
<1> QED BY <1>1, <1>2 DEF GoodAnswer

(* Appending what is no nearer than what is there. *)
LEMMA AppendByDistance ==
  ASSUME NEW s \in Seq(Kinds), ByDistance(s), NEW k \in Kinds,
         \A n \in 0..Horizon : k \in Starts \cup Ball(n) => Elements(s) \subseteq Starts \cup Ball(n)
  PROVE  ByDistance(Append(s, k))
<1> DEFINE t == Append(s, k)
<1> SUFFICES ASSUME NEW n \in 0..Horizon, NEW i \in 1..(Len(t) - 1), t[i + 1] \in Starts \cup Ball(n)
             PROVE  t[i] \in Starts \cup Ball(n)
  BY DEF ByDistance
<1>1. /\ Len(s) \in Nat /\ DOMAIN s = 1..Len(s) /\ Len(t) = Len(s) + 1
      /\ \A j \in 1..Len(s) : t[j] = s[j]
      /\ t[Len(s) + 1] = k
  OBVIOUS
<1> HIDE DEF t
<1>2. i \in 1..Len(s) /\ t[i] = s[i] /\ i \in DOMAIN s
  BY <1>1
<1>3. CASE i = Len(s)
  <2>1. k \in Starts \cup Ball(n)
    BY <1>1, <1>3
  <2>2. s[i] \in Elements(s)
    BY <1>2 DEF Elements
  <2> QED BY <1>2, <2>1, <2>2
<1>4. CASE i # Len(s)
  <2>1. i \in 1..(Len(s) - 1) /\ t[i + 1] = s[i + 1]
    BY <1>1, <1>2, <1>4
  <2> QED BY <1>2, <2>1 DEF ByDistance
<1> QED BY <1>3, <1>4

LEMMA NotAnswered == ASSUME pc' # "idle" PROVE AnswersGood'
BY DEF AnswersGood, Answered, CanReachAgrees

LEMMA TraverseAnswered ==
  ASSUME UNCHANGED <<snapshot, call>>, call.op = "traverse", NEW v,
         answer' = [fault |-> "Ok", value |-> v], GoodAnswer(v)
  PROVE  AnswersGood'
<1>1. GoodAnswer(v)'
  BY QuestionStays
<1>2. answer'.value = v
  OBVIOUS
<1>3. GoodAnswer(answer.value)'
  BY <1>1, <1>2
<1> QED BY <1>3 DEF AnswersGood, CanReachAgrees, Answered

LEMMA CanReachAnswered ==
  ASSUME UNCHANGED <<snapshot, call>>, call.op = "can_reach", NEW v,
         answer' = [fault |-> "Ok", value |-> v], v <=> call.target \in call.seeds \cup Found
  PROVE  AnswersGood'
<1>1. Found' = Found
  BY QuestionStays
<1> QED BY <1>1 DEF AnswersGood, CanReachAgrees, Answered

(* A search that has returned. *)
LEMMA Returns == ASSUME pc' = "idle", Typed' PROVE SearchInv'
BY DEF SearchInv, Searching, Exploring, Expanding, Collecting

-----------------------------------------------------------------------------
(* The seeds as results                                                    *)

LEMMA PushSeedFacts ==
  ASSUME SearchInv, PushSeed
  PROVE  LET k == Foremost(pending)
         IN /\ pc = "start" /\ call.op = "traverse" /\ call.include_start /\ depth = 0
            /\ k \in pending /\ pending' = pending \ {k} /\ pending' \subseteq call.seeds
            /\ Covers(result_seen')
            /\ results' \in Seq(Kinds) /\ Elements(results') = call.seeds \ pending'
            /\ call.dedup => MarkedIn(result_seen') = Elements(results') /\ NoRepeat(results')
            /\ Len(results') \in Nat \ {0} /\ (~Unlimited => Len(results') <= Limit)
            /\ ExactDepth = None /\ call.dedup => ByDistance(results')
<1> DEFINE k == Foremost(pending)
<1>1. /\ pc = "start" /\ pending' = pending \ {k}
      /\ IF call.dedup /\ ~Fresh(result_seen, k) THEN results' = results /\ result_seen' = result_seen
         ELSE /\ results' = Append(results, k)
              /\ result_seen' = IF call.dedup THEN Mark(result_seen, k) ELSE result_seen
  BY DEF PushSeed, PushResult
<1>2. /\ Typed /\ Searching /\ Exploring /\ Collecting
  BY DEF SearchInv
<1>3. /\ snapshot \in Snapshots /\ call \in Calls /\ Covers(result_seen)
      /\ call.op = "traverse" /\ call.include_start /\ depth = 0
      /\ pending # {} /\ pending \subseteq call.seeds
  BY <1>1, <1>2 DEF Searching, Exploring
<1>4. /\ results \in Seq(Kinds) /\ Elements(results) = call.seeds \ pending
      /\ call.dedup => Returned = Elements(results) /\ NoRepeat(results)
      /\ ~Unlimited => Len(results) < Limit
      /\ ExactDepth = None /\ call.dedup => ByDistance(results)
  BY <1>1, <1>2, <1>3 DEF Collecting, Typed
<1>5. call.dedup \in BOOLEAN /\ call.seeds \in SUBSET Kinds
  BY <1>3, CallFacts
<1>6. k \in pending /\ k \in Kinds
  BY <1>3, <1>5, ForemostFacts
<1> HIDE DEF k
<1>7. /\ Covers(result_seen')
      /\ results' \in Seq(Kinds) /\ Elements(results') = Elements(results) \cup {k}
      /\ call.dedup => MarkedIn(result_seen') = Elements(results') /\ NoRepeat(results')
      /\ Len(results') \in Nat \ {0} /\ Len(results') <= Len(results) + 1 /\ Len(results) \in Nat
      /\ \/ results' = results /\ k \in Elements(results)
         \/ results' = Append(results, k) /\ (call.dedup => k \notin Elements(results))
  BY <1>1, <1>3, <1>4, <1>5, <1>6, PushFacts
<1>8. Elements(results') = call.seeds \ pending'
  BY <1>1, <1>3, <1>4, <1>6, <1>7
<1>9. ~Unlimited => Len(results') <= Limit
  <2>1. ~Unlimited => Limit \in Nat
    BY <1>3, LimitFacts
  <2> QED BY <1>4, <1>7, <2>1
<1>10. ASSUME ExactDepth = None, call.dedup PROVE ByDistance(results')
  <2>1. CASE results' = results
    BY <1>4, <1>10, <2>1
  <2>2. CASE results' = Append(results, k)
    <3>1. Elements(results) \subseteq Starts
      BY <1>3, <1>4 DEF Starts
    <3> QED BY <1>4, <1>6, <1>10, <2>2, <3>1, AppendByDistance
  <2> QED BY <1>7, <2>1, <2>2
<1> QED BY <1>1, <1>3, <1>6, <1>7, <1>8, <1>9, <1>10 DEF k

LEMMA PushSeedStep == ASSUME SearchInv, PushSeed PROVE SearchInv' /\ AnswersGood'
<1> DEFINE k == Foremost(pending)
<1>1. /\ pc = "start" /\ call.op = "traverse" /\ call.include_start /\ depth = 0
      /\ k \in pending /\ pending' = pending \ {k} /\ pending' \subseteq call.seeds
      /\ Covers(result_seen')
      /\ results' \in Seq(Kinds) /\ Elements(results') = call.seeds \ pending'
      /\ call.dedup => MarkedIn(result_seen') = Elements(results') /\ NoRepeat(results')
      /\ Len(results') \in Nat \ {0} /\ (~Unlimited => Len(results') <= Limit)
      /\ ExactDepth = None /\ call.dedup => ByDistance(results')
  BY PushSeedFacts
<1> HIDE DEF k
<1>2. /\ \/ /\ EnoughResults(Len(results'))
            /\ answer' = [fault |-> "Ok", value |-> results'] /\ pc' = "idle"
         \/ /\ ~EnoughResults(Len(results'))
            /\ pc' = (IF pending' = {} THEN "level" ELSE "start") /\ answer' = answer
      /\ UNCHANGED <<seen, frontier, next_frontier, depth, snapshot, call, asked>>
  BY DEF PushSeed, Answer
<1>3. /\ Typed /\ Searching /\ Exploring /\ Expanding /\ Collecting
  BY DEF SearchInv
<1>4. /\ snapshot \in Snapshots /\ call \in Calls /\ call.seeds # {}
      /\ Covers(seen) /\ NoRepeat(frontier) /\ NoRepeat(next_frontier)
      /\ depth <= MaxDepth /\ depth <= Cardinality(Marked)
      /\ Marked = Within(depth) /\ Elements(frontier) = AtDistance(depth)
      /\ depth < Cardinality(Marked) /\ frontier # <<>>
  BY <1>1, <1>3 DEF Searching, Exploring
<1>5. Typed'
  <2>1. MarksOK(result_seen') /\ pending' \in SUBSET Kinds
    BY <1>1, <1>3 DEF Covers, Typed
  <2> QED BY <1>1, <1>2, <1>3, <2>1 DEF Typed, asked
<1>6. EnoughResults(Len(results')) => ~Unlimited /\ Len(results') = Limit
  BY <1>1, <1>4, LimitFacts
<1>7. ~EnoughResults(Len(results')) => (~Unlimited => Len(results') < Limit)
  <2>1. ~Unlimited => Limit \in Nat /\ (Len(results') = Limit => EnoughResults(Len(results')))
    BY <1>1, <1>4, LimitFacts
  <2> QED BY <1>1, <2>1
<1>8. Elements(results') \subseteq Starts
  BY <1>1 DEF Starts
<1>9. CASE EnoughResults(Len(results'))
  <2>1. Starts \subseteq AllResults
    BY <1>1 DEF Starts, AllResults
  <2>2. GoodAnswer(results')
    BY <1>1, <1>4, <1>6, <1>8, <1>9, <2>1, CutAnswer
  <2> QED BY <1>1, <1>2, <1>5, <1>9, <2>2, TraverseAnswered, Returns
<1>10. CASE ~EnoughResults(Len(results'))
  <2>1. /\ \A m : MarkedIn(m)' = MarkedIn(m) /\ (Covers(m)' <=> Covers(m))
        /\ MaxDepth' = MaxDepth /\ ExactDepth' = ExactDepth
        /\ \A n : Walk(n)' = Walk(n) /\ Ball(n)' = Ball(n) /\ Within(n)' = Within(n)
                  /\ AtDistance(n)' = AtDistance(n)
        /\ Starts' = Starts /\ Limit' = Limit /\ (Unlimited' <=> Unlimited)
        /\ \A s : ByDistance(s)' <=> ByDistance(s)
    BY <1>2, QuestionStays
  <2>2. Marked' = Marked /\ Returned' = MarkedIn(result_seen')
    BY <1>2, <2>1 DEF Marked, Returned
  <2>3. pc' = (IF pending' = {} THEN "level" ELSE "start") /\ call' = call /\ depth' = 0
    BY <1>1, <1>2, <1>10
  <2>4. Searching'
    <3>1. Covers(seen)' /\ Covers(result_seen)'
      BY <1>1, <1>2, <1>4, <2>1
    <3>2. depth' <= MaxDepth' /\ depth' <= Cardinality(Marked)'
      BY <1>2, <1>4, <2>1, <2>2
    <3> QED BY <1>1, <1>2, <1>4, <3>1, <3>2 DEF Searching
  <2>5. Exploring'
    <3>1. Marked' = Within(depth)' /\ Elements(frontier)' = AtDistance(depth)'
          /\ depth' < Cardinality(Marked)' /\ frontier' # <<>>
      BY <1>2, <1>4, <2>1, <2>2
    <3> QED BY <1>1, <2>3, <3>1 DEF Exploring
  <2>6. Expanding'
    BY <2>3 DEF Expanding
  <2>7. Collecting'
    <3>1. Ball(depth)' = {}
      BY <2>1, <2>3, BallFacts
    <3>2. /\ (call.dedup => Returned = Elements(results) /\ NoRepeat(results))'
          /\ (~Unlimited => Len(results) < Limit)'
          /\ (ExactDepth = None /\ call.dedup => ByDistance(results))'
          /\ (pc = "start" => Elements(results) = call.seeds \ pending)'
      BY <1>1, <1>7, <1>10, <2>1, <2>2, <2>3
    <3>3. Elements(results)' \subseteq Starts' /\ (pc' = "level" => Starts' \subseteq Elements(results)')
      BY <1>1, <1>8, <2>1, <2>3 DEF Starts
    <3> QED BY <1>1, <2>3, <3>1, <3>2, <3>3 DEF Collecting
  <2> QED BY <1>5, <2>3, <2>4, <2>5, <2>6, <2>7, NotAnswered DEF SearchInv
<1> QED BY <1>9, <1>10

-----------------------------------------------------------------------------
(* Between levels                                                          *)

(* A search that found all there is returns its results as they are: the
   limit it did not reach cuts nothing off.                                *)
LEMMA FinishAnswers ==
  ASSUME SearchInv, pc \in {"level", "expand"}, Finish, UNCHANGED <<snapshot, call>>,
         call.op = "can_reach" => call.target \notin Found,
         call.op = "traverse" /\ ExactDepth = None => Found \subseteq Elements(results),
         call.op = "traverse" /\ ExactDepth # None /\ ~call.include_start =>
           IF ExactDepth = 0 THEN Elements(results) = {} ELSE AtDistance(ExactDepth) \subseteq Elements(results)
  PROVE  pc' = "idle" /\ AnswersGood'
<1>1. Typed /\ Searching /\ Collecting
  BY DEF SearchInv
<1>2. call \in Calls /\ results \in Seq(Kinds) /\ depth \in Nat
  BY <1>1 DEF Searching, Typed
<1>3. CASE call.op = "can_reach"
  <2>1. pc' = "idle" /\ answer' = [fault |-> "Ok", value |-> FALSE]
    BY <1>3 DEF Finish, Answer
  <2>2. call.target \notin call.seeds \cup Found
    BY <1>1, <1>3 DEF Searching
  <2> QED BY <1>3, <2>1, <2>2, CanReachAnswered
<1>4. CASE call.op # "can_reach"
  <2>1. call.op = "traverse"
    BY <1>2, <1>4, CallFacts
  <2>2. /\ call.dedup => NoRepeat(results)
        /\ ~Unlimited => Len(results) < Limit
        /\ ExactDepth = None =>
             /\ Elements(results) \subseteq Starts \cup Ball(depth)
             /\ Starts \subseteq Elements(results)
             /\ call.dedup => ByDistance(results)
        /\ ExactDepth # None /\ ~call.include_start => Elements(results) \subseteq Walk(ExactDepth)
    BY <1>1, <2>1 DEF Collecting
  <2>3. ~(call.max_results # None /\ Len(results) > call.max_results)
    <3>1. Len(results) \in Nat /\ call.max_results \in Nat \cup {None}
      BY <1>2, <2>1, CallFacts
    <3>2. CASE call.max_results = None
      BY <3>2
    <3>3. CASE call.max_results = 0
      <4>1. ~Unlimited /\ Limit = 1
        BY <3>3, TraversalAssumption DEF Unlimited, Limit
      <4> QED BY <2>2, <3>1, <3>3, <4>1
    <3>4. CASE call.max_results \in Nat \ {0}
      <4>1. ~Unlimited /\ Limit \in {1, call.max_results}
        BY <3>4, TraversalAssumption DEF Unlimited, Limit
      <4> QED BY <2>2, <3>1, <3>4, <4>1
    <3> QED BY <3>1, <3>2, <3>3, <3>4
  <2>4. pc' = "idle" /\ answer' = [fault |-> "Ok", value |-> results]
    BY <1>4, <2>3 DEF Finish, Answer
  <2>5. ExactDepth = None => Elements(results) = AllResults
    <3>1. AllResults = Starts \cup Found /\ Ball(depth) \subseteq Found
      BY <1>1, <1>2, <2>1, HorizonFacts
    <3> QED BY <2>1, <2>2, <3>1
  <2>6. GoodAnswer(results)
    BY <1>2, <2>1, <2>2, <2>5, FullAnswer
  <2> QED BY <2>1, <2>4, <2>6, TraverseAnswered
<1> QED BY <1>3, <1>4

LEMMA BeginLevelStep == ASSUME SearchInv, BeginLevel PROVE SearchInv' /\ AnswersGood'
<1>1. /\ pc = "level"
      /\ \/ /\ MoreLevels /\ depth' = depth + 1 /\ next_frontier' = <<>>
            /\ pc' = "expand" /\ answer' = answer
         \/ ~MoreLevels /\ Finish /\ UNCHANGED <<depth, next_frontier>>
      /\ UNCHANGED <<seen, result_seen, frontier, pending, results, snapshot, call, asked>>
  BY DEF BeginLevel
<1>2. /\ Typed /\ Searching /\ Exploring /\ Expanding /\ Collecting
  BY DEF SearchInv
<1>3. /\ snapshot \in Snapshots /\ call \in Calls /\ call.seeds # {} /\ depth \in Nat
      /\ Covers(seen) /\ Covers(result_seen) /\ NoRepeat(frontier) /\ NoRepeat(next_frontier)
      /\ depth <= MaxDepth /\ depth <= Cardinality(Marked)
      /\ call.op = "can_reach" => call.target \notin call.seeds \cup Marked
      /\ Marked = Within(depth) /\ Elements(frontier) = AtDistance(depth)
      /\ depth < Cardinality(Marked) /\ frontier # <<>> /\ pending = {}
  BY <1>1, <1>2 DEF Searching, Exploring, Typed
<1>4. MaxDepth \in Nat /\ Cardinality(Marked) \in Nat
  BY <1>3, DepthFacts, MarkedFinite
<1>5. CASE ~MoreLevels
  <2>1. Finish /\ UNCHANGED <<snapshot, call, depth, next_frontier>>
    BY <1>1, <1>5
  <2>2. depth = MaxDepth
    BY <1>3, <1>4, <1>5 DEF MoreLevels
  <2>3. Found = Ball(depth)
    <3>1. Horizon \in Nat /\ depth <= Horizon /\ Horizon <= MaxDepth /\ Found = Ball(Horizon)
      BY <1>1, <1>2, <1>3, HorizonFacts
    <3>2. Horizon = depth
      BY <1>3, <1>4, <2>2, <3>1
    <3> QED BY <3>1, <3>2
  <2>4. call.op = "can_reach" => call.target \notin Found
    BY <1>3, <2>3, BallFacts
  <2>5. call.op = "traverse" /\ ExactDepth = None => Found \subseteq Elements(results)
    BY <1>1, <1>2, <2>3 DEF Collecting
  <2>6. call.op = "traverse" /\ ExactDepth # None /\ ~call.include_start =>
          IF ExactDepth = 0 THEN Elements(results) = {} ELSE AtDistance(ExactDepth) \subseteq Elements(results)
    <3> SUFFICES ASSUME call.op = "traverse", ExactDepth # None, ~call.include_start
                 PROVE  IF ExactDepth = 0 THEN Elements(results) = {}
                        ELSE AtDistance(ExactDepth) \subseteq Elements(results)
      OBVIOUS
    <3>1. ExactDepth = depth
      BY <1>3, <2>2, DepthFacts
    <3>2. /\ depth = 0 => results = <<>>
          /\ depth # 0 => AtDistance(depth) \subseteq Elements(results)
      BY <1>1, <1>2, <3>1 DEF Collecting
    <3> QED BY <3>1, <3>2 DEF Elements
  <2>7. pc' = "idle" /\ AnswersGood'
    BY <1>1, <2>1, <2>4, <2>5, <2>6, FinishAnswers
  <2>8. Typed'
    BY <1>1, <1>2, <2>1, <2>7 DEF Typed, asked
  <2> QED BY <2>7, <2>8, Returns
<1>6. CASE MoreLevels
  <2>1. depth' = depth + 1 /\ next_frontier' = <<>> /\ pc' = "expand" /\ depth < MaxDepth
    BY <1>1, <1>6 DEF MoreLevels
  <2>2. /\ \A m : MarkedIn(m)' = MarkedIn(m) /\ (Covers(m)' <=> Covers(m))
        /\ MaxDepth' = MaxDepth /\ ExactDepth' = ExactDepth
        /\ \A n : Walk(n)' = Walk(n) /\ Ball(n)' = Ball(n) /\ Within(n)' = Within(n)
                  /\ AtDistance(n)' = AtDistance(n)
        /\ Starts' = Starts /\ Limit' = Limit /\ (Unlimited' <=> Unlimited)
        /\ \A s : ByDistance(s)' <=> ByDistance(s)
    BY <1>1, QuestionStays
  <2>3. Marked' = Marked /\ Returned' = Returned
    BY <1>1, <2>2 DEF Marked, Returned
  <2>4. NoRepeat(<<>>) /\ Elements(<<>>) = {}
    BY DEF NoRepeat, Elements
  <2>5. Typed'
    BY <1>1, <1>2, <1>3, <2>1 DEF Typed, asked
  <2>6. Searching'
    <3>1. Covers(seen)' /\ Covers(result_seen)'
      BY <1>1, <1>3, <2>2
    <3>2. depth' <= MaxDepth' /\ depth' <= Cardinality(Marked)'
      BY <1>3, <1>4, <2>1, <2>2, <2>3
    <3> QED BY <1>1, <1>3, <2>1, <2>3, <2>4, <3>1, <3>2 DEF Searching
  <2>7. depth' - 1 = depth /\ depth' \in Nat \ {0}
    BY <1>3, <2>1
  <2>8. AtDistance(depth - 1)' = AtDistance(depth) /\ Within(depth - 1)' = Within(depth)
        /\ Ball(depth - 1)' = Ball(depth)
    BY <2>2, <2>7
  <2>9. Exploring'
    BY <2>1 DEF Exploring
  <2>10. Expanding'
    <3>1. (Elements(frontier) \subseteq AtDistance(depth - 1))' /\ (pending \subseteq Steps(AtDistance(depth - 1)))'
      BY <1>1, <1>3, <2>8
    <3>2. (Marked = Within(depth - 1) \cup Elements(next_frontier))'
          /\ (Elements(next_frontier) \subseteq Steps(AtDistance(depth - 1)) \ Within(depth - 1))'
      BY <1>3, <2>1, <2>3, <2>4, <2>8
    <3>3. (AtDistance(depth - 1) \ Elements(frontier))' = {}
      BY <1>1, <1>3, <2>8
    <3> QED BY <2>1, <2>7, <3>1, <3>2, <3>3 DEF Expanding
  <2>11. ASSUME call.op = "traverse" PROVE Collecting'
    <3>1. /\ call.dedup => Returned = Elements(results) /\ NoRepeat(results)
          /\ ~Unlimited => Len(results) < Limit
          /\ ExactDepth = None =>
               /\ Elements(results) \subseteq Starts \cup Ball(depth)
               /\ Starts \subseteq Elements(results)
               /\ Ball(depth) \subseteq Elements(results)
               /\ call.dedup => ByDistance(results)
          /\ ExactDepth # None /\ ~call.include_start =>
               /\ Elements(results) \subseteq Walk(ExactDepth)
               /\ depth < ExactDepth => results = <<>>
      BY <1>1, <1>2, <2>11 DEF Collecting
    <3>2. Ball(depth) \subseteq Ball(depth + 1)
      BY <1>3, BallFacts
    <3>3. ExactDepth' = None =>
            /\ Elements(results)' \subseteq Starts' \cup Ball(depth)'
            /\ Starts' \subseteq Elements(results)'
            /\ Ball(depth - 1)' \subseteq Elements(results)'
            /\ call'.dedup => ByDistance(results)'
      BY <1>1, <2>1, <2>2, <2>8, <3>1, <3>2
    <3>4. ExactDepth' # None /\ ~call'.include_start =>
            /\ Elements(results)' \subseteq Walk(ExactDepth)'
            /\ depth' < ExactDepth' \/ depth' = 0 => results' = <<>>
      <4>1. ExactDepth \in Nat \cup {None}
        BY <1>3, DepthFacts
      <4> QED BY <1>1, <1>3, <2>1, <2>2, <2>7, <3>1, <4>1
    <3>5. (AtDistance(depth - 1) \ Elements(frontier))' = {}
      BY <1>1, <1>3, <2>8
    <3>6. (call.dedup => Returned = Elements(results) /\ NoRepeat(results))'
          /\ (~Unlimited => Len(results) < Limit)'
      BY <1>1, <2>2, <2>3, <3>1
    <3> QED BY <2>1, <3>3, <3>4, <3>5, <3>6 DEF Collecting
  <2>12. ASSUME call.op # "traverse" PROVE Collecting'
    BY <1>1, <2>12 DEF Collecting
  <2> QED BY <2>1, <2>5, <2>6, <2>9, <2>10, <2>11, <2>12, NotAnswered DEF SearchInv
<1> QED BY <1>5, <1>6

-----------------------------------------------------------------------------
(* Within a level                                                          *)

(* A kind of the level is expanded: its neighbours are pending. *)
LEMMA NextNodeStep == ASSUME SearchInv, NextNode PROVE SearchInv'
<1> DEFINE h == Head(frontier)
           level == AtDistance(depth - 1)
<1>1. /\ pc = "expand" /\ pending = {} /\ frontier # <<>>
      /\ pending' = Neighbours(h) /\ frontier' = Tail(frontier)
      /\ UNCHANGED <<seen, result_seen, next_frontier, depth, results, pc, snapshot, call, answer, asked>>
  BY DEF NextNode
<1>2. /\ Typed /\ Searching /\ Exploring /\ Expanding /\ Collecting
  BY DEF SearchInv
<1>3. /\ snapshot \in Snapshots /\ call \in Calls /\ call.seeds # {}
      /\ Covers(seen) /\ Covers(result_seen) /\ NoRepeat(frontier) /\ NoRepeat(next_frontier)
      /\ depth <= MaxDepth /\ depth <= Cardinality(Marked)
      /\ call.op = "can_reach" => call.target \notin call.seeds \cup Marked
  BY <1>1, <1>2 DEF Searching
<1>4. /\ depth \in Nat \ {0} /\ Elements(frontier) \subseteq level
      /\ Marked = Within(depth - 1) \cup Elements(next_frontier)
      /\ Elements(next_frontier) \subseteq Steps(level) \ Within(depth - 1)
      /\ \A a \in level \ Elements(frontier) : Neighbours(a) \subseteq Marked
      /\ next_frontier # <<>> => depth < Cardinality(Marked)
  BY <1>1, <1>2 DEF Expanding
<1>5. /\ frontier' \in Seq(Kinds) /\ h \in Elements(frontier) /\ h \in Kinds
      /\ Elements(frontier) = {h} \cup Elements(frontier') /\ NoRepeat(frontier')
  <2>1. frontier \in Seq(Kinds)
    BY <1>2 DEF Typed
  <2>2. h \in Kinds
    BY <1>1, <2>1
  <2> QED BY <1>1, <1>3, <2>1, <2>2, TailElements
<1>6. Neighbours(h) = {b \in Kinds : Linked(h, b)}
  BY <1>3, <1>5, NeighboursAreLinked
<1>7. pending' \subseteq Steps(level) /\ pending' \in SUBSET Kinds
  BY <1>1, <1>4, <1>5, <1>6 DEF Steps
<1> HIDE DEF h
<1>8. /\ \A m : MarkedIn(m)' = MarkedIn(m) /\ (Covers(m)' <=> Covers(m))
      /\ MaxDepth' = MaxDepth /\ ExactDepth' = ExactDepth /\ \A k : Neighbours(k)' = Neighbours(k)
      /\ \A n : Walk(n)' = Walk(n) /\ Ball(n)' = Ball(n) /\ Within(n)' = Within(n)
                /\ AtDistance(n)' = AtDistance(n)
      /\ Starts' = Starts /\ Limit' = Limit /\ (Unlimited' <=> Unlimited)
      /\ \A s : (ByDistance(s)' <=> ByDistance(s)) /\ Steps(s)' = Steps(s)
  BY <1>1, QuestionStays
<1>9. Marked' = Marked /\ Returned' = Returned /\ level' = level /\ Within(depth - 1)' = Within(depth - 1)
      /\ Ball(depth - 1)' = Ball(depth - 1) /\ Ball(depth)' = Ball(depth) /\ AtDistance(depth)' = AtDistance(depth)
      /\ Steps(level)' = Steps(level)
  BY <1>1, <1>8 DEF Marked, Returned
<1>10. Typed'
  BY <1>1, <1>2, <1>5, <1>7 DEF Typed, asked
<1>11. Searching'
  <2>1. Covers(seen)' /\ Covers(result_seen)'
    BY <1>1, <1>3, <1>8
  <2>2. depth' <= MaxDepth' /\ depth' <= Cardinality(Marked)'
    BY <1>1, <1>3, <1>8, <1>9
  <2> QED BY <1>1, <1>3, <1>5, <1>9, <2>1, <2>2 DEF Searching
<1>12. Exploring'
  BY <1>1 DEF Exploring
<1>13. Expanding'
  <2>1. \A a \in level \ Elements(frontier') : Neighbours(a) \subseteq Marked \cup pending'
    BY <1>1, <1>4, <1>5
  <2>2. \A a \in level' \ Elements(frontier') : Neighbours(a)' \subseteq Marked' \cup pending'
    BY <1>8, <1>9, <2>1
  <2>3. Elements(frontier') \subseteq level' /\ pending' \subseteq Steps(level)'
    BY <1>4, <1>5, <1>7, <1>9
  <2>4. /\ depth' \in Nat \ {0}
        /\ Marked' = Within(depth - 1)' \cup Elements(next_frontier')
        /\ Elements(next_frontier') \subseteq Steps(level)' \ Within(depth - 1)'
        /\ next_frontier' # <<>> => depth' < Cardinality(Marked)'
    BY <1>1, <1>4, <1>9
  <2> QED BY <2>2, <2>3, <2>4 DEF Expanding
<1>14. ASSUME call.op = "traverse" PROVE Collecting'
  <2>1. /\ call.dedup => Returned = Elements(results) /\ NoRepeat(results)
        /\ ~Unlimited => Len(results) < Limit
        /\ ExactDepth = None =>
             /\ Elements(results) \subseteq Starts \cup Ball(depth)
             /\ Starts \subseteq Elements(results)
             /\ Ball(depth - 1) \subseteq Elements(results)
             /\ call.dedup => ByDistance(results)
        /\ ExactDepth # None /\ ~call.include_start =>
             /\ Elements(results) \subseteq Walk(ExactDepth)
             /\ depth < ExactDepth \/ depth = 0 => results = <<>>
        /\ DepthMatches => \A a \in level \ Elements(frontier) : Neighbours(a) \subseteq Elements(results)
    BY <1>1, <1>2, <1>14 DEF Collecting
  <2>2. DepthMatches => \A a \in level \ Elements(frontier') : Neighbours(a) \subseteq Elements(results) \cup pending'
    BY <1>1, <1>5, <2>1
  <2>3. DepthMatches' => \A a \in level' \ Elements(frontier') : Neighbours(a)' \subseteq Elements(results') \cup pending'
    <3>1. DepthMatches' <=> DepthMatches
      BY <1>1, <1>8 DEF DepthMatches
    <3> QED BY <1>1, <1>8, <1>9, <2>2, <3>1
  <2>4. /\ (call.dedup => Returned = Elements(results) /\ NoRepeat(results))'
        /\ (~Unlimited => Len(results) < Limit)'
        /\ (ExactDepth = None =>
             /\ Elements(results) \subseteq Starts \cup Ball(depth)
             /\ Starts \subseteq Elements(results)
             /\ Ball(depth - 1) \subseteq Elements(results)
             /\ call.dedup => ByDistance(results))'
        /\ (ExactDepth # None /\ ~call.include_start =>
             /\ Elements(results) \subseteq Walk(ExactDepth)
             /\ depth < ExactDepth \/ depth = 0 => results = <<>>)'
    BY <1>1, <1>8, <1>9, <2>1
  <2> QED BY <1>1, <2>3, <2>4 DEF Collecting
<1>15. ASSUME call.op # "traverse" PROVE Collecting'
  BY <1>1, <1>15 DEF Collecting
<1> QED BY <1>10, <1>11, <1>12, <1>13, <1>14, <1>15 DEF SearchInv

(* A neighbour of the level is pending, one edge farther than the level. *)
LEMMA PendingFacts ==
  ASSUME SearchInv, pc = "expand", pending # {}
  PROVE  LET k == Foremost(pending)
         IN /\ snapshot \in Snapshots /\ call \in Calls /\ depth \in Nat \ {0}
            /\ k \in pending /\ k \in Kinds /\ k \in Steps(AtDistance(depth - 1))
            /\ k \in Walk(depth) /\ Walk(depth) \subseteq Ball(depth)
            /\ Ball(depth - 1) \subseteq Ball(depth)
<1> DEFINE k == Foremost(pending)
<1>1. /\ snapshot \in Snapshots /\ call \in Calls /\ depth \in Nat \ {0}
      /\ pending \in SUBSET Kinds /\ pending \subseteq Steps(AtDistance(depth - 1))
  BY DEF SearchInv, Searching, Expanding, Typed
<1>2. k \in pending
  BY <1>1, ForemostFacts
<1> HIDE DEF k
<1>3. depth - 1 \in Nat /\ (depth - 1) + 1 = depth
  BY <1>1
<1>4. Steps(AtDistance(depth - 1)) \subseteq Walk((depth - 1) + 1)
  BY <1>3, NextLevel
<1>5. Ball((depth - 1) + 1) = Ball(depth - 1) \cup Walk((depth - 1) + 1)
  BY <1>3, BallFacts
<1> QED BY <1>1, <1>2, <1>3, <1>4, <1>5 DEF k

(* Looking at a pending kind keeps the search exact. *)
LEMMA VisitExplores ==
  ASSUME SearchInv, pc = "expand", pc' = "expand", pending # {},
         pending' = pending \ {Foremost(pending)}, Discover(Foremost(pending), next_frontier),
         UNCHANGED <<frontier, depth, snapshot, call>>, Covers(result_seen'),
         call.op = "can_reach" => call.target # Foremost(pending)
  PROVE  /\ Searching' /\ Exploring' /\ Expanding'
         /\ MarksOK(seen') /\ next_frontier' \in Seq(Kinds)
<1> DEFINE k == Foremost(pending)
           level == AtDistance(depth - 1)
<1>1. /\ k \in pending /\ k \in Kinds /\ k \in Steps(level) /\ depth \in Nat \ {0}
  BY PendingFacts
<1>2. /\ IF Fresh(seen, k) THEN next_frontier' = Append(next_frontier, k) /\ seen' = Mark(seen, k)
         ELSE next_frontier' = next_frontier /\ seen' = seen
      /\ pending' = pending \ {k} /\ (call.op = "can_reach" => call.target # k)
  BY DEF Discover
<1> HIDE DEF k
<1>3. /\ snapshot \in Snapshots /\ call \in Calls /\ call.seeds # {}
      /\ Covers(seen) /\ NoRepeat(frontier) /\ NoRepeat(next_frontier)
      /\ depth <= MaxDepth /\ depth <= Cardinality(Marked)
      /\ call.op = "can_reach" => call.target \notin call.seeds \cup Marked
      /\ next_frontier \in Seq(Kinds)
  BY DEF SearchInv, Searching, Typed
<1>4. /\ Elements(frontier) \subseteq level /\ pending \subseteq Steps(level)
      /\ Marked = Within(depth - 1) \cup Elements(next_frontier)
      /\ Elements(next_frontier) \subseteq Steps(level) \ Within(depth - 1)
      /\ \A a \in level \ Elements(frontier) : Neighbours(a) \subseteq Marked \cup pending
      /\ next_frontier # <<>> => depth < Cardinality(Marked)
  BY DEF SearchInv, Expanding
<1>5. /\ Covers(seen') /\ MarkedIn(seen') = Marked \cup {k}
      /\ next_frontier' \in Seq(Kinds) /\ Elements(next_frontier') = Elements(next_frontier) \cup ({k} \ Marked)
      /\ NoRepeat(next_frontier')
      /\ Cardinality(Marked) <= Cardinality(MarkedIn(seen'))
      /\ Cardinality(MarkedIn(seen')) \in Nat
      /\ k \notin Marked => Cardinality(MarkedIn(seen')) = Cardinality(Marked) + 1
  <2>1. Elements(next_frontier) \subseteq Marked
    BY <1>4
  <2> QED BY <1>1, <1>2, <1>3, <2>1, DiscoverFacts
<1>6. /\ \A m : MarkedIn(m)' = MarkedIn(m) /\ (Covers(m)' <=> Covers(m))
      /\ MaxDepth' = MaxDepth /\ \A a : Neighbours(a)' = Neighbours(a)
      /\ \A n : Within(n)' = Within(n) /\ AtDistance(n)' = AtDistance(n)
      /\ \A s : Steps(s)' = Steps(s)
  BY QuestionStays
<1>7. Marked' = Marked \cup {k} /\ Marked' = MarkedIn(seen') /\ level' = level
      /\ Within(depth - 1)' = Within(depth - 1) /\ Steps(level)' = Steps(level)
  BY <1>5, <1>6 DEF Marked
<1>8. Cardinality(Marked) \in Nat
  BY MarkedFinite
<1>9. Searching'
  <2>1. Covers(seen)' /\ Covers(result_seen)'
    BY <1>5, <1>6
  <2>2. depth' <= MaxDepth' /\ depth' <= Cardinality(Marked)'
    <3>1. depth' = depth /\ depth \in Nat /\ Cardinality(Marked)' = Cardinality(MarkedIn(seen'))
      BY <1>1, <1>7
    <3> QED BY <1>3, <1>5, <1>6, <1>8, <3>1
  <2>3. (call.op = "can_reach" => call.target \notin call.seeds \cup Marked)'
    BY <1>2, <1>3, <1>7
  <2> QED BY <1>3, <1>5, <2>1, <2>2, <2>3 DEF Searching
<1>10. Exploring'
  BY DEF Exploring
<1>11. Expanding'
  <2>1. \A a \in level' \ Elements(frontier') : Neighbours(a)' \subseteq Marked' \cup pending'
    <3> SUFFICES ASSUME NEW a \in level \ Elements(frontier) PROVE Neighbours(a) \subseteq Marked' \cup pending'
      BY <1>6, <1>7
    <3>1. Neighbours(a) \subseteq Marked \cup pending
      BY <1>4
    <3> QED BY <1>2, <1>7, <3>1
  <2>2. Elements(frontier') \subseteq level' /\ pending' \subseteq Steps(level)' /\ depth' \in Nat \ {0}
    BY <1>1, <1>2, <1>4, <1>7
  <2>3. Marked' = Within(depth - 1)' \cup Elements(next_frontier')
    BY <1>4, <1>5, <1>7
  <2>4. Elements(next_frontier') \subseteq Steps(level)' \ Within(depth - 1)'
    BY <1>1, <1>4, <1>5, <1>7
  <2>5. next_frontier' # <<>> => depth' < Cardinality(Marked)'
    <3>1. CASE k \in Marked
      <4>1. Elements(next_frontier') = Elements(next_frontier)
        BY <1>5, <3>1
      <4>2. next_frontier' # <<>> => next_frontier # <<>>
        BY <1>3, <1>5, <4>1, NoElements
      <4> QED BY <1>1, <1>4, <1>5, <1>7, <1>8, <4>2
    <3>2. CASE k \notin Marked
      BY <1>1, <1>3, <1>5, <1>7, <1>8, <3>2
    <3> QED BY <3>1, <3>2
  <2> QED BY <2>1, <2>2, <2>3, <2>4, <2>5 DEF Expanding
<1> QED BY <1>5, <1>9, <1>10, <1>11 DEF Covers

(* What visiting a kind makes of the results, whether the search goes on or not. *)
LEMMA VisitCollects ==
  ASSUME SearchInv, VisitTraverse
  PROVE  LET k == Foremost(pending)
         IN /\ Covers(result_seen') /\ results' \in Seq(Kinds) /\ Len(results') \in Nat
            /\ Elements(results') = IF DepthMatches THEN Elements(results) \cup {k} ELSE Elements(results)
            /\ call.dedup => MarkedIn(result_seen') = Elements(results') /\ NoRepeat(results')
            /\ ~Unlimited => Len(results') <= Limit
            /\ DepthMatches => Len(results') # 0
            /\ ~DepthMatches => results' = results /\ (~Unlimited => Len(results') < Limit)
            /\ ExactDepth = None =>
                 Elements(results') \subseteq Starts \cup Ball(depth) /\ (call.dedup => ByDistance(results'))
            /\ ExactDepth # None /\ ~call.include_start =>
                 /\ Elements(results') \subseteq Walk(ExactDepth)
                 /\ depth < ExactDepth \/ depth = 0 => results' = <<>>
<1> DEFINE k == Foremost(pending)
<1>1. /\ pc = "expand" /\ pending # {} /\ call.op = "traverse"
      /\ DepthMatches =>
           IF call.dedup /\ ~Fresh(result_seen, k) THEN results' = results /\ result_seen' = result_seen
           ELSE /\ results' = Append(results, k)
                /\ result_seen' = IF call.dedup THEN Mark(result_seen, k) ELSE result_seen
      /\ ~DepthMatches => results' = results /\ result_seen' = result_seen
  BY DEF VisitTraverse, PushResult
<1>2. /\ snapshot \in Snapshots /\ call \in Calls /\ depth \in Nat \ {0}
      /\ k \in Kinds /\ k \in Walk(depth) /\ Walk(depth) \subseteq Ball(depth)
      /\ Ball(depth - 1) \subseteq Ball(depth)
  BY <1>1, PendingFacts
<1> HIDE DEF k
<1>3. Typed /\ Searching /\ Collecting /\ Covers(result_seen) /\ results \in Seq(Kinds)
  BY <1>1 DEF SearchInv, Searching, Typed
<1>4. /\ call.dedup => Returned = Elements(results) /\ NoRepeat(results)
      /\ ~Unlimited => Len(results) < Limit
      /\ ExactDepth = None =>
           /\ Elements(results) \subseteq Starts \cup Ball(depth)
           /\ Starts \subseteq Elements(results)
           /\ Ball(depth - 1) \subseteq Elements(results)
           /\ call.dedup => ByDistance(results)
      /\ ExactDepth # None /\ ~call.include_start =>
           /\ Elements(results) \subseteq Walk(ExactDepth)
           /\ depth < ExactDepth => results = <<>>
  BY <1>1, <1>3 DEF Collecting
<1>5. /\ call.dedup \in BOOLEAN /\ (~Unlimited => Limit \in Nat \ {0})
      /\ ExactDepth \in Nat \cup {None} /\ None \notin Nat /\ Len(results) \in Nat
  BY <1>1, <1>2, <1>3, CallFacts, LimitFacts, DepthFacts
<1>6. CASE ~DepthMatches
  <2>1. results' = results /\ result_seen' = result_seen
    BY <1>1, <1>6
  <2>2. call.dedup => MarkedIn(result_seen') = Elements(results')
    BY <1>4, <2>1 DEF Returned
  <2>3. ~Unlimited => Len(results') <= Limit /\ Len(results') < Limit
    BY <1>4, <1>5, <2>1
  <2>4. depth # 0
    BY <1>2
  <2> QED BY <1>3, <1>4, <1>5, <1>6, <2>1, <2>2, <2>3, <2>4 DEF k
<1>7. CASE DepthMatches
  <2>1. /\ Covers(result_seen')
        /\ results' \in Seq(Kinds) /\ Elements(results') = Elements(results) \cup {k}
        /\ call.dedup => MarkedIn(result_seen') = Elements(results') /\ NoRepeat(results')
        /\ Len(results') \in Nat \ {0} /\ Len(results') <= Len(results) + 1 /\ Len(results) \in Nat
        /\ \/ results' = results /\ k \in Elements(results)
           \/ results' = Append(results, k) /\ (call.dedup => k \notin Elements(results))
    BY <1>1, <1>2, <1>3, <1>4, <1>5, <1>7, PushFacts
  <2>2. ~Unlimited => Len(results') <= Limit
    BY <1>4, <1>5, <2>1
  <2>3. ExactDepth = None => Elements(results') \subseteq Starts \cup Ball(depth)
    BY <1>2, <1>4, <2>1
  <2>4. ASSUME ExactDepth = None, call.dedup PROVE ByDistance(results')
    <3>1. CASE results' = results
      BY <1>4, <2>4, <3>1
    <3>2. CASE results' = Append(results, k) /\ k \notin Elements(results)
      <4>1. ASSUME NEW n \in 0..Horizon, k \in Starts \cup Ball(n)
            PROVE  Elements(results) \subseteq Starts \cup Ball(n)
        <5>1. Horizon \in Nat /\ n \in Nat /\ depth - 1 \in Nat
          BY <1>1, <1>2, <1>3, HorizonFacts
        <5>2. CASE depth <= n
          <6>1. Ball(depth) \subseteq Ball(n)
            BY <1>2, <5>1, <5>2, BallsGrow
          <6> QED BY <1>4, <2>4, <6>1
        <5>3. CASE n <= depth - 1
          <6>1. Ball(n) \subseteq Ball(depth - 1)
            BY <5>1, <5>3, BallsGrow
          <6>2. k \in Elements(results)
            BY <1>4, <2>4, <4>1, <6>1
          <6> QED BY <3>2, <6>2
        <5> QED BY <1>2, <5>1, <5>2, <5>3
      <4>2. ByDistance(results) /\ results \in Seq(Kinds) /\ k \in Kinds
        BY <1>2, <1>3, <1>4, <2>4
      <4> QED BY <3>2, <4>1, <4>2, AppendByDistance
    <3> QED BY <2>1, <2>4, <3>1, <3>2
  <2>5. ASSUME ExactDepth # None, ~call.include_start
        PROVE  /\ Elements(results') \subseteq Walk(ExactDepth)
               /\ ~(depth < ExactDepth \/ depth = 0)
    <3>1. depth = ExactDepth
      BY <1>7, <2>5 DEF DepthMatches
    <3> QED BY <1>2, <1>4, <2>1, <2>5, <3>1
  <2> QED BY <1>7, <2>1, <2>2, <2>3, <2>4, <2>5 DEF k
<1> QED BY <1>6, <1>7

LEMMA VisitTraverseStep == ASSUME SearchInv, VisitTraverse PROVE SearchInv' /\ AnswersGood'
<1> DEFINE k == Foremost(pending)
           level == AtDistance(depth - 1)
<1>1. /\ pc = "expand" /\ pending # {} /\ call.op = "traverse"
      /\ pending' = pending \ {k} /\ Discover(k, next_frontier)
      /\ \/ /\ DepthMatches /\ EnoughResults(Len(results'))
            /\ answer' = [fault |-> "Ok", value |-> results'] /\ pc' = "idle"
         \/ /\ ~(DepthMatches /\ EnoughResults(Len(results')))
            /\ pc' = pc /\ answer' = answer
      /\ UNCHANGED <<frontier, depth, snapshot, call, asked>>
  BY DEF VisitTraverse, Answer
<1>2. /\ Covers(result_seen') /\ results' \in Seq(Kinds) /\ Len(results') \in Nat
      /\ Elements(results') = IF DepthMatches THEN Elements(results) \cup {k} ELSE Elements(results)
      /\ call.dedup => MarkedIn(result_seen') = Elements(results') /\ NoRepeat(results')
      /\ ~Unlimited => Len(results') <= Limit
      /\ DepthMatches => Len(results') # 0
      /\ ~DepthMatches => results' = results /\ (~Unlimited => Len(results') < Limit)
      /\ ExactDepth = None =>
           Elements(results') \subseteq Starts \cup Ball(depth) /\ (call.dedup => ByDistance(results'))
      /\ ExactDepth # None /\ ~call.include_start =>
           /\ Elements(results') \subseteq Walk(ExactDepth)
           /\ depth < ExactDepth \/ depth = 0 => results' = <<>>
  BY VisitCollects
<1>3. snapshot \in Snapshots /\ call \in Calls /\ depth \in Nat \ {0} /\ k \in Kinds
  BY <1>1, PendingFacts
<1>4. Typed /\ Searching /\ Collecting
  BY DEF SearchInv
<1>5. MarksOK(seen') /\ next_frontier' \in Seq(Kinds) /\ pending' \in SUBSET Kinds
  <2>1. /\ Covers(seen) /\ pending \in SUBSET Kinds /\ next_frontier \in Seq(Kinds)
        /\ Elements(next_frontier) \subseteq Marked
    BY <1>1, <1>4 DEF SearchInv, Searching, Typed, Expanding
  <2>2. Covers(seen') /\ next_frontier' \in Seq(Kinds)
    <3> HIDE DEF k
    <3> QED BY <1>1, <1>3, <2>1, DiscoverFacts DEF Discover
  <2> QED BY <1>1, <2>1, <2>2 DEF Covers
<1>6. Typed'
  <2>1. MarksOK(result_seen')
    BY <1>2 DEF Covers
  <2> QED BY <1>1, <1>2, <1>4, <1>5, <2>1 DEF Typed, asked
<1>7. CASE DepthMatches /\ EnoughResults(Len(results'))
  <2>1. ~Unlimited /\ Len(results') = Limit
    BY <1>1, <1>2, <1>3, <1>7, LimitFacts
  <2>2. ExactDepth = None => Elements(results') \subseteq AllResults
    <3>1. AllResults = Starts \cup Found /\ Ball(depth) \subseteq Found
      BY <1>1, <1>3, <1>4, HorizonFacts
    <3> QED BY <1>2, <3>1
  <2>3. GoodAnswer(results')
    BY <1>1, <1>2, <1>3, <2>1, <2>2, CutAnswer
  <2> QED BY <1>1, <1>6, <1>7, <2>3, TraverseAnswered, Returns
<1>8. CASE ~(DepthMatches /\ EnoughResults(Len(results')))
  <2>1. pc' = "expand"
    BY <1>1, <1>8
  <2>2. Searching' /\ Exploring' /\ Expanding'
    BY <1>1, <1>2, <2>1, VisitExplores
  <2>3. ~Unlimited => Len(results') < Limit
    <3>1. CASE DepthMatches
      <4>1. Len(results') \in Nat \ {0} /\ ~EnoughResults(Len(results'))
        BY <1>2, <1>8, <3>1
      <4>2. ~Unlimited => Limit \in Nat /\ Len(results') # Limit
        BY <1>1, <1>2, <1>3, <4>1, LimitFacts
      <4> QED BY <1>2, <4>2
    <3>2. CASE ~DepthMatches
      BY <1>2, <3>2
    <3> QED BY <3>1, <3>2
  <2>4. /\ \A m : MarkedIn(m)' = MarkedIn(m)
        /\ ExactDepth' = ExactDepth /\ \A a : Neighbours(a)' = Neighbours(a)
        /\ \A n : Walk(n)' = Walk(n) /\ Ball(n)' = Ball(n) /\ AtDistance(n)' = AtDistance(n)
        /\ Starts' = Starts /\ Limit' = Limit /\ (Unlimited' <=> Unlimited)
        /\ \A s : ByDistance(s)' <=> ByDistance(s)
    BY <1>1, QuestionStays
  <2>5. Returned' = MarkedIn(result_seen') /\ level' = level
        /\ Ball(depth - 1)' = Ball(depth - 1) /\ Ball(depth)' = Ball(depth)
        /\ (DepthMatches' <=> DepthMatches)
    BY <1>1, <2>4 DEF Returned, DepthMatches
  <2>6. /\ ExactDepth = None => Starts \subseteq Elements(results) /\ Ball(depth - 1) \subseteq Elements(results)
        /\ DepthMatches => \A a \in level \ Elements(frontier) :
                             Neighbours(a) \subseteq Elements(results) \cup pending
    BY <1>1, <1>4 DEF Collecting
  <2>7. Elements(results) \subseteq Elements(results')
    BY <1>2
  <2>8. DepthMatches' => \A a \in level' \ Elements(frontier') :
                           Neighbours(a)' \subseteq Elements(results') \cup pending'
    <3> SUFFICES ASSUME DepthMatches, NEW a \in level \ Elements(frontier)
                 PROVE  Neighbours(a) \subseteq Elements(results') \cup pending'
      BY <1>1, <2>4, <2>5
    <3>1. Neighbours(a) \subseteq Elements(results) \cup pending
      BY <2>6
    <3>2. Elements(results') = Elements(results) \cup {k}
      BY <1>2
    <3> QED BY <1>1, <3>1, <3>2
  <2>9. ExactDepth' = None =>
          /\ Elements(results') \subseteq Starts' \cup Ball(depth)'
          /\ Starts' \subseteq Elements(results')
          /\ Ball(depth - 1)' \subseteq Elements(results')
          /\ call'.dedup => ByDistance(results)'
    BY <1>1, <1>2, <2>4, <2>5, <2>6, <2>7
  <2>10. ExactDepth' # None /\ ~call'.include_start =>
          /\ Elements(results') \subseteq Walk(ExactDepth)'
          /\ depth' < ExactDepth' \/ depth' = 0 => results' = <<>>
    BY <1>1, <1>2, <2>4
  <2>11. /\ (call.dedup => Returned = Elements(results) /\ NoRepeat(results))'
         /\ (~Unlimited => Len(results) < Limit)'
    BY <1>1, <1>2, <2>3, <2>4, <2>5
  <2>12. Collecting'
    BY <2>1, <2>8, <2>9, <2>10, <2>11 DEF Collecting
  <2> QED BY <1>6, <2>1, <2>2, <2>12, NotAnswered DEF SearchInv
<1> QED BY <1>7, <1>8

LEMMA VisitCanReachStep == ASSUME SearchInv, VisitCanReach PROVE SearchInv' /\ AnswersGood'
<1> DEFINE k == Foremost(pending)
<1>1. /\ pc = "expand" /\ pending # {} /\ call.op = "can_reach"
      /\ \/ /\ k = call.target /\ answer' = [fault |-> "Ok", value |-> TRUE] /\ pc' = "idle"
            /\ UNCHANGED <<seen, next_frontier, pending>>
         \/ /\ k # call.target /\ pending' = pending \ {k} /\ Discover(k, next_frontier)
            /\ pc' = pc /\ answer' = answer
      /\ UNCHANGED <<result_seen, frontier, depth, results, snapshot, call, asked>>
  BY DEF VisitCanReach, Answer
<1>2. /\ snapshot \in Snapshots /\ call \in Calls /\ depth \in Nat \ {0}
      /\ k \in Kinds /\ k \in Walk(depth) /\ Walk(depth) \subseteq Ball(depth)
  BY <1>1, PendingFacts
<1>3. /\ Typed /\ Searching /\ Covers(result_seen)
  BY <1>1 DEF SearchInv, Searching
<1>4. CASE k = call.target
  <2>1. Ball(depth) \subseteq Found
    BY <1>1, <1>2, <1>3, HorizonFacts
  <2>2. call.target \in call.seeds \cup Found
    BY <1>2, <1>4, <2>1
  <2>3. AnswersGood'
    BY <1>1, <1>4, <2>2, CanReachAnswered
  <2>4. pc' = "idle" /\ UNCHANGED <<seen, next_frontier, pending>>
    BY <1>1, <1>4
  <2>5. Typed'
    BY <1>1, <1>3, <2>4 DEF Typed, asked
  <2> QED BY <2>3, <2>4, <2>5, Returns
<1>5. CASE k # call.target
  <2>1. pc' = "expand" /\ pending' = pending \ {k} /\ Discover(k, next_frontier)
    BY <1>1, <1>5
  <2>2. Covers(result_seen')
    BY <1>1, <1>3
  <2>3. Searching' /\ Exploring' /\ Expanding' /\ MarksOK(seen') /\ next_frontier' \in Seq(Kinds)
    BY <1>1, <1>5, <2>1, <2>2, VisitExplores
  <2>4. pending' \in SUBSET Kinds
    BY <1>3, <2>1 DEF Typed
  <2>5. Typed'
    BY <1>1, <1>3, <2>1, <2>3, <2>4 DEF Typed, asked
  <2>6. Collecting'
    BY <1>1 DEF Collecting
  <2> QED BY <2>1, <2>3, <2>5, <2>6, NotAnswered DEF SearchInv
<1> QED BY <1>4, <1>5

(* The level is done: what it leads to is marked. *)
LEMMA LevelDone ==
  ASSUME SearchInv, pc = "expand", pending = {}, frontier = <<>>
  PROVE  /\ Steps(AtDistance(depth - 1)) \subseteq Marked
         /\ Marked = Within(depth) /\ Elements(next_frontier) = AtDistance(depth)
         /\ call.op = "traverse" /\ DepthMatches => Steps(AtDistance(depth - 1)) \subseteq Elements(results)
<1> DEFINE level == AtDistance(depth - 1)
<1>1. /\ snapshot \in Snapshots /\ call \in Calls
      /\ depth \in Nat \ {0} /\ Marked = Within(depth - 1) \cup Elements(next_frontier)
      /\ Elements(next_frontier) \subseteq Steps(level) \ Within(depth - 1)
      /\ \A a \in level \ Elements(frontier) : Neighbours(a) \subseteq Marked
      /\ call.op = "traverse" /\ DepthMatches =>
           \A a \in level \ Elements(frontier) : Neighbours(a) \subseteq Elements(results)
  BY DEF SearchInv, Searching, Expanding, Collecting
<1>2. Elements(frontier) = {}
  BY DEF Elements
<1>3. depth - 1 \in Nat /\ (depth - 1) + 1 = depth
  BY <1>1
<1>4. \A a \in level : a \in Kinds /\ Neighbours(a) = {b \in Kinds : Linked(a, b)}
  <2>1. level \subseteq Kinds
    <3>1. level \subseteq Walk(depth - 1)
      BY <1>3, BallsGrow
    <3>2. Walk(depth - 1) \subseteq Kinds
      BY <1>1, <1>3, WalkInKinds
    <3> QED BY <3>1, <3>2
  <2> HIDE DEF level
  <2> QED BY <1>1, <2>1, NeighboursAreLinked
<1>5. Steps(level) \subseteq Marked
  <2> HIDE DEF level
  <2> QED BY <1>1, <1>2, <1>4 DEF Steps
<1>6. call.op = "traverse" /\ DepthMatches => Steps(level) \subseteq Elements(results)
  <2> HIDE DEF level
  <2> QED BY <1>1, <1>2, <1>4 DEF Steps
<1>7. /\ Within(depth) = Within(depth - 1) \cup Steps(level)
      /\ AtDistance(depth) = Within(depth) \ Within(depth - 1)
  <2>1. Within((depth - 1) + 1) = Within(depth - 1) \cup Steps(level)
    BY <1>3, NextLevel
  <2>2. /\ Within((depth - 1) + 1) = Within(depth - 1) \cup Walk((depth - 1) + 1)
        /\ AtDistance((depth - 1) + 1) = Walk((depth - 1) + 1) \ Within(depth - 1)
    BY <1>3, BallFacts
  <2>3. AtDistance((depth - 1) + 1) = Within((depth - 1) + 1) \ Within(depth - 1)
    BY <2>2
  <2> QED BY <1>3, <2>1, <2>3
<1> HIDE DEF level
<1>8. Elements(next_frontier) = AtDistance(depth)
  BY <1>1, <1>5, <1>7
<1> QED BY <1>1, <1>5, <1>6, <1>7, <1>8 DEF level

(* A level that leads nowhere new is the last, however deep the question;
   another hands its discoveries to the next.                              *)
LEMMA EndLevelStep == ASSUME SearchInv, EndLevel PROVE SearchInv' /\ AnswersGood'
<1> DEFINE level == AtDistance(depth - 1)
<1>1. /\ pc = "expand" /\ pending = {} /\ frontier = <<>>
      /\ \/ next_frontier = <<>> /\ Finish /\ UNCHANGED <<frontier, next_frontier>>
         \/ /\ next_frontier # <<>>
            /\ frontier' = next_frontier /\ next_frontier' = <<>>
            /\ pc' = "level" /\ answer' = answer
      /\ UNCHANGED <<seen, result_seen, pending, depth, results, snapshot, call, asked>>
  BY DEF EndLevel
<1>2. Typed /\ Searching /\ Expanding /\ Collecting
  BY DEF SearchInv
<1>3. /\ snapshot \in Snapshots /\ call \in Calls /\ call.seeds # {} /\ depth \in Nat \ {0}
      /\ Covers(seen) /\ Covers(result_seen) /\ NoRepeat(next_frontier)
      /\ depth <= MaxDepth /\ depth <= Cardinality(Marked)
      /\ call.op = "can_reach" => call.target \notin call.seeds \cup Marked
      /\ next_frontier \in Seq(Kinds)
      /\ Marked = Within(depth - 1) \cup Elements(next_frontier)
      /\ Elements(next_frontier) \subseteq Steps(level)
      /\ next_frontier # <<>> => depth < Cardinality(Marked)
  BY <1>1, <1>2 DEF Searching, Expanding, Typed
<1>4. /\ Steps(level) \subseteq Marked
      /\ Marked = Within(depth) /\ Elements(next_frontier) = AtDistance(depth)
      /\ call.op = "traverse" /\ DepthMatches => Steps(level) \subseteq Elements(results)
  BY <1>1, LevelDone
<1>5. depth - 1 \in Nat /\ (depth - 1) + 1 = depth
  BY <1>3
<1>6. Ball(depth) = Ball(depth - 1) \cup Steps(level)
  <2>1. Ball((depth - 1) + 1) = Ball(depth - 1) \cup Steps(level)
    BY <1>5, NextLevel
  <2> QED BY <1>5, <2>1
<1>7. call.op = "traverse" =>
        /\ call.dedup => Returned = Elements(results) /\ NoRepeat(results)
        /\ ~Unlimited => Len(results) < Limit
        /\ ExactDepth = None =>
             /\ Elements(results) \subseteq Starts \cup Ball(depth)
             /\ Starts \subseteq Elements(results)
             /\ Ball(depth - 1) \subseteq Elements(results)
             /\ call.dedup => ByDistance(results)
        /\ ExactDepth # None /\ ~call.include_start =>
             /\ Elements(results) \subseteq Walk(ExactDepth)
             /\ depth < ExactDepth \/ depth = 0 => results = <<>>
  BY <1>1, <1>2 DEF Collecting
<1>8. call.op = "traverse" /\ ExactDepth = None => Ball(depth) \subseteq Elements(results)
  BY <1>4, <1>6, <1>7 DEF DepthMatches
<1>9. ExactDepth \in Nat \cup {None} /\ MaxDepth \in Nat /\ (ExactDepth # None => ExactDepth = MaxDepth)
  BY <1>3, DepthFacts
<1>10. CASE next_frontier = <<>>
  <2>1. Finish /\ UNCHANGED <<frontier, next_frontier, snapshot, call>>
    BY <1>1, <1>10
  <2>2. Elements(next_frontier) = {}
    BY <1>10 DEF Elements
  <2>3. Steps(level) \subseteq Within(depth - 1)
    BY <1>3, <1>4, <2>2
  <2>4. \A m \in Nat : m > depth - 1 => Ball(m) = Ball((depth - 1) + 1) /\ AtDistance(m) = {}
    BY <1>5, <2>3, LastLevel
  <2>5. Found = Ball(depth)
    <3>1. Horizon \in Nat /\ depth <= Horizon /\ Found = Ball(Horizon)
      BY <1>1, <1>2, <1>3, HorizonFacts
    <3>2. Horizon > depth - 1
      BY <1>3, <3>1
    <3> QED BY <1>5, <2>4, <3>1, <3>2
  <2>6. call.op = "can_reach" => call.target \notin Found
    <3>1. Within(depth) = call.seeds \cup Ball(depth)
      BY <1>3, BallFacts
    <3> QED BY <1>3, <1>4, <2>5, <3>1
  <2>7. ExactDepth # None => ExactDepth # 0 /\ AtDistance(ExactDepth) = {}
    <3> SUFFICES ASSUME ExactDepth # None PROVE ExactDepth # 0 /\ AtDistance(ExactDepth) = {}
      OBVIOUS
    <3>1. ExactDepth \in Nat /\ ExactDepth > depth - 1 /\ ExactDepth # 0
      BY <1>3, <1>9
    <3> QED BY <2>4, <3>1
  <2>8. pc' = "idle" /\ AnswersGood'
    BY <1>1, <1>8, <2>1, <2>5, <2>6, <2>7, FinishAnswers
  <2>9. Typed'
    BY <1>1, <1>2, <2>1, <2>8 DEF Typed, asked
  <2> QED BY <2>8, <2>9, Returns
<1>11. CASE next_frontier # <<>>
  <2>1. frontier' = next_frontier /\ next_frontier' = <<>> /\ pc' = "level"
    BY <1>1, <1>11
  <2>2. /\ \A m : MarkedIn(m)' = MarkedIn(m) /\ (Covers(m)' <=> Covers(m))
        /\ MaxDepth' = MaxDepth /\ ExactDepth' = ExactDepth
        /\ \A n : Walk(n)' = Walk(n) /\ Ball(n)' = Ball(n) /\ Within(n)' = Within(n)
                  /\ AtDistance(n)' = AtDistance(n)
        /\ Starts' = Starts /\ Limit' = Limit /\ (Unlimited' <=> Unlimited)
        /\ \A s : ByDistance(s)' <=> ByDistance(s)
    BY <1>1, QuestionStays
  <2>3. /\ Marked' = Marked /\ Returned' = Returned /\ Within(depth)' = Within(depth)
        /\ Ball(depth)' = Ball(depth) /\ AtDistance(depth)' = AtDistance(depth)
    BY <1>1, <2>2 DEF Marked, Returned
  <2>4. Typed'
    BY <1>1, <1>2, <1>3, <2>1 DEF Typed, asked
  <2>5. Searching'
    <3>1. Covers(seen)' /\ Covers(result_seen)' /\ NoRepeat(<<>>)
      BY <1>1, <1>3, <2>2 DEF NoRepeat
    <3>2. depth' <= MaxDepth' /\ depth' <= Cardinality(Marked)'
      BY <1>1, <1>3, <2>2, <2>3
    <3> QED BY <1>1, <1>3, <2>1, <2>3, <3>1, <3>2 DEF Searching
  <2>6. Exploring'
    <3>1. Marked' = Within(depth)' /\ Elements(frontier)' = AtDistance(depth)'
      BY <1>4, <2>1, <2>3
    <3>2. depth' < Cardinality(Marked)' /\ frontier' # <<>> /\ pending' = {}
      BY <1>1, <1>3, <1>11, <2>1, <2>3
    <3> QED BY <2>1, <3>1, <3>2 DEF Exploring
  <2>7. Expanding'
    BY <2>1 DEF Expanding
  <2>8. ASSUME call.op = "traverse" PROVE Collecting'
    <3>1. /\ (call.dedup => Returned = Elements(results) /\ NoRepeat(results))'
          /\ (~Unlimited => Len(results) < Limit)'
      BY <1>1, <1>7, <2>2, <2>3, <2>8
    <3>2. ExactDepth' = None =>
            /\ Elements(results)' \subseteq Starts' \cup Ball(depth)'
            /\ Starts' \subseteq Elements(results)'
            /\ Ball(depth)' \subseteq Elements(results)'
            /\ call'.dedup => ByDistance(results)'
      BY <1>1, <1>7, <1>8, <2>2, <2>3, <2>8
    <3>3. depth = ExactDepth => AtDistance(depth) \subseteq Elements(results)
      BY <1>3, <1>4, <2>8 DEF DepthMatches
    <3>4. ExactDepth' # None /\ ~call'.include_start =>
            /\ Elements(results)' \subseteq Walk(ExactDepth)'
            /\ depth' < ExactDepth' \/ depth' = 0 => results' = <<>>
            /\ depth' = ExactDepth' => AtDistance(depth)' \subseteq Elements(results)'
      BY <1>1, <1>7, <2>2, <2>3, <2>8, <3>3
    <3> QED BY <2>1, <3>1, <3>2, <3>4 DEF Collecting
  <2>9. ASSUME call.op # "traverse" PROVE Collecting'
    BY <1>1, <2>9 DEF Collecting
  <2> QED BY <2>1, <2>4, <2>5, <2>6, <2>7, <2>8, <2>9, NotAnswered DEF SearchInv
<1> QED BY <1>10, <1>11

-----------------------------------------------------------------------------
(* A new question                                                          *)

(* What the program may ask is a question about a snapshot. *)
LEMMA AskFacts ==
  ASSUME SearchInv, calls < Len(Programs[program])
  PROVE  LET ask == Programs[program][calls + 1]
         IN /\ ask.snapshots \subseteq Snapshots /\ ask.calls \subseteq Calls
            /\ calls + 1 \in 0..Len(Programs[program]) /\ calls + 1 > 0
<1> DEFINE Asks == [snapshots : SUBSET Snapshots, calls : SUBSET Calls]
<1>1. Programs \in Seq(Seq(Asks))
  BY TraversalAssumption
<1>2. program \in DOMAIN Programs /\ calls \in 0..Len(Programs[program])
  BY DEF SearchInv, Typed
<1>3. Programs[program] \in Seq(Asks)
  <2> HIDE DEF Asks
  <2> QED BY <1>1, <1>2
<1>4. Len(Programs[program]) \in Nat /\ calls + 1 \in 1..Len(Programs[program])
  BY <1>2, <1>3
<1>5. Programs[program][calls + 1] \in Asks
  <2> HIDE DEF Asks
  <2> QED BY <1>3, <1>4
<1> QED BY <1>4, <1>5

(* The scratch space a search begins with has room for the snapshot and no
   marks, whatever earlier calls on other snapshots left in it.            *)
LEMMA BeginFacts ==
  ASSUME NEW s \in Snapshots, snapshot' = s, MarksOK(seen), seen' = Advance(seen, Len(s.kinds)),
         MarksOK(result_seen), result_seen' = Advance(result_seen, Len(s.kinds))
  PROVE  Covers(seen)' /\ Marked' = {} /\ Covers(result_seen)' /\ Returned' = {}
<1>1. Len(s.kinds) \in Nat /\ DOMAIN s.kinds = 1..Len(s.kinds)
  BY SnapshotFacts
<1>2. /\ MarksOK(seen') /\ Len(s.kinds) <= Len(seen'.marks) /\ seen'.unknown = {}
      /\ \A i \in 1..Len(s.kinds) : seen'.marks[i] # seen'.generation
  BY <1>1, AdvanceFacts
<1>3. /\ MarksOK(result_seen') /\ Len(s.kinds) <= Len(result_seen'.marks) /\ result_seen'.unknown = {}
      /\ \A i \in 1..Len(s.kinds) : result_seen'.marks[i] # result_seen'.generation
  BY <1>1, AdvanceFacts
<1>4. \A k \in Kinds : Known(k)' => DenseIndex(k)' \in 1..Len(s.kinds)
  <2> TAKE k \in Kinds
  <2> HAVE Known(k)'
  <2>1. \E i \in DOMAIN s.kinds : s.kinds[i] = k
    BY DEF Known, Elements
  <2>2. DenseIndex(k)' = CHOOSE i \in DOMAIN s.kinds : s.kinds[i] = k
    BY DEF DenseIndex
  <2> QED BY <1>1, <2>1, <2>2
<1>5. \A k \in Kinds : Fresh(seen, k)' /\ Fresh(result_seen, k)'
  BY <1>2, <1>3, <1>4 DEF Fresh
<1>6. Covers(seen)' /\ Covers(result_seen)'
  BY <1>2, <1>3 DEF Covers
<1> QED BY <1>5, <1>6 DEF Marked, Returned, MarkedIn

LEMMA AskNextStep == ASSUME SearchInv, AskNext PROVE SearchInv' /\ AnswersGood'
<1>1. /\ pc = "idle" /\ calls < Len(Programs[program])
      /\ \E s \in Programs[program][calls + 1].snapshots, c \in Programs[program][calls + 1].calls : Start(s, c)
  BY DEF AskNext
<1>2. PICK s \in Snapshots, c \in Calls : Start(s, c)
  BY <1>1, AskFacts
<1>3. /\ snapshot' = s /\ call' = c /\ calls' = calls + 1 /\ program' = program
      /\ depth' = 0 /\ results' = <<>>
  BY <1>2 DEF Start
<1>4. Typed
  BY DEF SearchInv
<1>5. calls' \in 0..Len(Programs[program'])
  BY <1>1, <1>3, AskFacts
<1>6. /\ c.op \in {"traverse", "can_reach"} /\ c.seeds \in SUBSET Kinds /\ c.depth \in DepthSpec
      /\ c.op = "traverse" => c.stop_on_match \in BOOLEAN /\ c.max_results \in Nat \cup {None}
      /\ c.op = "can_reach" => c.depth.spec = "To" /\ c.depth.hops \in Nat
  BY CallFacts
<1>7. ASSUME pc' = "idle", UNCHANGED scratch PROVE SearchInv'
  <2>1. Typed'
    BY <1>3, <1>4, <1>5, <1>7 DEF Typed, scratch
  <2> QED BY <1>7, <2>1, Returns
<1>8. CASE c.seeds = {}
  <2>1. answer' = [fault |-> "EmptySeedSet", value |-> <<>>] /\ pc' = "idle" /\ UNCHANGED scratch
    <3>1. c.op # "can_reach"
      BY <1>8, CallFacts
    <3> QED BY <1>2, <1>8, <3>1 DEF Start, Answer
  <2>2. AnswersGood'
    BY <2>1 DEF AnswersGood, CanReachAgrees, Answered
  <2> QED BY <1>7, <2>1, <2>2
<1>9. CASE c.seeds # {} /\ c.op = "can_reach" /\ (c.target \in c.seeds \/ c.depth.hops = 0)
  <2>1. /\ answer' = [fault |-> "Ok", value |-> c.target \in c.seeds] /\ pc' = "idle"
        /\ UNCHANGED scratch
    BY <1>2, <1>9 DEF Start, Answer
  <2>2. c.target \notin c.seeds => Found' = {}
    <3> SUFFICES ASSUME c.depth.hops = 0 PROVE Found' = {}
      BY <1>9
    <3>1. MaxDepth' = 0
      BY <1>3, <1>6, <1>9 DEF MaxDepth
    <3>2. Cardinality(Kinds) \in Nat
      BY MarkedFinite
    <3>3. Horizon' = 0
      BY <3>1, <3>2 DEF Horizon
    <3> QED BY <3>3 DEF Found
  <2>3. answer'.value <=> c.target \in c.seeds
    BY <2>1
  <2>4. CanReachAgrees'
    BY <1>3, <2>2, <2>3 DEF CanReachAgrees
  <2>5. ~Answered("traverse")'
    BY <1>3, <1>9 DEF Answered
  <2> QED BY <1>7, <2>1, <2>4, <2>5 DEF AnswersGood
<1>10. CASE c.seeds # {} /\ ~(c.op = "can_reach" /\ (c.target \in c.seeds \/ c.depth.hops = 0))
  <2>1. /\ seen' = Advance(seen, Len(s.kinds)) /\ result_seen' = Advance(result_seen, Len(s.kinds))
        /\ frontier' = <<>> /\ next_frontier' = <<>> /\ pending' = c.seeds
        /\ pc' = "mark" /\ answer' = answer
    BY <1>2, <1>10 DEF Start
  <2>2. Covers(seen)' /\ Marked' = {} /\ Covers(result_seen)' /\ Returned' = {}
    BY <1>3, <1>4, <2>1, BeginFacts DEF Typed
  <2>3. MarksOK(seen') /\ MarksOK(result_seen')
    BY <2>2 DEF Covers
  <2>4. Typed'
    BY <1>3, <1>4, <1>5, <1>6, <2>1, <2>3 DEF Typed
  <2>5. /\ NoRepeat(<<>>) /\ Elements(<<>>) = {} /\ Len(<<>>) = 0
    BY DEF NoRepeat, Elements
  <2>6. MaxDepth' \in Nat /\ Cardinality(Marked)' = 0
    <3>1. c.depth.spec \in {"One", "Transitive"} \/ c.depth.hops \in Nat
      BY <1>6 DEF DepthSpec
    <3>2. MaxDepth' \in Nat
      BY <1>3, <3>1, TraversalAssumption DEF MaxDepth
    <3> QED BY <2>2, <3>2, FS_EmptySet
  <2>7. Searching'
    BY <1>3, <1>10, <2>1, <2>2, <2>5, <2>6 DEF Searching
  <2>8. Exploring'
    BY <1>3, <2>1, <2>2, <2>5 DEF Exploring
  <2>9. Expanding'
    BY <2>1 DEF Expanding
  <2>10. ASSUME c.op = "traverse" PROVE Collecting'
    <3>1. (~Unlimited => Len(results) < Limit)'
      <4>1. ~Unlimited' => Limit' \in Nat \ {0}
        BY <1>3, <1>6, <2>10, TraversalAssumption DEF Unlimited, Limit
      <4> QED BY <1>3, <2>5, <4>1
    <3>2. ByDistance(results)'
      BY <1>3, <2>5 DEF ByDistance
    <3>3. (call.dedup => Returned = Elements(results) /\ NoRepeat(results))'
      BY <1>3, <2>2, <2>5
    <3>4. Elements(results)' = {} /\ results' = <<>>
      BY <1>3, <2>5
    <3> QED BY <2>1, <3>1, <3>2, <3>3, <3>4 DEF Collecting
  <2>11. ASSUME c.op # "traverse" PROVE Collecting'
    BY <1>3, <2>11 DEF Collecting
  <2> QED BY <2>1, <2>4, <2>7, <2>8, <2>9, <2>10, <2>11, NotAnswered DEF SearchInv
<1> QED BY <1>8, <1>9, <1>10

-----------------------------------------------------------------------------
(* Every state of every search                                             *)

(* The last question and its depth stay between the searches. *)
Asked ==
  /\ depth <= Cardinality(Kinds)
  /\ calls > 0 => snapshot \in Snapshots /\ call \in Calls

LEMMA AskedStays ==
  ASSUME SearchInv, Asked, SearchInv', UNCHANGED <<snapshot, call, asked>>,
         depth' = depth \/ pc' # "idle"
  PROVE  Asked'
<1>1. pc' # "idle" => depth' \in Nat /\ depth' <= Cardinality(Marked)'
  BY DEF SearchInv, Searching, Typed
<1>2. /\ Marked' \in SUBSET Kinds /\ IsFiniteSet(Kinds)
  BY TraversalAssumption DEF Marked, MarkedIn
<1>3. /\ Cardinality(Marked') <= Cardinality(Kinds) /\ Cardinality(Kinds) \in Nat
      /\ Cardinality(Marked') \in Nat
  BY <1>2, FS_Subset, FS_CardinalityType
<1>4. depth' <= Cardinality(Kinds)
  BY <1>1, <1>3 DEF Asked
<1> QED BY <1>4 DEF Asked, asked

SearchIInv == SearchInv /\ AnswersGood /\ Asked

LEMMA StutterStep == ASSUME SearchIInv, UNCHANGED vars PROVE SearchIInv'
<1>1. /\ \A m : MarkedIn(m)' = MarkedIn(m) /\ (Covers(m)' <=> Covers(m))
      /\ \A k : Neighbours(k)' = Neighbours(k)
      /\ MaxDepth' = MaxDepth /\ ExactDepth' = ExactDepth /\ Found' = Found
      /\ \A n : Walk(n)' = Walk(n) /\ Ball(n)' = Ball(n) /\ Within(n)' = Within(n)
                /\ AtDistance(n)' = AtDistance(n)
      /\ Starts' = Starts /\ Limit' = Limit /\ (Unlimited' <=> Unlimited)
      /\ \A s : (ByDistance(s)' <=> ByDistance(s)) /\ (GoodAnswer(s)' <=> GoodAnswer(s))
      /\ \A s : Steps(s)' = Steps(s)
  BY QuestionStays DEF vars
<1>2. /\ UNCHANGED <<seen, result_seen, frontier, next_frontier, pending, depth, results>>
      /\ UNCHANGED <<pc, snapshot, call, answer, program, calls>>
  BY DEF vars, scratch, asked
<1>3. /\ Marked' = Marked /\ Returned' = Returned
      /\ Within(depth)' = Within(depth) /\ Within(depth - 1)' = Within(depth - 1)
      /\ Ball(depth)' = Ball(depth) /\ Ball(depth - 1)' = Ball(depth - 1)
      /\ AtDistance(depth)' = AtDistance(depth) /\ AtDistance(depth - 1)' = AtDistance(depth - 1)
      /\ Steps(AtDistance(depth - 1))' = Steps(AtDistance(depth - 1))
      /\ Walk(ExactDepth)' = Walk(ExactDepth)
  BY <1>1, <1>2 DEF Marked, Returned
<1>4. /\ Covers(seen)' <=> Covers(seen)
      /\ Covers(result_seen)' <=> Covers(result_seen)
      /\ DepthMatches' <=> DepthMatches
      /\ ByDistance(results)' <=> ByDistance(results)
      /\ GoodAnswer(answer.value)' <=> GoodAnswer(answer.value)
  BY <1>1, <1>2 DEF DepthMatches
<1>5. Typed' /\ Searching' /\ Exploring'
  BY <1>1, <1>2, <1>3, <1>4 DEF SearchIInv, SearchInv, Typed, Searching, Exploring
<1>6. Expanding'
  BY <1>1, <1>2, <1>3, <1>4 DEF SearchIInv, SearchInv, Expanding
<1>7. Collecting'
  BY <1>1, <1>2, <1>3, <1>4 DEF SearchIInv, SearchInv, Collecting
<1>8. AnswersGood'
  BY <1>1, <1>2, <1>3, <1>4 DEF SearchIInv, AnswersGood, Answered, CanReachAgrees
<1>9. Asked'
  BY <1>2 DEF SearchIInv, Asked
<1> QED BY <1>5, <1>6, <1>7, <1>8, <1>9 DEF SearchIInv, SearchInv

(* However many searches shared the scratch space before, and on whatever
   snapshots, a search stays exact and its answer is good.                 *)
THEOREM SearchInvariance == Spec => []SearchIInv
<1>1. Init => SearchIInv
  <2>1. IsFiniteSet(Kinds)
    BY TraversalAssumption
  <2>2. Cardinality(Kinds) \in Nat
    BY <2>1, FS_CardinalityType
  <2> QED BY <2>2, SearchStart DEF Init, SearchIInv, AnswersGood, CanReachAgrees, Answered, Asked
<1>2. SearchIInv /\ [Next]_vars => SearchIInv'
  <2> SUFFICES ASSUME SearchIInv, [Next]_vars PROVE SearchIInv'
    OBVIOUS
  <2> USE DEF SearchIInv
  <2>1. CASE AskNext
    <3>1. SearchInv' /\ AnswersGood'
      BY <2>1, AskNextStep
    <3>2. Asked'
      <4>1. PICK s \in Snapshots, c \in Calls : Start(s, c)
        BY <2>1, AskFacts DEF AskNext
      <4>2. depth' = 0 /\ snapshot' = s /\ call' = c
        BY <4>1 DEF Start
      <4>3. Cardinality(Kinds) \in Nat
        BY MarkedFinite
      <4> QED BY <4>2, <4>3 DEF Asked
    <3> QED BY <3>1, <3>2
  <2>2. CASE MarkSeed
    <3>1. SearchInv' /\ pc' # "idle" /\ UNCHANGED <<snapshot, call, asked>> /\ depth' = depth
      BY <2>2, MarkSeedStep DEF MarkSeed
    <3> QED BY <3>1, AskedStays, NotAnswered
  <2>3. CASE SeedsMarked
    <3>1. SearchInv' /\ pc' # "idle" /\ UNCHANGED <<snapshot, call, asked>> /\ depth' = depth
      BY <2>3, SeedsMarkedStep DEF SeedsMarked
    <3> QED BY <3>1, AskedStays, NotAnswered
  <2>4. CASE PushSeed
    <3>1. SearchInv' /\ AnswersGood' /\ UNCHANGED <<snapshot, call, asked>> /\ depth' = depth
      BY <2>4, PushSeedStep DEF PushSeed
    <3> QED BY <3>1, AskedStays
  <2>5. CASE BeginLevel
    <3>1. SearchInv' /\ AnswersGood' /\ UNCHANGED <<snapshot, call, asked>>
          /\ (depth' = depth \/ pc' # "idle")
      BY <2>5, BeginLevelStep DEF BeginLevel
    <3> QED BY <3>1, AskedStays
  <2>6. CASE NextNode
    <3>1. SearchInv' /\ pc' # "idle" /\ UNCHANGED <<snapshot, call, asked>> /\ depth' = depth
      BY <2>6, NextNodeStep DEF NextNode
    <3> QED BY <3>1, AskedStays, NotAnswered
  <2>7. CASE VisitTraverse
    <3>1. SearchInv' /\ AnswersGood' /\ UNCHANGED <<snapshot, call, asked>> /\ depth' = depth
      BY <2>7, VisitTraverseStep DEF VisitTraverse
    <3> QED BY <3>1, AskedStays
  <2>8. CASE VisitCanReach
    <3>1. SearchInv' /\ AnswersGood' /\ UNCHANGED <<snapshot, call, asked>> /\ depth' = depth
      BY <2>8, VisitCanReachStep DEF VisitCanReach
    <3> QED BY <3>1, AskedStays
  <2>9. CASE EndLevel
    <3>1. SearchInv' /\ AnswersGood' /\ UNCHANGED <<snapshot, call, asked>> /\ depth' = depth
      BY <2>9, EndLevelStep DEF EndLevel
    <3> QED BY <3>1, AskedStays
  <2>10. CASE UNCHANGED vars
    BY <2>10, StutterStep
  <2> QED BY <2>1, <2>2, <2>3, <2>4, <2>5, <2>6, <2>7, <2>8, <2>9, <2>10 DEF Next
<1> QED BY <1>1, <1>2, PTL DEF Spec

(* The scratch space keeps its types, and the depth of a search is at most
   the number of kinds, so that a search over a cycle ends.                *)
THEOREM SearchTypeCorrect == Spec => []TypeOK
<1>1. SearchIInv => TypeOK
  <2> SUFFICES ASSUME SearchIInv PROVE TypeOK
    OBVIOUS
  <2>1. Typed /\ Asked
    BY DEF SearchIInv, SearchInv
  <2>2. \A m \in {seen, result_seen} :
          /\ m.generation \in 0..(Generations - 1) /\ m.unknown \subseteq Kinds
          /\ \A i \in DOMAIN m.marks : m.marks[i] \in 0..(Generations - 1)
    <3>1. \A m \in {seen, result_seen} :
            m.generation \in Gens /\ m.unknown \in SUBSET Kinds /\ m.marks \in Seq(Gens)
      BY <2>1 DEF Typed, MarksOK, MarkSpaces
    <3>2. \A m \in {seen, result_seen} : \A i \in DOMAIN m.marks : m.marks[i] \in Gens
      <4> TAKE m \in {seen, result_seen}
      <4> DEFINE q == m.marks
      <4>1. q \in Seq(Gens)
        BY <3>1
      <4> HIDE DEF q
      <4>2. \A i \in DOMAIN q : q[i] \in Gens
        BY <4>1
      <4> QED BY <4>2 DEF q
    <3> QED BY <3>1, <3>2 DEF Gens
  <2>3. depth \in 0..(Cardinality(Kinds) + 1)
    BY <2>1, MarkedFinite DEF Typed, Asked
  <2> QED BY <2>1, <2>2, <2>3 DEF Typed, TypeOK
<1> QED BY <1>1, SearchInvariance, PTL

(* The marks between two levels are what at most depth edges reach: marks of
   earlier calls, snapshots and laps of the counter never show through.    *)
THEOREM LevelsAlwaysExact == Spec => []LevelsAreExact
<1>1. SearchIInv => LevelsAreExact
  <2> SUFFICES ASSUME SearchIInv, pc = "level"
               PROVE  /\ {k \in Kinds : ~Fresh(seen, k)} = Within(depth)
                      /\ Elements(frontier) = AtDistance(depth)
                      /\ Len(frontier) = Cardinality(AtDistance(depth))
    BY DEF LevelsAreExact
  <2>1. /\ Marked = Within(depth) /\ Elements(frontier) = AtDistance(depth)
        /\ NoRepeat(frontier) /\ frontier \in Seq(Kinds)
    BY DEF SearchIInv, SearchInv, Typed, Searching, Exploring
  <2>2. Len(frontier) = Cardinality(Elements(frontier))
    BY <2>1, ListCardinality
  <2> QED BY <2>1, <2>2 DEF Marked, MarkedIn
<1> QED BY <1>1, SearchInvariance, PTL

(* Without limits a query returns all that is within its depth, and nothing
   else.                                                                   *)
THEOREM FindsWhatIsWithin == Spec => []ReachesWithinDepth
<1>1. SearchIInv => ReachesWithinDepth
  BY DEF SearchIInv, AnswersGood, GoodAnswer, ReachesWithinDepth
<1> QED BY <1>1, SearchInvariance, PTL

(* What the runs call the ball of n edges, a seed included or not. *)
LEMMA BallOfAnswer ==
  ASSUME call \in Calls, call.op = "traverse", NEW n \in Nat
  PROVE  UNION {Walk(i) : i \in (IF call.include_start THEN 0 ELSE 1)..n} = Starts \cup Ball(n)
<1>1. CASE call.include_start
  <2>1. Within(n) = call.seeds \cup Ball(n)
    BY BallFacts
  <2> QED BY <1>1, <2>1 DEF Within, Starts
<1>2. CASE ~call.include_start
  BY <1>2 DEF Starts, Ball
<1> QED BY <1>1, <1>2

(* Nearer kinds come first, and with dedup each comes once, also in an
   answer that a limit cut short.                                          *)
THEOREM NearestFirst == Spec => []DiscoveryOrder
<1>1. SearchIInv => DiscoveryOrder
  <2> SUFFICES ASSUME SearchIInv, Answered("traverse"), call.dedup, call.depth.spec \in {"To", "Transitive"}
               PROVE  /\ Cardinality(Elements(answer.value)) = Len(answer.value)
                      /\ \A n \in 0..Horizon :
                           LET ball == UNION {Walk(i) : i \in (IF call.include_start THEN 0 ELSE 1)..n}
                           IN \A i \in 1..(Len(answer.value) - 1) :
                                answer.value[i + 1] \in ball => answer.value[i] \in ball
    BY DEF DiscoveryOrder
  <2>1. call \in Calls /\ call.op = "traverse" /\ ExactDepth = None /\ GoodAnswer(answer.value)
    BY DepthFacts DEF SearchIInv, AnswersGood, Asked, Answered
  <2>2. Cardinality(Elements(answer.value)) = Len(answer.value) /\ ByDistance(answer.value)
    BY <2>1 DEF GoodAnswer
  <2>3. Horizon \in Nat
    BY <2>1, DepthFacts, MarkedFinite DEF Horizon
  <2>4. ASSUME NEW n \in 0..Horizon
        PROVE  UNION {Walk(i) : i \in (IF call.include_start THEN 0 ELSE 1)..n} = Starts \cup Ball(n)
    BY <2>1, <2>3, BallOfAnswer
  <2> QED BY <2>2, <2>4 DEF ByDistance
<1> QED BY <1>1, SearchInvariance, PTL

(* A limit cuts an answer short and does nothing else to it. *)
THEOREM LimitsOnlyCut == Spec => []LimitsCutShort
<1>1. SearchIInv => LimitsCutShort
  <2> SUFFICES ASSUME SearchIInv, Answered("traverse"), call.dedup,
                      call.depth.spec \in {"To", "Transitive"}, ~Unlimited
               PROVE  /\ Elements(answer.value) \subseteq AllResults
                      /\ Len(answer.value) = IF Cardinality(AllResults) < Limit
                                             THEN Cardinality(AllResults) ELSE Limit
    BY DEF LimitsCutShort, Limit
  <2>1. ExactDepth = None /\ GoodAnswer(answer.value)
    BY DepthFacts DEF SearchIInv, AnswersGood, Asked, Answered
  <2> QED BY <2>1 DEF GoodAnswer
<1> QED BY <1>1, SearchInvariance, PTL

(* Between two kinds, can_reach finds its target when a walk within its hops
   leads there, and only then.                                             *)
THEOREM CanReachAlwaysAgrees == Spec => []CanReachAgrees
<1>1. SearchIInv => CanReachAgrees
  BY DEF SearchIInv, AnswersGood
<1> QED BY <1>1, SearchInvariance, PTL

-----------------------------------------------------------------------------
(* A search without bound                                                  *)

(* Levels grow until one leads nowhere new, and kinds run out. *)
LEMMA LevelsRunOut ==
  ASSUME call \in Calls, call.seeds # {}
  PROVE  \E n \in Nat : n < Cardinality(Kinds) /\ Steps(AtDistance(n)) \subseteq Within(n)
<1> DEFINE c == Cardinality(Kinds)
<1>1. IsFiniteSet(Kinds) /\ c \in Nat
  BY TraversalAssumption, FS_CardinalityType
<1>2. ASSUME NEW n \in Nat
      PROVE  /\ Within(n) \in SUBSET Kinds /\ IsFiniteSet(Within(n))
             /\ Cardinality(Within(n)) \in Nat /\ Cardinality(Within(n)) <= c
  <2>1. \A i \in 0..n : Walk(i) \subseteq Kinds
    BY WalkInKinds
  <2>2. Within(n) \in SUBSET Kinds
    BY <2>1 DEF Within
  <2> QED BY <1>1, <2>2, FS_Subset, FS_CardinalityType
<1> SUFFICES ASSUME \A n \in Nat : n < c => ~(Steps(AtDistance(n)) \subseteq Within(n))
             PROVE  FALSE
  BY DEF c
<1> DEFINE S == {i \in 0..c : Cardinality(Within(i)) >= i + 1}
<1>3. 0 \in S
  <2>1. Within(0) # {}
    BY BallFacts
  <2>2. Cardinality(Within(0)) # 0
    BY <1>2, <2>1, FS_EmptySet
  <2> QED BY <1>1, <1>2, <2>2
<1>4. ASSUME NEW i \in 0..(c - 1), i \in S PROVE i + 1 \in S
  <2>1. i \in Nat /\ i < c /\ i + 1 \in Nat /\ i + 1 \in 0..c
    BY <1>1
  <2>2. Within(i + 1) = Within(i) \cup Steps(AtDistance(i)) /\ ~(Steps(AtDistance(i)) \subseteq Within(i))
    BY <2>1, NextLevel
  <2>3. Within(i) \subseteq Within(i + 1) /\ Within(i) # Within(i + 1)
    BY <2>2
  <2>4. /\ Cardinality(Within(i)) <= Cardinality(Within(i + 1))
        /\ Cardinality(Within(i)) # Cardinality(Within(i + 1))
    BY <1>2, <2>1, <2>3, FS_Subset
  <2>5. Cardinality(Within(i)) \in Nat /\ Cardinality(Within(i + 1)) \in Nat
    BY <1>2, <2>1
  <2> QED BY <1>4, <2>1, <2>4, <2>5
<1>5. c \in S
  <2>1. 0..c \subseteq S
    <3> HIDE DEF S, c
    <3> QED BY <1>1, <1>3, <1>4, IntervalInduction
  <2> QED BY <1>1, <2>1
<1> QED BY <1>1, <1>2, <1>5

(* With as many edges as there are kinds a walk has been everywhere. *)
LEMMA NothingBeyondKinds ==
  ASSUME call \in Calls, NEW m \in Nat, m >= Cardinality(Kinds)
  PROVE  Ball(m) = Ball(Cardinality(Kinds))
<1> DEFINE c == Cardinality(Kinds)
<1>1. c \in Nat
  BY TraversalAssumption, FS_CardinalityType
<1>2. CASE call.seeds = {}
  <2>1. \A n \in Nat : Ball(n) = {}
    <3> TAKE n \in Nat
    <3> DEFINE S == {i \in 0..n : Walk(i) = {}}
    <3>1. 0 \in S
      BY <1>2, WalkUnfolds
    <3>2. ASSUME NEW i \in 0..(n - 1), i \in S PROVE i + 1 \in S
      <4>1. i \in Nat /\ i + 1 \in 0..n
        OBVIOUS
      <4>2. Walk(i + 1) = Steps(Walk(i)) /\ Walk(i) = {}
        BY <3>2, <4>1, WalkUnfolds
      <4> QED BY <4>1, <4>2, StepsFacts
    <3>3. 0..n \subseteq S
      <4> HIDE DEF S
      <4> QED BY <3>1, <3>2, IntervalInduction
    <3>4. \A i \in 1..n : Walk(i) = {}
      BY <3>3
    <3> QED BY <3>4 DEF Ball
  <2> QED BY <1>1, <2>1
<1>3. CASE call.seeds # {}
  <2>1. PICK n \in Nat : n < c /\ Steps(AtDistance(n)) \subseteq Within(n)
    BY <1>3, LevelsRunOut
  <2>2. \A k \in Nat : k > n => Ball(k) = Ball(n + 1)
    BY <2>1, LastLevel
  <2>3. c > n /\ m > n
    <3> HIDE DEF c
    <3>1. m >= c
      BY DEF c
    <3> QED BY <1>1, <2>1, <3>1
  <2> QED BY <1>1, <2>2, <2>3
<1> QED BY <1>2, <1>3

LEMMA HorizonIsEnough ==
  ASSUME call \in Calls
  PROVE  Found = Ball(MaxDepth)
<1>1. MaxDepth \in Nat /\ Cardinality(Kinds) \in Nat
  BY DepthFacts, TraversalAssumption, FS_CardinalityType
<1>2. CASE MaxDepth < Cardinality(Kinds)
  BY <1>2 DEF Found, Horizon, Ball
<1>3. CASE ~(MaxDepth < Cardinality(Kinds))
  <2>1. MaxDepth >= Cardinality(Kinds)
    BY <1>1, <1>3
  <2>2. Found = Ball(Cardinality(Kinds))
    BY <1>3 DEF Found, Horizon, Ball
  <2> QED BY <1>1, <2>1, <2>2, NothingBeyondKinds
<1> QED BY <1>2, <1>3

(* The least set that holds what one edge from a seed leads to, and what
   one edge from a member does.  With is_a as the relation and one kind as
   the seed these are the ancestors of IsACache.                           *)
LeastClosed(F) ==
  /\ Steps(call.seeds) \subseteq F /\ Steps(F) \subseteq F
  /\ \A B \in SUBSET Kinds : Steps(call.seeds) \subseteq B /\ Steps(B) \subseteq B => F \subseteq B

LEMMA FoundIsLeastClosed ==
  ASSUME call \in Calls, MaxDepth >= Cardinality(Kinds)
  PROVE  LeastClosed(Found)
<1> DEFINE c == Cardinality(Kinds)
<1>1. c \in Nat /\ MaxDepth \in Nat /\ c + 1 \in Nat /\ c + 1 >= c /\ 0 <= c
  BY DepthFacts, TraversalAssumption, FS_CardinalityType
<1>2. Found = Ball(c) /\ Ball(c + 1) = Ball(c)
  BY <1>1, HorizonIsEnough, NothingBeyondKinds
<1>3. Steps(Within(c)) = Ball(c + 1) /\ Within(c) = call.seeds \cup Ball(c)
  <2> HIDE DEF c
  <2> QED BY <1>1, StepsOfWithin, BallFacts
<1>4. Steps(call.seeds) \subseteq Found /\ Steps(Found) \subseteq Found
  BY <1>2, <1>3, StepsFacts
<1>5. ASSUME NEW B \in SUBSET Kinds, Steps(call.seeds) \subseteq B, Steps(B) \subseteq B
      PROVE  Ball(c) \subseteq B
  <2> DEFINE S == {i \in 0..c : Walk(i + 1) \subseteq B}
  <2>1. 0 \in S
    <3>1. Walk(0 + 1) = Steps(call.seeds)
      BY WalkUnfolds
    <3> QED BY <1>1, <1>5, <3>1
  <2>2. ASSUME NEW i \in 0..(c - 1), i \in S PROVE i + 1 \in S
    <3>1. i + 1 \in Nat /\ i + 1 \in 0..c
      BY <1>1
    <3>2. Walk((i + 1) + 1) = Steps(Walk(i + 1)) /\ Walk(i + 1) \subseteq B
      BY <2>2, <3>1, WalkUnfolds
    <3>3. Steps(Walk(i + 1)) \subseteq Steps(B)
      BY <3>2, StepsFacts
    <3> QED BY <1>5, <3>1, <3>2, <3>3
  <2>3. 0..c \subseteq S
    <3> HIDE DEF S, c
    <3> QED BY <1>1, <2>1, <2>2, IntervalInduction
  <2>4. \A i \in 1..c : Walk(i) \subseteq B
    <3> TAKE i \in 1..c
    <3>1. i - 1 \in 0..c /\ (i - 1) + 1 = i
      <4> HIDE DEF c
      <4> QED BY <1>1
    <3>2. Walk((i - 1) + 1) \subseteq B
      BY <2>3, <3>1
    <3> QED BY <3>1, <3>2
  <2> QED BY <2>4 DEF Ball
<1> QED BY <1>2, <1>4, <1>5 DEF LeastClosed

(* Horizon, which lets TLC evaluate Found for a transitive query, is no
   bound: Found is what walks of any length up to max_depth reach.         *)
THEOREM HorizonLosesNothing == Spec => [](call # None => Found = UNION {Walk(i) : i \in 1..MaxDepth})
<1>1. SearchIInv => (call # None => Found = UNION {Walk(i) : i \in 1..MaxDepth})
  <2> SUFFICES ASSUME SearchIInv, call # None PROVE Found = Ball(MaxDepth)
    BY DEF Ball
  <2>1. call \in Calls
    BY DEF SearchIInv, SearchInv, Typed
  <2> QED BY <2>1, HorizonIsEnough
<1> QED BY <1>1, SearchInvariance, PTL

(* traverse_kinds and reachable to a depth no path exceeds return the least
   closed set, which is how IsACache describes what is_a looks for.        *)
THEOREM UnboundedIsClosure ==
  Spec => [](Answered("traverse") /\ Unlimited /\ ~call.include_start /\ ExactDepth = None
               /\ MaxDepth >= Cardinality(Kinds) => LeastClosed(Elements(answer.value)))
<1>1. SearchIInv =>
        (Answered("traverse") /\ Unlimited /\ ~call.include_start /\ ExactDepth = None
           /\ MaxDepth >= Cardinality(Kinds) => LeastClosed(Elements(answer.value)))
  <2> SUFFICES ASSUME SearchIInv, Answered("traverse"), Unlimited, ~call.include_start, ExactDepth = None,
                      MaxDepth >= Cardinality(Kinds)
               PROVE  LeastClosed(Elements(answer.value))
    OBVIOUS
  <2>1. call \in Calls
    BY DEF SearchIInv, Asked, Answered
  <2>2. Elements(answer.value) = Found
    BY DEF SearchIInv, AnswersGood, GoodAnswer, AllResults
  <2>3. LeastClosed(Found)
    BY <2>1, FoundIsLeastClosed
  <2> QED BY <2>2, <2>3
<1> QED BY <1>1, SearchInvariance, PTL
=============================================================================
