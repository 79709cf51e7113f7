---------------------------- MODULE IsACacheProofs ----------------------------
(***************************************************************************)
(* The is_a cache of a snapshot answers as if there were none, for any     *)
(* number of threads, kinds, snapshots and calls.  A cached entry is the   *)
(* least set of ancestors itself, whoever computed it, so that every       *)
(* answer is the truth about the links of the snapshot it was asked of,    *)
(* and truths of one snapshot form a preorder.  A guard is held exactly    *)
(* where the code is inside its scope, so nobody who waits holds one and   *)
(* somebody can always go on.                                              *)
(***************************************************************************)
EXTENDS IsACache, TLAPS

Closed(s, k, A) == Parents(s, k) \subseteq A /\ \A a \in A : Parents(s, a) \subseteq A

Truth(q) == q.subject = q.target \/ q.target \in Ancestors(q.snapshot, q.subject)

Places == {"idle", "look", "read", "compute", "lock", "insert"}

IsATypeOK ==
  /\ is_a_cache \in [Snapshots -> [Kinds -> (SUBSET Kinds) \cup {None}]]
  /\ pc \in [Threads -> Places]
  /\ readers \in [Snapshots -> SUBSET Threads]
  /\ writer \in [Snapshots -> Threads \cup {None}]
  /\ question \in [Threads -> Questions \cup {None}]
  /\ ancestors \in [Threads -> SUBSET Kinds]

(* An entry holds the ancestors of its subject in its snapshot. *)
CacheExact ==
  \A s \in Snapshots, k \in Kinds : is_a_cache[s][k] \in {None, Ancestors(s, k)}

At(t, place, s) == pc[t] = place /\ question[t].snapshot = s

(* Guards are held where the code is in their scope and nowhere else, and a
   writer is alone with the cache.                                         *)
GuardsHeld ==
  \A s \in Snapshots :
    /\ \A t \in Threads : t \in readers[s] <=> At(t, "read", s)
    /\ \A t \in Threads : writer[s] = t <=> At(t, "insert", s)
    /\ writer[s] # None => readers[s] = {}

(* A thread that has not returned looks for a real question's ancestors. *)
CallsSound ==
  \A t \in Threads : pc[t] # "idle" =>
    /\ question[t] \in Questions /\ question[t].subject # question[t].target
    /\ pc[t] \in {"lock", "insert"} => ancestors[t] = Ancestors(question[t].snapshot, question[t].subject)

(* Every answer given so far is the truth. *)
ToldTruly ==
  \A a \in told : a.question \in Questions /\ a.value = Truth(a.question)

IsAInv == IsATypeOK /\ GuardsHeld /\ CacheExact /\ CallsSound /\ ToldTruly

-----------------------------------------------------------------------------
(* The ancestors are well defined: of the sets of kinds that are closed under
   parents, their intersection is the least.                               *)
LEMMA LeastAncestors ==
  ASSUME NEW s \in Snapshots, NEW k \in Kinds
  PROVE  /\ Ancestors(s, k) \in SUBSET Kinds
         /\ Closed(s, k, Ancestors(s, k))
         /\ \A B \in SUBSET Kinds : Closed(s, k, B) => Ancestors(s, k) \subseteq B
<1> DEFINE least == {x \in Kinds : \A B \in SUBSET Kinds : Closed(s, k, B) => x \in B}
<1>1. least \in SUBSET Kinds
  OBVIOUS
<1>2. \A x : Parents(s, x) \subseteq Kinds
  BY DEF Parents
<1>3. Parents(s, k) \subseteq least
  BY <1>2 DEF Closed
<1>4. \A a \in least : Parents(s, a) \subseteq least
  BY <1>2 DEF Closed
<1>5. \A B \in SUBSET Kinds : Closed(s, k, B) => least \subseteq B
  OBVIOUS
<1>6. \E A \in SUBSET Kinds :
        /\ Parents(s, k) \subseteq A /\ \A a \in A : Parents(s, a) \subseteq A
        /\ \A B \in SUBSET Kinds :
             Parents(s, k) \subseteq B /\ (\A b \in B : Parents(s, b) \subseteq B) => A \subseteq B
  BY <1>1, <1>3, <1>4, <1>5 DEF Closed
<1> HIDE DEF least
<1> QED BY <1>6 DEF Ancestors, Closed

(* An ancestor's ancestors are ancestors. *)
LEMMA AncestorsTransitive ==
  ASSUME NEW s \in Snapshots, NEW a \in Kinds, NEW b \in Ancestors(s, a)
  PROVE  Ancestors(s, b) \subseteq Ancestors(s, a)
<1>1. b \in Kinds /\ Ancestors(s, a) \in SUBSET Kinds /\ Closed(s, a, Ancestors(s, a))
  BY LeastAncestors
<1>2. Closed(s, b, Ancestors(s, a))
  BY <1>1 DEF Closed
<1> QED BY <1>1, <1>2, LeastAncestors

(* A set closed under links that holds a kind holds its ancestors. *)
LEMMA AncestorsGrounded ==
  ASSUME NEW s \in Snapshots, NEW a \in Kinds, NEW S \in SUBSET Kinds, a \in S,
         \A link \in IsA[s] : link[1] \in S => link[2] \in S
  PROVE  Ancestors(s, a) \subseteq S
<1>1. \A x \in S : \A y \in Parents(s, x) : y \in S
  <2>1. SUFFICES ASSUME NEW x \in S, NEW y \in Parents(s, x) PROVE y \in S
    OBVIOUS
  <2>2. <<x, y>> \in IsA[s]
    BY DEF Parents
  <2>3. <<x, y>>[1] = x /\ <<x, y>>[2] = y
    OBVIOUS
  <2> QED BY <2>2, <2>3
<1>2. Closed(s, a, S)
  BY <1>1 DEF Closed
<1> QED BY <1>2, LeastAncestors

-----------------------------------------------------------------------------
(* Returning adds one true answer. *)
LEMMA ReturnTruly ==
  ASSUME IsATypeOK, CallsSound, ToldTruly, NEW t \in Threads, NEW q \in Questions, NEW value,
         Return(t, q, value), value = Truth(q), UNCHANGED <<question, ancestors>>
  PROVE  /\ pc' \in [Threads -> Places]
         /\ CallsSound' /\ ToldTruly'
<1>1. pc'[t] = "idle" /\ \A u \in Threads : u # t => pc'[u] = pc[u]
  BY DEF Return, IsATypeOK
<1>2. pc' \in [Threads -> Places]
  BY DEF Return, IsATypeOK, Places
<1>3. CallsSound'
  BY <1>1 DEF CallsSound
<1>4. \A a \in told' : a \in told \/ a = [question |-> q, value |-> value]
  BY DEF Return
<1>5. ToldTruly'
  BY <1>4 DEF ToldTruly
<1> QED BY <1>2, <1>3, <1>5

(* A thread that goes on without returning. *)
LEMMA GotoSoundly ==
  ASSUME IsATypeOK, CallsSound, ToldTruly, NEW t \in Threads, pc[t] # "idle",
         NEW step \in Places \ {"idle"}, Goto(t, step), UNCHANGED question, ancestors' \in [Threads -> SUBSET Kinds],
         \A u \in Threads : u # t => ancestors'[u] = ancestors[u],
         step \in {"lock", "insert"} => ancestors'[t] = Ancestors(question[t].snapshot, question[t].subject)
  PROVE  /\ pc' \in [Threads -> Places]
         /\ CallsSound' /\ ToldTruly'
<1>1. pc'[t] = step /\ \A u \in Threads : u # t => pc'[u] = pc[u]
  BY DEF Goto, IsATypeOK
<1>2. pc' \in [Threads -> Places]
  BY DEF Goto, IsATypeOK
<1>3. CallsSound'
  BY <1>1 DEF CallsSound
<1>4. ToldTruly'
  BY DEF Goto, ToldTruly
<1> QED BY <1>2, <1>3, <1>4

(* A thread moves and takes or drops the guard it should. *)
LEMMA GuardsMove ==
  ASSUME IsATypeOK, GuardsHeld, NEW t \in Threads, NEW s \in Snapshots, s = question[t].snapshot,
         NEW place, pc' = [pc EXCEPT ![t] = place], UNCHANGED question,
         readers' = [readers EXCEPT ![s] = IF place = "read" THEN @ \cup {t} ELSE @ \ {t}],
         \/ UNCHANGED writer /\ pc[t] # "insert" /\ place # "insert"
         \/ writer' = [writer EXCEPT ![s] = None] /\ pc[t] = "insert" /\ place # "insert"
         \/ writer' = [writer EXCEPT ![s] = t] /\ place = "insert" /\ writer[s] = None /\ readers[s] = {},
         place = "read" => writer[s] = None
  PROVE  GuardsHeld'
<1>1. pc'[t] = place /\ \A u \in Threads : u # t => pc'[u] = pc[u]
  BY DEF IsATypeOK
<1>2. \A r \in Snapshots :
        readers'[r] = IF r = s THEN (IF place = "read" THEN readers[s] \cup {t} ELSE readers[s] \ {t}) ELSE readers[r]
  BY DEF IsATypeOK
<1>3. ASSUME NEW r \in Snapshots, NEW u \in Threads PROVE u \in readers'[r] <=> At(u, "read", r)'
  BY <1>1, <1>2 DEF GuardsHeld, At
<1>4. t # None /\ \A u \in Threads : u # None
  BY IsAAssumption
<1>5. ASSUME NEW r \in Snapshots, NEW u \in Threads PROVE writer'[r] = u <=> At(u, "insert", r)'
  <2>1. CASE UNCHANGED writer /\ pc[t] # "insert" /\ place # "insert"
    BY <1>1, <2>1 DEF GuardsHeld, At
  <2>2. CASE writer' = [writer EXCEPT ![s] = None] /\ pc[t] = "insert" /\ place # "insert"
    <3>1. writer[s] = t /\ writer'[r] = IF r = s THEN None ELSE writer[r]
      BY <2>2 DEF IsATypeOK, GuardsHeld, At
    <3> QED BY <1>1, <1>4, <2>2, <3>1 DEF GuardsHeld, At
  <2>3. CASE writer' = [writer EXCEPT ![s] = t] /\ place = "insert" /\ writer[s] = None /\ readers[s] = {}
    <3>1. writer'[r] = IF r = s THEN t ELSE writer[r]
      BY <2>3 DEF IsATypeOK
    <3>2. \A v \in Threads : ~At(v, "insert", s)
      BY <1>4, <2>3 DEF GuardsHeld
    <3>3. pc[t] = "insert" => FALSE
      BY <3>2 DEF At
    <3> QED BY <1>1, <2>3, <3>1, <3>2, <3>3 DEF GuardsHeld, At
  <2> QED BY <2>1, <2>2, <2>3
<1>6. ASSUME NEW r \in Snapshots, writer'[r] # None PROVE readers'[r] = {}
  <2>1. CASE r # s
    <3>1. writer'[r] = writer[r]
      BY <2>1 DEF IsATypeOK
    <3> QED BY <1>2, <1>6, <2>1, <3>1 DEF GuardsHeld
  <2>2. CASE r = s
    <3>1. place # "read"
      BY <1>6, <2>2 DEF IsATypeOK
    <3>2. readers[s] = {}
      BY <1>6, <2>2 DEF IsATypeOK, GuardsHeld
    <3> QED BY <1>2, <2>2, <3>1, <3>2
  <2> QED BY <2>1, <2>2
<1> QED BY <1>3, <1>5, <1>6 DEF GuardsHeld

LEMMA IsAInvInit ==
  ASSUME Init
  PROVE  IsAInv
<1>1. IsATypeOK
  <2>1. [k \in Kinds |-> None] \in [Kinds -> (SUBSET Kinds) \cup {None}]
    OBVIOUS
  <2>2. is_a_cache \in [Snapshots -> [Kinds -> (SUBSET Kinds) \cup {None}]]
    BY <2>1 DEF Init
  <2>3. {} \in SUBSET Kinds /\ {} \in SUBSET Threads
    OBVIOUS
  <2> QED BY <2>2, <2>3 DEF Init, IsATypeOK, Places
<1>2. CacheExact /\ CallsSound /\ ToldTruly
  BY DEF Init, CacheExact, CallsSound, ToldTruly
<1>3. GuardsHeld
  BY IsAAssumption DEF Init, GuardsHeld, At
<1> QED BY <1>1, <1>2, <1>3 DEF IsAInv

(* A new question. *)
LEMMA AskStep ==
  ASSUME IsAInv, NEW t \in Threads, NEW q \in Questions, Ask(t, q)
  PROVE  IsAInv'
<1>0. IsATypeOK /\ GuardsHeld /\ CacheExact /\ CallsSound /\ ToldTruly
  BY DEF IsAInv
<1>1. UNCHANGED <<is_a_cache, readers, writer, ancestors>> /\ pc[t] = "idle"
  BY DEF Ask
<1>2. CacheExact'
  BY <1>0, <1>1 DEF CacheExact
<1>3. ASSUME \A u \in Threads : u # t => question'[u] = question[u] /\ pc'[u] = pc[u],
             pc'[t] \in {"idle", "look"}
      PROVE  GuardsHeld'
  BY <1>0, <1>1, <1>3 DEF GuardsHeld, At
<1>4. CASE q.subject = q.target
  <2>1. Return(t, q, TRUE) /\ UNCHANGED question
    BY <1>4 DEF Ask
  <2>2. TRUE = Truth(q)
    BY <1>4 DEF Truth
  <2>3. pc' \in [Threads -> Places] /\ CallsSound' /\ ToldTruly'
    BY <1>0, <1>1, <2>1, <2>2, ReturnTruly
  <2>4. GuardsHeld'
    BY <1>0, <1>3, <2>1 DEF Return, IsATypeOK
  <2> QED BY <1>0, <1>1, <1>2, <2>1, <2>3, <2>4 DEF IsAInv, IsATypeOK
<1>5. CASE q.subject # q.target
  <2>1. /\ question' = [question EXCEPT ![t] = q]
        /\ pc' = [pc EXCEPT ![t] = "look"]
        /\ UNCHANGED told
    BY <1>5 DEF Ask, Goto
  <2>2. IsATypeOK'
    BY <1>0, <1>1, <2>1 DEF IsATypeOK, Places
  <2>3. /\ question'[t] = q /\ pc'[t] = "look"
        /\ \A u \in Threads : u # t => question'[u] = question[u] /\ pc'[u] = pc[u]
    BY <1>0, <2>1 DEF IsATypeOK
  <2>4. CallsSound'
    BY <1>0, <1>1, <1>5, <2>3 DEF CallsSound
  <2>5. ToldTruly'
    BY <1>0, <2>1 DEF ToldTruly
  <2>6. GuardsHeld'
    BY <1>3, <2>3
  <2> QED BY <1>2, <2>2, <2>4, <2>5, <2>6 DEF IsAInv
<1> QED BY <1>4, <1>5

(* A step inside is_a. *)
LEMMA InsideStep ==
  ASSUME IsAInv, NEW t \in Threads, Step(t)
  PROVE  IsAInv'
<1> DEFINE q == question[t]
           s == question[t].snapshot
<1>0. IsATypeOK /\ GuardsHeld /\ CacheExact /\ CallsSound /\ ToldTruly
  BY DEF IsAInv
<1>1. pc[t] # "idle" /\ UNCHANGED question
  BY DEF Step, LockForReading, Read, Compute, LockForWriting, Insert
<1>2. q \in Questions /\ q.subject # q.target /\ s \in Snapshots /\ q.subject \in Kinds
  BY <1>0, <1>1 DEF CallsSound, Questions
<1>3. Cached(q) \in {None, Ancestors(s, q.subject)}
  BY <1>0, <1>2 DEF CacheExact, Cached
<1>4. Truth(q) = (q.target \in Ancestors(s, q.subject))
  BY <1>2 DEF Truth
<1>5. (t \in readers[s] <=> pc[t] = "read") /\ (writer[s] = t <=> pc[t] = "insert")
  BY <1>0, <1>2 DEF GuardsHeld, At
<1>6. readers[s] \in SUBSET Threads /\ readers \in [Snapshots -> SUBSET Threads]
  BY <1>0, <1>2 DEF IsATypeOK
<1>7. pc[t] # "read" => readers = [readers EXCEPT ![s] = @ \ {t}]
  BY <1>2, <1>5, <1>6
<1>8. CASE LockForReading(t)
  <2>1. /\ pc[t] = "look" /\ writer[s] = None
        /\ readers' = [readers EXCEPT ![s] = @ \cup {t}]
        /\ Goto(t, "read") /\ UNCHANGED <<is_a_cache, writer, ancestors>>
    BY <1>8 DEF LockForReading
  <2>2. pc' \in [Threads -> Places] /\ CallsSound' /\ ToldTruly'
    BY <1>0, <1>1, <2>1, GotoSoundly DEF IsATypeOK, Places
  <2>3. GuardsHeld'
    BY <1>0, <1>1, <1>2, <2>1, GuardsMove DEF Goto
  <2>4. readers' \in [Snapshots -> SUBSET Threads]
    BY <1>2, <1>6, <2>1
  <2> QED BY <1>0, <1>1, <2>1, <2>2, <2>3, <2>4 DEF IsAInv, IsATypeOK, CacheExact
<1>9. CASE Read(t)
  <2>1. /\ pc[t] = "read" /\ AnswerOrCompute(t, q)
        /\ readers' = [readers EXCEPT ![s] = @ \ {t}]
        /\ UNCHANGED <<is_a_cache, writer, ancestors>>
    BY <1>9 DEF Read
  <2>2. pc' \in [Threads -> Places] /\ CallsSound' /\ ToldTruly'
    <3>1. CASE Cached(q) # None
      <4>1. Return(t, q, q.target \in Cached(q)) /\ (q.target \in Cached(q)) = Truth(q)
        BY <1>3, <1>4, <2>1, <3>1 DEF AnswerOrCompute
      <4> QED BY <1>0, <1>1, <1>2, <2>1, <4>1, ReturnTruly
    <3>2. CASE Cached(q) = None
      <4>1. Goto(t, "compute")
        BY <2>1, <3>2 DEF AnswerOrCompute
      <4> QED BY <1>0, <1>1, <2>1, <4>1, GotoSoundly DEF IsATypeOK, Places
    <3> QED BY <3>1, <3>2
  <2>3. PICK place \in {"idle", "compute"} : pc' = [pc EXCEPT ![t] = place]
    BY <2>1 DEF AnswerOrCompute, Return, Goto
  <2>4. GuardsHeld'
    BY <1>0, <1>1, <1>2, <2>1, <2>3, GuardsMove
  <2>5. readers' \in [Snapshots -> SUBSET Threads]
    BY <1>2, <1>6, <2>1
  <2> QED BY <1>0, <1>1, <2>1, <2>2, <2>4, <2>5 DEF IsAInv, IsATypeOK, CacheExact
<1>10. CASE Compute(t)
  <2>1. /\ pc[t] = "compute" /\ Goto(t, "lock")
        /\ ancestors' = [ancestors EXCEPT ![t] = Ancestors(s, q.subject)]
        /\ UNCHANGED <<is_a_cache, readers, writer>>
    BY <1>10 DEF Compute
  <2>2. Ancestors(s, q.subject) \in SUBSET Kinds
    BY <1>2, LeastAncestors
  <2>3. /\ ancestors' \in [Threads -> SUBSET Kinds] /\ ancestors'[t] = Ancestors(s, q.subject)
        /\ \A u \in Threads : u # t => ancestors'[u] = ancestors[u]
    BY <1>0, <2>1, <2>2 DEF IsATypeOK
  <2>4. pc' \in [Threads -> Places] /\ CallsSound' /\ ToldTruly'
    BY <1>0, <1>1, <2>1, <2>3, GotoSoundly DEF Places
  <2>5. GuardsHeld'
    BY <1>0, <1>1, <1>2, <1>7, <2>1, GuardsMove DEF Goto
  <2> QED BY <1>0, <1>1, <2>1, <2>3, <2>4, <2>5 DEF IsAInv, IsATypeOK, CacheExact
<1>11. CASE LockForWriting(t)
  <2>1. /\ pc[t] = "lock" /\ writer[s] = None /\ readers[s] = {}
        /\ writer' = [writer EXCEPT ![s] = t]
        /\ Goto(t, "insert") /\ UNCHANGED <<is_a_cache, readers, ancestors>>
    BY <1>11 DEF LockForWriting
  <2>2. ancestors[t] = Ancestors(s, q.subject)
    BY <1>0, <2>1 DEF CallsSound
  <2>3. pc' \in [Threads -> Places] /\ CallsSound' /\ ToldTruly'
    BY <1>0, <1>1, <2>1, <2>2, GotoSoundly DEF IsATypeOK, Places
  <2>4. GuardsHeld'
    BY <1>0, <1>1, <1>2, <1>7, <2>1, GuardsMove DEF Goto
  <2>5. writer' \in [Snapshots -> Threads \cup {None}]
    BY <1>0, <2>1 DEF IsATypeOK
  <2> QED BY <1>0, <1>1, <2>1, <2>3, <2>4, <2>5 DEF IsAInv, IsATypeOK, CacheExact
<1>12. CASE Insert(t)
  <2> DEFINE kept == IF Cached(q) # None THEN Cached(q) ELSE ancestors[t]
  <2>1. /\ pc[t] = "insert" /\ UNCHANGED <<readers, ancestors>>
        /\ is_a_cache' = [is_a_cache EXCEPT ![s][q.subject] = kept]
        /\ Return(t, q, q.target \in kept)
        /\ writer' = [writer EXCEPT ![s] = None]
    BY <1>12 DEF Insert
  <2>2. kept = Ancestors(s, q.subject)
    BY <1>0, <1>3, <2>1 DEF CallsSound
  <2>3. kept \in SUBSET Kinds
    BY <1>2, <2>2, LeastAncestors
  <2>4. pc' \in [Threads -> Places] /\ CallsSound' /\ ToldTruly'
    BY <1>0, <1>1, <1>2, <1>4, <2>1, <2>2, ReturnTruly
  <2> HIDE DEF kept
  <2>5. is_a_cache' \in [Snapshots -> [Kinds -> (SUBSET Kinds) \cup {None}]]
    BY <1>0, <1>2, <2>1, <2>3 DEF IsATypeOK
  <2>6. \A r \in Snapshots, k \in Kinds :
          is_a_cache'[r][k] = IF r = s /\ k = q.subject THEN kept ELSE is_a_cache[r][k]
    BY <1>0, <1>2, <2>1 DEF IsATypeOK
  <2>7. CacheExact'
    BY <1>0, <2>2, <2>6 DEF CacheExact
  <2>8. GuardsHeld'
    BY <1>0, <1>1, <1>2, <1>7, <2>1, GuardsMove DEF Return
  <2>9. writer' \in [Snapshots -> Threads \cup {None}]
    BY <1>0, <2>1 DEF IsATypeOK
  <2> QED BY <1>0, <1>1, <2>1, <2>4, <2>5, <2>7, <2>8, <2>9 DEF IsAInv, IsATypeOK
<1> QED BY <1>8, <1>9, <1>10, <1>11, <1>12 DEF Step

LEMMA IsAInvStep ==
  ASSUME IsAInv, [Next]_vars
  PROVE  IsAInv'
<1>1. CASE UNCHANGED vars
  BY <1>1 DEF vars, IsAInv, IsATypeOK, GuardsHeld, At, CacheExact, CallsSound, ToldTruly
<1> QED BY <1>1, AskStep, InsideStep DEF Next

(* The inductive invariant: what is cached is what would be computed. *)
THEOREM IsAInvariance == Spec => []IsAInv
<1>1. Init => IsAInv
  BY IsAInvInit
<1>2. IsAInv /\ [Next]_vars => IsAInv'
  BY IsAInvStep
<1> QED BY <1>1, <1>2, PTL DEF Spec

(* True answers form a preorder over the links. *)
LEMMA TruthIsPreorder ==
  ASSUME ToldTruly
  PROVE  AnswersFormPreorder
<1> DEFINE q(s, a, b) == [snapshot |-> s, subject |-> a, target |-> b]
<1>1. \A s \in Snapshots, a, b \in Kinds :
        /\ Yes(s, a, b) => a = b \/ b \in Ancestors(s, a)
        /\ No(s, a, b) => a # b /\ b \notin Ancestors(s, a)
  BY DEF ToldTruly, Truth, Yes, No
<1>2. YesIsGrounded
  <2>1. SUFFICES ASSUME NEW s \in Snapshots, NEW a \in Kinds, NEW b \in Kinds, Yes(s, a, b),
                        NEW S \in SUBSET Kinds, a \in S,
                        \A link \in IsA[s] : link[1] \in S => link[2] \in S
                 PROVE  b \in S
    BY DEF YesIsGrounded
  <2>2. Ancestors(s, a) \subseteq S
    BY <2>1, AncestorsGrounded
  <2> QED BY <1>1, <2>1, <2>2
<1>3. ASSUME NEW s \in Snapshots, NEW a \in Kinds, NEW b \in Kinds
      PROVE  /\ ~(Yes(s, a, b) /\ No(s, a, b))
             /\ No(s, a, b) => a # b /\ <<a, b>> \notin IsA[s]
             /\ Yes(s, a, b) => \A c \in Kinds : Yes(s, b, c) => ~No(s, a, c)
  <2>1. ~(Yes(s, a, b) /\ No(s, a, b))
    BY <1>1
  <2>2. <<a, b>> \in IsA[s] => b \in Ancestors(s, a)
    BY LeastAncestors DEF Closed, Parents
  <2>3. b \in Ancestors(s, a) => Ancestors(s, b) \subseteq Ancestors(s, a)
    BY AncestorsTransitive
  <2> QED BY <1>1, <2>1, <2>2, <2>3
<1> QED BY <1>2, <1>3 DEF AnswersFormPreorder

(* What threads are told about one snapshot, in whatever order they ask and
   whether the cache answers or not, is one preorder over its links: is_a of
   src/src/snapshot.rs never contradicts itself, denies no link nor what
   follows from two answers, and makes up no yes.                          *)
THEOREM AnswersArePreorder == Spec => []AnswersFormPreorder
<1>1. IsAInv => AnswersFormPreorder
  BY TruthIsPreorder DEF IsAInv
<1> QED BY <1>1, IsAInvariance, PTL

(* What a thread needs to go on from where it is. *)
CanStep(t) ==
  LET s == question[t].snapshot
  IN \/ pc[t] \in {"read", "compute", "insert"}
     \/ pc[t] = "look" /\ writer[s] = None
     \/ pc[t] = "lock" /\ writer[s] = None /\ readers[s] = {}

(* Threads inside is_a never all wait for each other, nor one for itself: a
   guard somebody waits behind is held by a thread that can go on.         *)
THEOREM SomebodyGoesOn ==
  Spec => [](\A t \in Threads : pc[t] # "idle" => \E u \in Threads : pc[u] # "idle" /\ CanStep(u))
<1>1. IsAInv => \A t \in Threads : pc[t] # "idle" => \E u \in Threads : pc[u] # "idle" /\ CanStep(u)
  <2> SUFFICES ASSUME IsAInv, NEW t \in Threads, pc[t] # "idle"
               PROVE  \E u \in Threads : pc[u] # "idle" /\ CanStep(u)
    OBVIOUS
  <2> DEFINE s == question[t].snapshot
  <2>1. /\ IsATypeOK /\ GuardsHeld /\ s \in Snapshots
        /\ readers[s] \in SUBSET Threads /\ writer[s] \in Threads \cup {None} /\ pc[t] \in Places
    BY DEF IsAInv, CallsSound, Questions, IsATypeOK
  <2>2. CASE writer[s] # None
    <3>1. writer[s] \in Threads /\ At(writer[s], "insert", s)
      BY <2>1, <2>2 DEF GuardsHeld
    <3> QED BY <3>1 DEF At, CanStep
  <2>3. CASE writer[s] = None /\ readers[s] # {}
    <3>1. PICK u \in Threads : At(u, "read", s)
      BY <2>1, <2>3 DEF GuardsHeld
    <3> QED BY <3>1 DEF At, CanStep
  <2>4. CASE writer[s] = None /\ readers[s] = {}
    BY <2>1, <2>4 DEF CanStep, Places
  <2> QED BY <2>2, <2>3, <2>4
<1> QED BY <1>1, IsAInvariance, PTL
=============================================================================
