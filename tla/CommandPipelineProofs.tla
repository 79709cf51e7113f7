------------------------- MODULE CommandPipelineProofs -------------------------
(***************************************************************************)
(* Proofs about CommandPipeline, for every set of systems, commands,       *)
(* batches and chains and every number of frames: the pipeline only takes  *)
(* steps of the registry, each command is in one place and is applied once *)
(* or lost behind a failure, callers are told what happened, and commands  *)
(* are applied in the order of issue, by the drain that is due for them.   *)
(***************************************************************************)
EXTENDS CommandPipeline, SemanticRegistryProofs

-----------------------------------------------------------------------------
(* Sequences of sequences                                                  *)

(* Induction over an interval, as a statement about sets: the theorems of
   the library that take a predicate cannot be instantiated.               *)
LEMMA IntervalInduction ==
  ASSUME NEW n \in Nat, NEW S, 0 \in S, \A i \in 0..(n - 1) : i \in S => i + 1 \in S
  PROVE  0..n \subseteq S
<1> DEFINE bad == {i \in 1..n : i \notin S}
<1>1. CASE bad = {}
  BY <1>1
<1>2. CASE bad # {}
  <2>1. Min(bad) \in bad /\ \A y \in bad : Min(bad) <= y
    <3>1. bad \in SUBSET (1..n)
      OBVIOUS
    <3> HIDE DEF bad
    <3> QED BY <1>2, <3>1, MinInSet
  <2>2. Min(bad) - 1 \in 0..(n - 1) /\ Min(bad) - 1 \notin bad
    BY <2>1
  <2>3. Min(bad) - 1 \in S
    BY <2>2
  <2>4. (Min(bad) - 1) + 1 \in S
    BY <2>2, <2>3
  <2> QED BY <2>1, <2>4
<1> QED BY <1>1, <1>2

(* f is a sequence of what the first k sequences of ss hold: in their order,
   and nothing else.                                                       *)
Flattens(f, ss, k) ==
  /\ \A p \in DOMAIN f : \E i \in 1..k : \E j \in DOMAIN ss[i] : f[p] = ss[i][j]
  /\ \A i \in 1..k : \A j \in DOMAIN ss[i] : \E p \in DOMAIN f : f[p] = ss[i][j]
  /\ \A p, q \in DOMAIN f : p < q =>
       \E i, h \in 1..k : \E j \in DOMAIN ss[i] : \E l \in DOMAIN ss[h] :
         f[p] = ss[i][j] /\ f[q] = ss[h][l] /\ (i < h \/ (i = h /\ j < l))

(* One sequence is flat. *)
LEMMA FlattensOne ==
  ASSUME NEW A, NEW ss, ss[1] \in Seq(A)
  PROVE  Flattens(ss[1], ss, 1)
BY DEF Flattens

(* Another sequence goes to the end. *)
LEMMA FlattensMore ==
  ASSUME NEW A, NEW ss, NEW k \in Nat \ {0}, NEW f \in Seq(A), Flattens(f, ss, k), ss[k + 1] \in Seq(A)
  PROVE  Flattens(f \o ss[k + 1], ss, k + 1)
<1> DEFINE t == ss[k + 1]
           g == f \o t
<1>1. /\ g \in Seq(A) /\ DOMAIN f = 1..Len(f) /\ DOMAIN t = 1..Len(t)
      /\ DOMAIN g = 1..(Len(f) + Len(t)) /\ Len(f) \in Nat /\ Len(t) \in Nat
      /\ \A p \in DOMAIN f : p \in DOMAIN g /\ g[p] = f[p]
      /\ \A j \in DOMAIN t : Len(f) + j \in DOMAIN g /\ g[Len(f) + j] = t[j]
      /\ \A p \in DOMAIN g : p \in DOMAIN f \/ (p - Len(f) \in DOMAIN t /\ g[p] = t[p - Len(f)])
  OBVIOUS
<1>2. 1..k \subseteq 1..(k + 1) /\ k + 1 \in 1..(k + 1) /\ \A i \in 1..(k + 1) : i \in 1..k \/ i = k + 1
  OBVIOUS
<1> HIDE DEF g
<1>3. \A p \in DOMAIN g : \E i \in 1..(k + 1) : \E j \in DOMAIN ss[i] : g[p] = ss[i][j]
  BY <1>1, <1>2 DEF Flattens
<1>4. ASSUME NEW i \in 1..(k + 1), NEW j \in DOMAIN ss[i]
      PROVE  \E p \in DOMAIN g : g[p] = ss[i][j]
  <2>1. CASE i = k + 1
    BY <1>1, <1>4, <2>1
  <2>2. CASE i \in 1..k
    <3>1. PICK p \in DOMAIN f : f[p] = ss[i][j]
      BY <1>4, <2>2 DEF Flattens
    <3> QED BY <1>1, <3>1
  <2> QED BY <1>2, <1>4, <2>1, <2>2
<1>5. ASSUME NEW p \in DOMAIN g, NEW q \in DOMAIN g, p < q
      PROVE  \E i, h \in 1..(k + 1) : \E j \in DOMAIN ss[i] : \E l \in DOMAIN ss[h] :
               g[p] = ss[i][j] /\ g[q] = ss[h][l] /\ (i < h \/ (i = h /\ j < l))
  <2>1. CASE q \in DOMAIN f
    <3>1. p \in DOMAIN f
      BY <1>1, <1>5, <2>1
    <3>2. PICK i \in 1..k, h \in 1..k : \E j \in DOMAIN ss[i] : \E l \in DOMAIN ss[h] :
            f[p] = ss[i][j] /\ f[q] = ss[h][l] /\ (i < h \/ (i = h /\ j < l))
      BY <1>5, <2>1, <3>1 DEF Flattens
    <3>3. i \in 1..(k + 1) /\ h \in 1..(k + 1) /\ g[p] = f[p] /\ g[q] = f[q]
      BY <1>1, <1>2, <2>1, <3>1
    <3> QED BY <3>2, <3>3
  <2>2. CASE q \notin DOMAIN f /\ p \in DOMAIN f
    <3>1. PICK i \in 1..k : \E j \in DOMAIN ss[i] : f[p] = ss[i][j]
      BY <2>2 DEF Flattens
    <3>2. i < k + 1 /\ i \in 1..(k + 1)
      OBVIOUS
    <3> QED BY <1>1, <1>2, <2>2, <3>1, <3>2
  <2>3. CASE q \notin DOMAIN f /\ p \notin DOMAIN f
    <3>1. /\ p - Len(f) \in DOMAIN t /\ g[p] = t[p - Len(f)]
          /\ q - Len(f) \in DOMAIN t /\ g[q] = t[q - Len(f)]
          /\ p - Len(f) < q - Len(f)
      BY <1>1, <1>5, <2>3
    <3> QED BY <1>2, <3>1
  <2> QED BY <2>1, <2>2, <2>3
<1> QED BY <1>3, <1>4, <1>5 DEF Flattens, g

(* f flattens longer and longer beginnings of ss, one sequence at a time. *)
Accumulates(f, ss, A, k) ==
  \A i \in 1..k : /\ f[i] = IF i = 1 THEN ss[i] ELSE f[i - 1] \o ss[i]
                  /\ f[i] \in Seq(A)
                  /\ Flattens(f[i], ss, i)

(* It goes on as it began. *)
LEMMA AccumulatesOn ==
  ASSUME NEW A, NEW ss, NEW k \in Nat, NEW f, Accumulates(f, ss, A, k), ss[k + 1] \in Seq(A),
         f[k + 1] = IF k = 0 THEN ss[1] ELSE f[k] \o ss[k + 1]
  PROVE  Accumulates(f, ss, A, k + 1)
<1>1. f[k + 1] \in Seq(A) /\ Flattens(f[k + 1], ss, k + 1)
  <2>1. CASE k = 0
    BY <2>1, FlattensOne
  <2>2. CASE k # 0
    <3>1. k \in Nat \ {0} /\ f[k] \in Seq(A) /\ Flattens(f[k], ss, k)
      BY <2>2 DEF Accumulates
    <3>2. Flattens(f[k] \o ss[k + 1], ss, k + 1)
      BY <3>1, FlattensMore
    <3> QED BY <2>2, <3>1, <3>2
  <2> QED BY <2>1, <2>2
<1>2. f[k + 1] = IF k + 1 = 1 THEN ss[k + 1] ELSE f[(k + 1) - 1] \o ss[k + 1]
  OBVIOUS
<1>3. \A i \in 1..(k + 1) : i \in 1..k \/ i = k + 1
  OBVIOUS
<1> QED BY <1>1, <1>2, <1>3 DEF Accumulates

(* FlattenSeq flattens. *)
LEMMA FlattenFlattens ==
  ASSUME NEW A, NEW ss \in Seq(Seq(A))
  PROVE  FlattenSeq(ss) \in Seq(A) /\ Flattens(FlattenSeq(ss), ss, Len(ss))
<1> DEFINE n == Len(ss)
           Step(f, i) == IF i = 1 THEN ss[i] ELSE f[i - 1] \o ss[i]
<1>1. n \in Nat /\ DOMAIN ss = 1..n /\ \A i \in 1..n : ss[i] \in Seq(A)
  OBVIOUS
<1>2. CASE n = 0
  <2>1. FlattenSeq(ss) = ss /\ ss = <<>>
    BY <1>2 DEF FlattenSeq
  <2> QED BY <1>2, <2>1 DEF Flattens
<1>3. CASE n # 0
  <2> DEFINE S == {k \in 0..n : \E f : Accumulates(f, ss, A, k)}
  <2>1. 0..n \subseteq S
    <3>1. 0 \in S
      BY <1>1 DEF Accumulates
    <3>2. ASSUME NEW k \in 0..(n - 1), k \in S PROVE k + 1 \in S
      <4>1. PICK f : Accumulates(f, ss, A, k)
        BY <3>2
      <4> DEFINE last == IF k = 0 THEN ss[1] ELSE f[k] \o ss[k + 1]
                 g == [i \in 1..(k + 1) |-> IF i = k + 1 THEN last ELSE f[i]]
      <4>2. k + 1 \in 1..n /\ k \in Nat /\ ss[k + 1] \in Seq(A)
        BY <1>1
      <4>3. \A i \in 1..k : g[i] = f[i] /\ (i # 1 => g[i - 1] = f[i - 1])
        OBVIOUS
      <4>4. g[k + 1] = last
        OBVIOUS
      <4>5. k # 0 => g[k] = f[k]
        OBVIOUS
      <4> HIDE DEF g
      <4>6. Accumulates(g, ss, A, k)
        BY <4>1, <4>3 DEF Accumulates
      <4>7. Accumulates(g, ss, A, k + 1)
        BY <4>2, <4>4, <4>5, <4>6, AccumulatesOn
      <4> QED BY <4>2, <4>7
    <3> HIDE DEF S
    <3> QED BY <1>1, <3>1, <3>2, IntervalInduction
  <2>2. PICK f : Accumulates(f, ss, A, n)
    <3>1. n \in S
      BY <1>1, <2>1
    <3> QED BY <3>1
  <2> DEFINE flat == CHOOSE h : h = [i \in 1..n |-> Step(h, i)]
             h0 == [i \in 1..n |-> f[i]]
  <2>3. h0 = [i \in 1..n |-> Step(h0, i)]
    <3>1. \A i \in 1..n : f[i] = Step(f, i) /\ Step(f, i) = Step(h0, i)
      BY <1>1, <2>2 DEF Accumulates
    <3> HIDE DEF Step
    <3> QED BY <3>1
  <2>4. flat = [i \in 1..n |-> Step(flat, i)]
    <3> HIDE DEF Step, h0
    <3> QED BY <2>3
  <2>5. FlattenSeq(ss) = flat[n]
    BY <1>3 DEF FlattenSeq
  <2>6. \A i \in 1..n : flat[i] = Step(flat, i)
    <3> HIDE DEF Step
    <3> DEFINE ff == flat
    <3>1. ff = [i \in 1..n |-> Step(ff, i)] BY <2>4
    <3> HIDE DEF ff
    <3>2. \A i \in 1..n : ff[i] = Step(ff, i) BY <3>1
    <3> QED BY <3>2 DEF ff
  <2> HIDE DEF flat
  <2> DEFINE T == {k \in 0..n : Accumulates(flat, ss, A, k)}
  <2>7. 0..n \subseteq T
    <3>1. 0 \in T
      BY <1>1 DEF Accumulates
    <3>2. ASSUME NEW k \in 0..(n - 1), k \in T PROVE k + 1 \in T
      <4>1. k + 1 \in 1..n /\ k \in Nat /\ ss[k + 1] \in Seq(A)
        BY <1>1
      <4>2. flat[k + 1] = IF k = 0 THEN ss[1] ELSE flat[k] \o ss[k + 1]
        BY <2>6, <4>1
      <4> QED BY <3>2, <4>1, <4>2, AccumulatesOn
    <3> HIDE DEF T
    <3> QED BY <1>1, <3>1, <3>2, IntervalInduction
  <2>8. flat[n] \in Seq(A) /\ Flattens(flat[n], ss, n)
    <3>1. n \in T /\ n \in 1..n
      BY <1>1, <1>3, <2>7
    <3> QED BY <3>1 DEF Accumulates
  <2> QED BY <2>5, <2>8
<1> QED BY <1>2, <1>3

-----------------------------------------------------------------------------
(* Types, and what each worker may leave in its hands                      *)

Items == [id : Nat \ {0}, command : Commands \cup DirectCalls]
Issues == [source : Range(Systems) \cup {"task", "edit"}, frame : 0..MaxFrame, phase : Phases]
Dones == [id : Nat \ {0}, verdict : Outcomes, frame : 0..MaxFrame, phase : Phases \cup {"panicked"}]

Typed ==
  /\ frame \in 0..MaxFrame /\ phase \in Phases \cup {"panicked"}
  /\ todo \subseteq {"apply", "playback"}
  /\ buffers \in [Range(Systems) -> Seq(Items)]
  /\ queue \in Seq(Items) /\ batches \in Seq(Seq(Items)) /\ left \in Seq(Items)
  /\ worker \in {"none", "apply", "playback", "edit"}
  /\ result \in Errors \cup {"Ok"} /\ changed \in BOOLEAN /\ moved \in BOOLEAN
  /\ issued \in Seq(Issues) /\ Len(issued) <= MaxCommands
  /\ takes \in Seq(Seq(Nat \ {0})) /\ done \in Seq(Dones)

(* Nobody holds commands without holding Semantics; an error empties the
   hands of a drain and a playback; only a chain's call can be half done.  *)
HandsClean ==
  /\ worker = "none" => left = <<>>
  /\ worker # "edit" /\ result # "Ok" => left = <<>>
  /\ worker # "none" => phase # "panicked"
  /\ validated # <<>> => worker = "edit" /\ left # <<>> /\ result = "Ok"

(* Whatever a command or a direct call does is a step of the registry. *)
LEMMA CallIsStep ==
  ASSUME NEW c \in Commands \cup DirectCalls, Perform(c) \/ PerformDirect(c)
  PROVE  Next /\ Idle /\ (Perform(c) => UNCHANGED validated)
<1>1. CASE c.op = "RegisterKind" /\ RegisterKind(c.name)
  <2>1. c.name \in Spellings
    BY <1>1 DEF Commands, DirectCalls
  <2> QED BY <1>1, <2>1 DEF Next, RegisterKind
<1>2. CASE c.op = "RegisterTypedKind" /\ "name" \in DOMAIN c /\ TypedKindNamed(c.type, c.name)
  <2>1. c.type \in Types /\ c.name \in Spellings
    BY <1>2 DEF Commands, DirectCalls
  <2> QED BY <1>2, <2>1 DEF Next, TypedKindNamed
<1>3. CASE UnnamedTypedKind
  BY <1>3 DEF Next, UnnamedTypedKind
<1>4. CASE c.op = "UnregisterNamespace" /\ UnregisterNamespace(c.namespace)
  <2>1. c.namespace \in Namespaces
    BY <1>4 DEF Commands, DirectCalls
  <2> QED BY <1>4, <2>1 DEF Next, UnregisterNamespace
<1>5. CASE /\ c.op \in {"UnregisterKind", "TombstoneKind", "ReviveKind"}
           /\ UnregisterKind(c.kind) \/ TombstoneKind(c.kind) \/ ReviveKind(c.kind)
  <2>1. c.kind \in Kinds
    BY <1>5 DEF Commands, DirectCalls
  <2> QED BY <1>5, <2>1 DEF Next, UnregisterKind, TombstoneKind, ReviveKind
<1>6. CASE c.op \in {"AddEdges", "RemoveEdges"} /\ (AddEdges(c.edges) \/ RemoveEdges(c.edges))
  <2>1. c.edges \in EdgeGroups
    BY <1>6 DEF Commands, DirectCalls
  <2> QED BY <1>6, <2>1 DEF Next, AddEdges, RemoveEdges, EditEdges
<1>7. CASE c.op = "register_const" /\ RegisterConst(c.name, c.kind)
  <2>1. \E d \in UNION {Range(g) : g \in ConstGroups} : c = [op |-> "register_const", name |-> d.name, kind |-> d.kind]
    BY <1>7 DEF Commands, DirectCalls
  <2>2. \E g \in ConstGroups : \E i \in DOMAIN g : c.name = g[i].name /\ c.kind = g[i].kind
    BY <2>1 DEF Range
  <2>3. ~Perform(c)
    BY <1>7 DEF Perform
  <2> QED BY <1>7, <2>2, <2>3 DEF Next, RegisterConst
<1>8. CASE c.op = "register_consts" /\ RegisterConsts(c.group)
  <2>1. c.group \in ConstGroups
    BY <1>8 DEF Commands, DirectCalls
  <2>2. ~Perform(c)
    BY <1>8 DEF Perform
  <2> QED BY <1>8, <2>1, <2>2 DEF Next, RegisterConsts
<1>9. CASE c.op = "register_semantic_type" /\ RegisterSemanticType(c.type)
  <2>1. c.type \in StaticTypes
    BY <1>9 DEF Commands, DirectCalls
  <2>2. ~Perform(c)
    BY <1>9 DEF Perform
  <2> QED BY <1>9, <2>1, <2>2 DEF Next, RegisterSemanticType, BindStaticType
<1> QED BY <1>1, <1>2, <1>3, <1>4, <1>5, <1>6, <1>7, <1>8, <1>9 DEF Perform, PerformDirect

(* Numbering gives the commands the next numbers, in order. *)
LEMMA NumberedTyped ==
  ASSUME Typed, NEW cs \in Seq(Commands \cup DirectCalls)
  PROVE  /\ Numbered(cs) \in Seq(Items) /\ Len(Numbered(cs)) = Len(cs) /\ Len(cs) \in Nat
         /\ DOMAIN Numbered(cs) = 1..Len(cs)
         /\ \A i \in 1..Len(cs) : Numbered(cs)[i].id = Len(issued) + i
<1>1. Len(issued) \in Nat /\ DOMAIN cs = 1..Len(cs) /\ Len(cs) \in Nat
  BY DEF Typed
<1>2. \A i \in 1..Len(cs) : Item(Len(issued) + i, cs[i]) \in Items /\ Item(Len(issued) + i, cs[i]).id = Len(issued) + i
  BY <1>1 DEF Item, Items
<1>3. Numbered(cs) = [i \in 1..Len(cs) |-> Item(Len(issued) + i, cs[i])]
  BY <1>1 DEF Numbered
<1> HIDE DEF Items
<1> QED BY <1>1, <1>2, <1>3

(* Issuing is recorded for each command. *)
LEMMA IssueTyped ==
  ASSUME Typed, phase # "panicked", NEW n \in Nat, MayIssue(n),
         NEW source \in Range(Systems) \cup {"task", "edit"}, Issue(source, n)
  PROVE  /\ issued' \in Seq(Issues) /\ Len(issued') <= MaxCommands /\ Len(issued') = Len(issued) + n
         /\ \A id \in 1..Len(issued) : issued'[id] = issued[id]
         /\ \A id \in (Len(issued) + 1)..(Len(issued) + n) :
              issued'[id] = [source |-> source, frame |-> frame, phase |-> phase]
<1> DEFINE new == [i \in 1..n |-> [source |-> source, frame |-> frame, phase |-> phase]]
<1>1. [source |-> source, frame |-> frame, phase |-> phase] \in Issues
  BY DEF Typed, Issues
<1>2. issued \in Seq(Issues) /\ Len(issued) \in Nat /\ MaxCommands \in Nat
  BY PipelineAssumption DEF Typed
<1> HIDE DEF Issues
<1>3. new \in Seq(Issues) /\ Len(new) = n /\ \A i \in 1..n : new[i] = [source |-> source, frame |-> frame, phase |-> phase]
  BY <1>1
<1>4. issued' = issued \o new
  BY DEF Issue
<1> HIDE DEF new
<1>5. issued' \in Seq(Issues) /\ Len(issued') = Len(issued) + n
  BY <1>2, <1>3, <1>4
<1>6. \A id \in 1..Len(issued) : issued'[id] = issued[id]
  BY <1>2, <1>3, <1>4
<1>7. \A id \in (Len(issued) + 1)..(Len(issued) + n) :
        issued'[id] = [source |-> source, frame |-> frame, phase |-> phase]
  <2> TAKE id \in (Len(issued) + 1)..(Len(issued) + n)
  <2>1. id - Len(issued) \in 1..n /\ issued'[id] = new[id - Len(issued)]
    BY <1>2, <1>3, <1>4
  <2> QED BY <1>3, <2>1
<1> QED BY <1>2, <1>5, <1>6, <1>7 DEF MayIssue

(* What a taker holds is written down as numbers. *)
LEMMA IdsTyped ==
  ASSUME NEW items \in Seq(Items)
  PROVE  /\ Ids(items) \in Seq(Nat \ {0}) /\ Len(Ids(items)) = Len(items)
         /\ DOMAIN Ids(items) = DOMAIN items
         /\ \A i \in DOMAIN items : Ids(items)[i] = items[i].id
<1>0. \A item \in Items : item.id \in Nat \ {0}
  BY DEF Items
<1>1. \A i \in DOMAIN items : items[i].id \in Nat \ {0}
  BY <1>0
<1>2. Ids(items) = [i \in 1..Len(items) |-> items[i].id] /\ DOMAIN items = 1..Len(items)
  BY DEF Ids
<1> QED BY <1>1, <1>2

(* Flushed(p) flattens the buffers of the systems of p. *)
Cells(p) ==
  [i \in DOMAIN Systems |-> IF SystemPhase[Systems[i]] = p THEN buffers[Systems[i]] ELSE <<>>]

LEMMA FlushedFlattens ==
  ASSUME Typed, NEW p
  PROVE  /\ Cells(p) \in Seq(Seq(Items)) /\ Len(Cells(p)) = Len(Systems)
         /\ Flushed(p) \in Seq(Items) /\ Flattens(Flushed(p), Cells(p), Len(Systems))
<1>1. DOMAIN Systems = 1..Len(Systems) /\ Len(Systems) \in Nat
  BY PipelineAssumption
<1>2. \A i \in DOMAIN Systems : buffers[Systems[i]] \in Seq(Items)
  BY DEF Typed, Range
<1>3. Cells(p) \in Seq(Seq(Items)) /\ Len(Cells(p)) = Len(Systems)
  BY <1>1, <1>2 DEF Cells
<1>4. Flushed(p) = FlattenSeq(Cells(p))
  BY DEF Flushed, Cells
<1> QED BY <1>3, <1>4, FlattenFlattens

(* Flushing keeps the types, and takes whole buffers. *)
LEMMA FlushTyped ==
  ASSUME Typed, NEW ps \in SUBSET Phases, Flush(ps)
  PROVE  /\ queue' \in Seq(Items) /\ buffers' \in [Range(Systems) -> Seq(Items)]
         /\ \A s \in Range(Systems) : buffers'[s] = IF SystemPhase[s] \in ps THEN <<>> ELSE buffers[s]
<1>1. Flushed("update") \in Seq(Items) /\ Flushed("last") \in Seq(Items) /\ queue \in Seq(Items)
  BY FlushedFlattens DEF Typed
<1>2. queue' \in Seq(Items)
  BY <1>1 DEF Flush
<1>3. \A s \in Range(Systems) : (IF SystemPhase[s] \in ps THEN <<>> ELSE buffers[s]) \in Seq(Items)
  BY DEF Typed
<1> QED BY <1>2, <1>3 DEF Flush

(* Taking something up is written down, taking nothing is not. *)
LEMMA TakeTyped ==
  ASSUME Typed, NEW items \in Seq(Items), Take(items)
  PROVE  takes' \in Seq(Seq(Nat \ {0}))
BY IdsTyped DEF Take, Typed

(* A call that was made is recorded with its verdict. *)
LEMMA RecordTyped ==
  ASSUME Typed, left # <<>>, outcome' \in Outcomes, Record(Head(left))
  PROVE  /\ done' \in Seq(Dones) /\ moved' \in BOOLEAN
         /\ Len(done') = Len(done) + 1
         /\ done'[Len(done) + 1] = [id |-> Head(left).id, verdict |-> outcome', frame |-> frame, phase |-> phase]
         /\ \A i \in DOMAIN done : i \in DOMAIN done' /\ done'[i] = done[i]
         /\ DOMAIN done' = DOMAIN done \cup {Len(done) + 1}
<1> DEFINE new == [id |-> Head(left).id, verdict |-> outcome', frame |-> frame, phase |-> phase]
<1>1. Head(left) \in Items
  BY DEF Typed
<1>2. new \in Dones
  BY <1>1 DEF Dones, Items, Typed
<1>3. done' = Append(done, new) /\ done \in Seq(Dones) /\ moved' \in BOOLEAN
  BY DEF Record, Typed
<1> HIDE DEF new, Dones
<1>4. /\ done' \in Seq(Dones) /\ Len(done') = Len(done) + 1
      /\ done'[Len(done) + 1] = new
      /\ \A i \in DOMAIN done : i \in DOMAIN done' /\ done'[i] = done[i]
      /\ DOMAIN done' = DOMAIN done \cup {Len(done) + 1}
  BY <1>2, <1>3
<1> QED BY <1>3, <1>4 DEF new

(* The head of what is held is done, the tail is left. *)
LEMMA HandTyped ==
  ASSUME Typed, left # <<>>
  PROVE  /\ Head(left) \in Items /\ Tail(left) \in Seq(Items)
         /\ Head(left) = left[1] /\ 1 \in DOMAIN left /\ Len(left) \in Nat \ {0}
         /\ Len(Tail(left)) = Len(left) - 1
         /\ \A i \in 1..(Len(left) - 1) : Tail(left)[i] = left[i + 1]
         /\ DOMAIN left = 1..Len(left) /\ DOMAIN Tail(left) = 1..(Len(left) - 1)
<1>1. left \in Seq(Items)
  BY DEF Typed
<1> HIDE DEF Items
<1> QED BY <1>1

(* Every step of the pipeline is a step of the registry, or leaves it alone. *)
LEMMA StepsRegistry ==
  ASSUME Typed, [PipelineNext]_pipelineVars
  PROVE  [Next]_vars
<1>1. CASE ApplyCommand
  <2>1. Head(left).command \in Commands \cup DirectCalls
    BY <1>1, HandTyped DEF ApplyCommand, Items
  <2> QED BY <1>1, <2>1, CallIsStep DEF ApplyCommand
<1>2. CASE EditCall
  <2>1. CASE UNCHANGED vars
    BY <2>1
  <2>2. CASE RegisterValidatedConst
    BY <2>2 DEF Next
  <2>3. CASE Perform(Head(left).command) \/ PerformDirect(Head(left).command)
    <3>1. Head(left).command \in Commands \cup DirectCalls
      BY <1>2, HandTyped DEF EditCall, Items
    <3> QED BY <2>3, <3>1, CallIsStep
  <2> QED BY <1>2, <2>1, <2>2, <2>3 DEF EditCall
<1>3. CASE Produce
  BY <1>3 DEF Produce, Stage, Enqueue, Edit
<1>4. CASE EditEnd \/ Playback \/ PopBatch \/ PlaybackEnd \/ ApplySemanticCommands \/ ApplyEnd
  BY <1>4 DEF EditEnd, Playback, PopBatch, PlaybackEnd, ApplySemanticCommands, ApplyEnd
<1>5. CASE EndPhase \/ Recover
  BY <1>5 DEF EndPhase, Recover
<1>6. CASE UNCHANGED pipelineVars
  BY <1>6 DEF pipelineVars
<1> QED BY <1>1, <1>2, <1>3, <1>4, <1>5, <1>6 DEF PipelineNext, Run

(* Handing out the types: producing. *)
LEMMA ProduceTyped ==
  ASSUME Typed, HandsClean, Produce
  PROVE  Typed' /\ HandsClean'
<1> USE DEF Typed, HandsClean
<1>1. ASSUME NEW s \in Range(Systems), NEW c \in Stageable, Stage(s, c)
      PROVE  Typed' /\ HandsClean'
  <2>1. c \in Commands \cup DirectCalls
    BY PipelineAssumption
  <2>2. <<c>> \in Seq(Commands \cup DirectCalls)
    BY <2>1
  <2>3. Numbered(<<c>>) \in Seq(Items)
    BY <2>2, NumberedTyped
  <2>4. buffers' \in [Range(Systems) -> Seq(Items)]
    <3>1. buffers[s] \o Numbered(<<c>>) \in Seq(Items)
      BY <2>3
    <3> QED BY <1>1, <3>1 DEF Stage
  <2>5. issued' \in Seq(Issues) /\ Len(issued') <= MaxCommands
    BY <1>1, IssueTyped DEF Stage, Free
  <2> QED BY <1>1, <2>4, <2>5 DEF Stage, scheduleVars, workVars, vars
<1>2. ASSUME NEW b \in BatchGroups, Enqueue(b)
      PROVE  Typed' /\ HandsClean'
  <2>1. b \in Seq(Commands \cup DirectCalls) /\ Len(b) \in Nat
    <3>1. b \in Seq(Commands)
      BY PipelineAssumption
    <3> QED BY <3>1
  <2>2. Numbered(b) \in Seq(Items)
    BY <2>1, NumberedTyped
  <2>3. batches' \in Seq(Seq(Items))
    BY <1>2, <2>2 DEF Enqueue
  <2>4. issued' \in Seq(Issues) /\ Len(issued') <= MaxCommands
    BY <1>2, <2>1, IssueTyped DEF Enqueue, Free
  <2> QED BY <1>2, <2>3, <2>4 DEF Enqueue, scheduleVars, workVars, vars
<1>3. ASSUME NEW cs \in EditChains, Edit(cs)
      PROVE  Typed' /\ HandsClean'
  <2>1. cs \in Seq(Commands \cup DirectCalls) /\ Len(cs) \in Nat
    <3>1. cs \in Seq(Commands \cup DirectCalls)
      BY PipelineAssumption
    <3> QED BY <3>1
  <2>2. Numbered(cs) \in Seq(Items)
    BY <2>1, NumberedTyped
  <2>3. takes' \in Seq(Seq(Nat \ {0}))
    BY <1>3, <2>2, IdsTyped DEF Edit
  <2>4. issued' \in Seq(Issues) /\ Len(issued') <= MaxCommands
    BY <1>3, <2>1, IssueTyped DEF Edit, Free
  <2>5. worker' = "edit" /\ left' \in Seq(Items) /\ result' = "Ok" /\ changed' = FALSE
    BY <1>3, <2>2 DEF Edit, Begin
  <2>6. phase # "panicked" /\ validated = <<>>
    BY <1>3 DEF Edit, Free
  <2> QED BY <1>3, <2>3, <2>4, <2>5, <2>6 DEF Edit, scheduleVars, waitingVars, vars
<1> QED BY <1>1, <1>2, <1>3 DEF Produce

(* ... applying and calling. *)
LEMMA CallsTyped ==
  ASSUME Typed, HandsClean, outcome' \in Outcomes, ApplyCommand \/ EditCall
  PROVE  Typed' /\ HandsClean'
<1>1. CASE ApplyCommand
  <2>1. worker \in {"apply", "playback"} /\ left # <<>> /\ result = "Ok"
    BY <1>1 DEF ApplyCommand
  <2>2. done' \in Seq(Dones) /\ moved' \in BOOLEAN
    BY <1>1, <2>1, RecordTyped DEF ApplyCommand
  <2>3. left' \in Seq(Items) /\ result' \in Errors \cup {"Ok"} /\ (result' # "Ok" => left' = <<>>)
    <3>1. CASE Failed(outcome')
      BY <1>1, <3>1 DEF ApplyCommand, AfterCommand, Failed
    <3>2. CASE ~Failed(outcome')
      BY <1>1, <2>1, <3>2, HandTyped DEF ApplyCommand, AfterCommand, Typed
    <3> QED BY <3>1, <3>2
  <2>4. validated' = <<>>
    <3>1. Head(left).command \in Commands \cup DirectCalls
      BY <2>1, HandTyped DEF Items
    <3> QED BY <1>1, <2>1, <3>1, CallIsStep DEF ApplyCommand, HandsClean
  <2>5. changed' \in BOOLEAN
    BY <1>1 DEF ApplyCommand, Typed
  <2> QED BY <1>1, <2>1, <2>2, <2>3, <2>4, <2>5
          DEF ApplyCommand, Typed, HandsClean, scheduleVars, waitingVars
<1>2. CASE EditCall
  <2>1. worker = "edit" /\ left # <<>> /\ phase # "panicked"
    BY <1>2 DEF EditCall, HandsClean
  <2>2. Tail(left) \in Seq(Items)
    BY <2>1, HandTyped
  <2>3. CASE /\ Latched # "Ok" /\ left' = Tail(left)
             /\ UNCHANGED <<vars, result, done, moved>>
    BY <1>2, <2>1, <2>2, <2>3 DEF EditCall, Latched, Typed, HandsClean, scheduleVars, waitingVars, vars
  <2>4. CASE /\ Latched = "Ok"
             /\ IF validated' = <<>>
                THEN /\ left' = Tail(left)
                     /\ result' = IF Failed(outcome') THEN outcome' ELSE "Ok"
                     /\ Record(Head(left))
                ELSE UNCHANGED <<left, result, done, moved>>
    <3>1. CASE validated' = <<>>
      <4>1. done' \in Seq(Dones) /\ moved' \in BOOLEAN
        BY <2>1, <2>4, <3>1, RecordTyped
      <4>2. result' \in Errors \cup {"Ok"}
        BY <2>4, <3>1 DEF Failed
      <4> QED BY <1>2, <2>1, <2>2, <2>4, <3>1, <4>1, <4>2
              DEF EditCall, Typed, HandsClean, scheduleVars, waitingVars
    <3>2. CASE validated' # <<>>
      BY <1>2, <2>1, <2>4, <3>2 DEF EditCall, Latched, Typed, HandsClean, scheduleVars, waitingVars
    <3> QED BY <3>1, <3>2
  <2> QED BY <1>2, <2>3, <2>4 DEF EditCall
<1> QED BY <1>1, <1>2

(* ... taking up and giving back. *)
LEMMA TurnsTyped ==
  ASSUME Typed, HandsClean,
         EditEnd \/ Playback \/ PopBatch \/ PlaybackEnd \/ ApplySemanticCommands \/ ApplyEnd
  PROVE  Typed' /\ HandsClean'
<1> USE DEF Typed, HandsClean
<1>1. CASE EditEnd
  BY <1>1 DEF EditEnd, Panic, NoPanic, vars, waitingVars
<1>2. CASE Playback
  BY <1>2 DEF Playback, Free, Begin, vars, waitingVars
<1>3. CASE PopBatch
  <2>1. batches \in Seq(Seq(Items)) /\ batches # <<>>
    BY <1>3 DEF PopBatch, MoreBatches
  <2>2. Head(batches) \in Seq(Items) /\ Tail(batches) \in Seq(Seq(Items))
    BY <2>1
  <2>3. takes' \in Seq(Seq(Nat \ {0}))
    BY <1>3, <2>2, TakeTyped DEF PopBatch
  <2> QED BY <1>3, <2>2, <2>3 DEF PopBatch, vars, scheduleVars
<1>4. CASE PlaybackEnd
  BY <1>4 DEF PlaybackEnd, AfterPlayback, vars, scheduleVars, ghostVars
<1>5. CASE ApplySemanticCommands
  <2>1. takes' \in Seq(Seq(Nat \ {0}))
    BY <1>5, TakeTyped DEF ApplySemanticCommands, Drained
  <2>2. queue' \in Seq(Items)
    BY <1>5 DEF ApplySemanticCommands, Drained, Undrained
  <2> QED BY <1>5, <2>1, <2>2 DEF ApplySemanticCommands, Begin, Free, Drained, vars
<1>6. CASE ApplyEnd
  BY <1>6 DEF ApplyEnd, Panic, NoPanic, vars, waitingVars
<1> QED BY <1>1, <1>2, <1>3, <1>4, <1>5, <1>6

(* ... and the frames. *)
LEMMA FramesTyped ==
  ASSUME Typed, HandsClean, EndPhase \/ Recover
  PROVE  Typed' /\ HandsClean'
<1>1. queue' \in Seq(Items) /\ buffers' \in [Range(Systems) -> Seq(Items)]
  <2>1. CASE EndPhase
    <3>1. {phase} \in SUBSET Phases
      BY <2>1 DEF EndPhase, Free, Typed
    <3> QED BY <2>1, <3>1, FlushTyped DEF EndPhase
  <2>2. CASE Recover /\ Flush(Phases)
    BY <2>2, FlushTyped
  <2>3. CASE Recover /\ UNCHANGED <<queue, buffers>>
    BY <2>3 DEF Typed
  <2> QED BY <2>1, <2>2, <2>3 DEF Recover
<1>2. frame' \in 0..MaxFrame /\ phase' \in Phases /\ todo' \subseteq {"apply", "playback"}
  <2>1. MaxFrame \in Nat
    BY PipelineAssumption
  <2> QED BY <2>1 DEF EndPhase, Recover, NextFrame, Scheduled, Phases, Typed
<1>3. phase' # "panicked"
  BY <1>2 DEF Phases
<1> QED BY <1>1, <1>2, <1>3 DEF EndPhase, Recover, Typed, HandsClean, vars, workVars, ghostVars

(* The registry is safe and everything has its type, in every step. *)
LEMMA TypedStep ==
  ASSUME Safe, Typed, HandsClean, [PipelineNext]_pipelineVars
  PROVE  Safe' /\ Typed' /\ HandsClean'
<1>1. Safe' /\ outcome' \in Outcomes
  BY StepsRegistry, NextSafe DEF Safe, IInv
<1>2. Typed' /\ HandsClean'
  <2>1. CASE UNCHANGED pipelineVars
    BY <2>1 DEF pipelineVars, vars, scheduleVars, waitingVars, workVars, ghostVars, Typed, HandsClean
  <2> QED BY <1>1, <2>1, ProduceTyped, CallsTyped, TurnsTyped, FramesTyped DEF PipelineNext, Run
<1> QED BY <1>1, <1>2

(* They hold at the start. *)
LEMMA InitTyped ==
  ASSUME PipelineInit
  PROVE  Safe /\ Typed /\ HandsClean
<1>1. Safe /\ validated = <<>>
  BY InitSafe DEF PipelineInit, Init
<1>2. MaxFrame \in Nat /\ MaxCommands \in Nat
  BY PipelineAssumption
<1>3. buffers \in [Range(Systems) -> Seq(Items)]
  BY DEF PipelineInit
<1>4. todo \subseteq {"apply", "playback"}
  BY DEF PipelineInit, Scheduled
<1>5. queue \in Seq(Items) /\ batches \in Seq(Seq(Items)) /\ left \in Seq(Items)
      /\ issued \in Seq(Issues) /\ takes \in Seq(Seq(Nat \ {0})) /\ done \in Seq(Dones)
  BY DEF PipelineInit
<1>6. frame \in 0..MaxFrame /\ phase \in Phases \cup {"panicked"} /\ Len(issued) <= MaxCommands
  BY <1>2 DEF PipelineInit, Phases
<1> QED BY <1>1, <1>3, <1>4, <1>5, <1>6 DEF PipelineInit, Typed, HandsClean

(* An app's registry behaves as SemanticRegistry says, whichever way the
   edits reach it: every theorem about the registry holds in an app.       *)
THEOREM PipelineIsRegistry == PipelineSpec => Spec
<1>1. PipelineInit => Init /\ Safe /\ Typed /\ HandsClean
  BY InitTyped DEF PipelineInit
<1>2. Safe /\ Typed /\ HandsClean /\ [PipelineNext]_pipelineVars => Safe' /\ Typed' /\ HandsClean'
  BY TypedStep
<1>3. Typed /\ [PipelineNext]_pipelineVars => [Next]_vars
  BY StepsRegistry
<1> QED BY <1>1, <1>2, <1>3, PTL DEF PipelineSpec, Spec

-----------------------------------------------------------------------------
(* Where commands are                                                      *)

IdsIn(items) == {items[i].id : i \in DOMAIN items}
Distinct(items) == \A i, j \in DOMAIN items : items[i].id = items[j].id => i = j

(* A family of sequences none of which repeats a command of another. *)
In(f) == UNION {IdsIn(f[a]) : a \in DOMAIN f}
Apart(f) ==
  \A a, b \in DOMAIN f : \A i \in DOMAIN f[a] : \A j \in DOMAIN f[b] :
    f[a][i].id = f[b][j].id => a = b /\ i = j

TakenIds == UNION {Range(takes[n]) : n \in DOMAIN takes}
DoneIds == {done[d].id : d \in DOMAIN done}
FailedIds == {done[d].id : d \in {e \in DOMAIN done : Failed(done[e].verdict)}}

TakenOnce ==
  \A n, m \in DOMAIN takes : \A i \in DOMAIN takes[n] : \A j \in DOMAIN takes[m] :
    takes[n][i] = takes[m][j] => n = m /\ i = j

(* Every command issued is in one place: a buffer, the queue, a batch, or
   taken up.                                                               *)
Placed ==
  /\ Apart(buffers) /\ Distinct(queue) /\ Apart(batches) /\ TakenOnce
  /\ 1..Len(issued) = In(buffers) \cup IdsIn(queue) \cup In(batches) \cup TakenIds
  /\ In(buffers) \cap IdsIn(queue) = {} /\ In(buffers) \cap In(batches) = {}
  /\ In(buffers) \cap TakenIds = {} /\ IdsIn(queue) \cap In(batches) = {}
  /\ IdsIn(queue) \cap TakenIds = {} /\ In(batches) \cap TakenIds = {}

(* What is held is the end of what was taken up last; what came before it
   was applied, or holds the failure of a chain.                           *)
Holding ==
  LET t == Last(takes)
      off == Len(t) - Len(left)
  IN /\ takes # <<>> /\ Len(left) <= Len(t)
     /\ \A k \in DOMAIN left : left[k].id = t[off + k] /\ left[k].id \notin DoneIds
     /\ IF result = "Ok" THEN \A i \in 1..off : t[i] \in DoneIds \ FailedIds
        ELSE \E i \in 1..off : t[i] \in FailedIds

(* A command was applied if all before it were and did not fail; one that
   was neither applied nor is held has a failure before it.                *)
Settled ==
  \A n \in DOMAIN takes : \A j \in DOMAIN takes[n] :
    /\ takes[n][j] \in DoneIds => \A i \in 1..(j - 1) : takes[n][i] \in DoneIds \ FailedIds
    /\ \/ takes[n][j] \in DoneIds \cup IdsIn(left)
       \/ \E i \in 1..(j - 1) : takes[n][i] \in FailedIds

AppliedOnce ==
  /\ \A d, e \in DOMAIN done : done[d].id = done[e].id => d = e
  /\ DoneIds \subseteq TakenIds

(* The first error of a chain is the one it has latched. *)
Latching ==
  worker = "edit" =>
    /\ takes # <<>>
    /\ IF result = "Ok" THEN Range(Last(takes)) \cap FailedIds = {}
       ELSE \E d \in DOMAIN done :
              /\ done[d].id \in Range(Last(takes)) /\ Failed(done[d].verdict)
              /\ done[d].verdict = result
              /\ \A e \in DOMAIN done :
                   done[e].id \in Range(Last(takes)) /\ Failed(done[e].verdict) => e = d

Noticing == worker = "playback" /\ result = "Ok" => changed = moved

PipelineInv ==
  /\ Safe /\ Typed /\ HandsClean /\ Placed
  /\ left # <<>> => Holding
  /\ Settled /\ AppliedOnce /\ Latching /\ Noticing

-----------------------------------------------------------------------------
(* What a call says is what it did                                         *)

(* Changed and Unchanged are said of versions that moved and stood still. *)
LEMMA OutcomeTellsVersion ==
  ASSUME Safe, Next, outcome' \notin Errors
  PROVE  /\ outcome' = "Changed" => version' # version
         /\ outcome' = "Unchanged" => version' = version
<1>1. version \in 0..(VersionModulus - 1) /\ (Bump(1) => version' # version)
  BY BumpMoves DEF Safe, IInv, Coherent, TableOK
<1>2. Bump(0) => version' = version
  <2>1. VersionModulus \in Nat /\ VersionModulus > 2
    BY VersionAssumption
  <2> QED BY <1>1, <2>1 DEF Bump
<1>3. ASSUME NEW n, NEW k, NEW t, NEW b, NEW rv, Register(n, k, t, b, rv)
      PROVE  outcome' = "Ok"
  BY <1>3, VerdictTyped DEF Register, Fail
<1>4. CASE \E v \in Errors : Fail(v)
  BY <1>4 DEF Fail
<1>5. ASSUME NEW s \in Spellings, RegisterKind(s)
      PROVE  outcome' = "Ok"
  BY <1>3, <1>5 DEF RegisterKind, Fail, Errors
<1>6. ASSUME NEW s, NEW d, RegisterConst(s, d)
      PROVE  outcome' = "Ok"
  BY <1>3, <1>6, VerdictTyped DEF RegisterConst, Fail
<1>7. ASSUME NEW g \in ConstGroups, RegisterConsts(g)
      PROVE  outcome' = "Ok"
  <2> DEFINE Verdicts == Errors \cup {"Ok"}
             verdicts == [i \in 1..Len(g) |-> GroupVerdict(g, i)]
  <2>1. Len(g) \in Nat
    BY InputAssumption
  <2>2. \A i : GroupVerdict(g, i) \in Verdicts
    BY VerdictTyped DEF GroupVerdict, Errors
  <2>3. verdicts \in [1..Len(g) -> Verdicts]
    BY <2>2
  <2>4. FirstFault(verdicts) \in Verdicts
    <3> HIDE DEF verdicts, Verdicts
    <3>1. "Ok" \in Verdicts BY DEF Verdicts
    <3> QED BY <2>1, <2>3, <3>1, FirstFaultTyped
  <2> QED BY <1>7, <2>4 DEF RegisterConsts, Fail
<1>8. CASE RegisterValidatedConst
  BY <1>3, <1>8 DEF RegisterValidatedConst
<1>9. ASSUME NEW k \in Kinds, TombstoneKind(k)
      PROVE  /\ outcome' = "Changed" => version' # version
             /\ outcome' = "Unchanged" => version' = version
  BY <1>1, <1>9 DEF TombstoneKind, Tombstone, Fail, Changes
<1>10. ASSUME NEW k \in Kinds, ReviveKind(k)
       PROVE  /\ outcome' = "Changed" => version' # version
              /\ outcome' = "Unchanged" => version' = version
  BY <1>1, <1>10 DEF ReviveKind, Revive, Fail, Changes
<1>11. ASSUME NEW t \in Types, NEW s \in Spellings, TypedKindNamed(t, s)
       PROVE  outcome' = "Ok"
  BY <1>3, <1>11 DEF TypedKindNamed, Fail, Errors
<1>12. ASSUME NEW t \in StaticTypes, NEW f, BindStaticType(t, f)
       PROVE  outcome' = "Ok"
  BY <1>3, <1>12 DEF BindStaticType, StaticVerdict, Fail, Errors
<1>13. ASSUME NEW k \in Kinds, UnregisterKind(k)
       PROVE  /\ outcome' = "Changed" => version' # version
              /\ outcome' = "Unchanged" => version' = version
  BY <1>1, <1>13, VerdictTyped DEF UnregisterKind, Unregister, Fail, Changes
<1>14. ASSUME NEW n \in Namespaces, UnregisterNamespace(n)
       PROVE  /\ outcome' = "Changed" => version' # version
              /\ outcome' = "Unchanged" => version' = version
  <2>1. NamespaceFault[n] \in Errors \cup {"Ok"} /\ \A m : PinFault(m) \in Errors \cup {"Ok"}
    BY NamespaceAssumption, VerdictTyped DEF Errors
  <2>2. \A places : UnregisterPlaces(places) => Bump(1)
    BY DEF UnregisterPlaces
  <2> QED BY <1>1, <1>14, <2>1, <2>2 DEF UnregisterNamespace, Fail, Changes
<1>15. ASSUME NEW v, NEW e, EditEdges(v, e), FirstFault(v) \in Errors \cup {"Ok"}
       PROVE  /\ outcome' = "Changed" => version' # version
              /\ outcome' = "Unchanged" => version' = version
  BY <1>1, <1>2, <1>15 DEF EditEdges, Fail, Changes
<1>16. ASSUME NEW g \in EdgeGroups, AddEdges(g) \/ RemoveEdges(g)
       PROVE  /\ outcome' = "Changed" => version' # version
              /\ outcome' = "Unchanged" => version' = version
  <2> DEFINE n == 3 * Len(g)
             Verdicts == Errors \cup {"Ok"}
             active == [i \in DOMAIN Endpoints(g) |-> ActiveFault(Endpoints(g)[i])]
             known == [i \in DOMAIN Endpoints(g) |-> KnownFault(Endpoints(g)[i])]
  <2>1. n \in Nat /\ active \in [1..n -> Verdicts] /\ known \in [1..n -> Verdicts] /\ "Ok" \in Verdicts
    BY EndpointsShape, VerdictTyped
  <2>2. EditEdges(active, edges \cup Range(g)) \/ EditEdges(known, edges \ Range(g))
    BY <1>16 DEF AddEdges, RemoveEdges
  <2>3. FirstFault(active) \in Verdicts /\ FirstFault(known) \in Verdicts
    <3> HIDE DEF n, active, known, Verdicts
    <3> QED BY <2>1, FirstFaultTyped
  <2> HIDE DEF n, active, known
  <2> QED BY <1>15, <2>2, <2>3
<1>17. CASE UnnamedTypedKind
  BY <1>17 DEF UnnamedTypedKind, Fail, Errors
<1> QED
  BY <1>5, <1>6, <1>7, <1>8, <1>9, <1>10, <1>11, <1>12, <1>13, <1>14, <1>16, <1>17
  DEF Next, RegisterSemanticType, BindStaticComponent

(* The bool of apply_command is true exactly if the registry changed. *)
LEMMA ChangeIsReported ==
  ASSUME Safe, Next, outcome' \notin Errors
  PROVE  AppliedChange <=> state' # state
<1>1. outcome' \in {"Ok", "Changed", "Unchanged"}
  BY OutcomeTyped DEF Safe, IInv, Outcomes
<1>2. state' # state <=> version' # version
  BY VersionStep, StateStep
<1> QED BY <1>1, <1>2, OutcomeTellsVersion DEF AppliedChange

-----------------------------------------------------------------------------
(* Sequences of commands put behind each other                             *)

LEMMA ConcatPlaces ==
  ASSUME NEW s \in Seq(Items), NEW t \in Seq(Items)
  PROVE  /\ s \o t \in Seq(Items)
         /\ IdsIn(s \o t) = IdsIn(s) \cup IdsIn(t)
         /\ Distinct(s) /\ Distinct(t) /\ IdsIn(s) \cap IdsIn(t) = {} => Distinct(s \o t)
<1> DEFINE g == s \o t
<1>1. /\ g \in Seq(Items) /\ DOMAIN s = 1..Len(s) /\ DOMAIN t = 1..Len(t)
      /\ DOMAIN g = 1..(Len(s) + Len(t)) /\ Len(s) \in Nat /\ Len(t) \in Nat
      /\ \A p \in DOMAIN s : p \in DOMAIN g /\ g[p] = s[p]
      /\ \A j \in DOMAIN t : Len(s) + j \in DOMAIN g /\ g[Len(s) + j] = t[j]
      /\ \A p \in DOMAIN g : \/ p \in DOMAIN s /\ g[p] = s[p]
                             \/ p - Len(s) \in DOMAIN t /\ g[p] = t[p - Len(s)]
  <2> HIDE DEF Items
  <2> QED OBVIOUS
<1> HIDE DEF g
<1>2. IdsIn(g) = IdsIn(s) \cup IdsIn(t)
  <2>1. IdsIn(g) \subseteq IdsIn(s) \cup IdsIn(t)
    BY <1>1 DEF IdsIn
  <2>2. IdsIn(s) \subseteq IdsIn(g) /\ IdsIn(t) \subseteq IdsIn(g)
    BY <1>1 DEF IdsIn
  <2> QED BY <2>1, <2>2
<1>3. ASSUME Distinct(s), Distinct(t), IdsIn(s) \cap IdsIn(t) = {},
             NEW p \in DOMAIN g, NEW q \in DOMAIN g, g[p].id = g[q].id
      PROVE  p = q
  <2>1. CASE p \in DOMAIN s /\ g[p] = s[p] /\ q \in DOMAIN s /\ g[q] = s[q]
    BY <1>3, <2>1 DEF Distinct
  <2>2. CASE /\ p - Len(s) \in DOMAIN t /\ g[p] = t[p - Len(s)]
             /\ q - Len(s) \in DOMAIN t /\ g[q] = t[q - Len(s)]
    <3>1. p - Len(s) = q - Len(s)
      BY <1>3, <2>2 DEF Distinct
    <3> QED BY <1>1, <3>1
  <2>3. CASE p \in DOMAIN s /\ g[p] = s[p] /\ q - Len(s) \in DOMAIN t /\ g[q] = t[q - Len(s)]
    BY <1>3, <2>3 DEF IdsIn
  <2>4. CASE q \in DOMAIN s /\ g[q] = s[q] /\ p - Len(s) \in DOMAIN t /\ g[p] = t[p - Len(s)]
    BY <1>3, <2>4 DEF IdsIn
  <2> QED BY <1>1, <2>1, <2>2, <2>3, <2>4
<1> QED BY <1>1, <1>2, <1>3 DEF Distinct, g

LEMMA FlatPlaces ==
  ASSUME NEW ss \in Seq(Seq(Items))
  PROVE  /\ FlattenSeq(ss) \in Seq(Items)
         /\ IdsIn(FlattenSeq(ss)) = In(ss)
         /\ Apart(ss) => Distinct(FlattenSeq(ss))
<1> DEFINE f == FlattenSeq(ss)
<1>1. f \in Seq(Items) /\ Flattens(f, ss, Len(ss)) /\ DOMAIN ss = 1..Len(ss) /\ DOMAIN f = 1..Len(f)
      /\ \A i \in DOMAIN ss : DOMAIN ss[i] = 1..Len(ss[i])
  BY FlattenFlattens
<1> HIDE DEF f
<1>2. IdsIn(f) = In(ss)
  <2>1. IdsIn(f) \subseteq In(ss)
    <3> SUFFICES ASSUME NEW p \in DOMAIN f PROVE f[p].id \in In(ss)
      BY DEF IdsIn
    <3>1. PICK i \in 1..Len(ss) : \E j \in DOMAIN ss[i] : f[p] = ss[i][j]
      BY <1>1 DEF Flattens
    <3>2. f[p].id \in IdsIn(ss[i]) /\ i \in DOMAIN ss
      BY <1>1, <3>1 DEF IdsIn
    <3> QED BY <3>2 DEF In
  <2>2. In(ss) \subseteq IdsIn(f)
    <3>1. ASSUME NEW i \in 1..Len(ss), NEW j \in DOMAIN ss[i] PROVE ss[i][j].id \in IdsIn(f)
      <4>1. PICK p \in DOMAIN f : f[p] = ss[i][j]
        BY <1>1, <3>1 DEF Flattens
      <4> QED BY <4>1 DEF IdsIn
    <3>2. \A i \in 1..Len(ss) : IdsIn(ss[i]) \subseteq IdsIn(f)
      BY <3>1 DEF IdsIn
    <3> QED BY <1>1, <3>2 DEF In
  <2> QED BY <2>1, <2>2
<1>3. ASSUME Apart(ss), NEW p \in DOMAIN f, NEW q \in DOMAIN f, p < q, f[p].id = f[q].id
      PROVE  FALSE
  <2>0. \A x, y \in DOMAIN f : x < y =>
          \E i, h \in 1..Len(ss) : \E j \in DOMAIN ss[i] : \E l \in DOMAIN ss[h] :
            f[x] = ss[i][j] /\ f[y] = ss[h][l] /\ (i < h \/ (i = h /\ j < l))
    BY <1>1 DEF Flattens
  <2>1. PICK i \in 1..Len(ss), h \in 1..Len(ss) : \E j \in DOMAIN ss[i] : \E l \in DOMAIN ss[h] :
          f[p] = ss[i][j] /\ f[q] = ss[h][l] /\ (i < h \/ (i = h /\ j < l))
    BY <1>3, <2>0
  <2>2. PICK j \in DOMAIN ss[i], l \in DOMAIN ss[h] :
          f[p] = ss[i][j] /\ f[q] = ss[h][l] /\ (i < h \/ (i = h /\ j < l))
    BY <2>1
  <2>3. i = h /\ j = l
    <3>1. i \in DOMAIN ss /\ h \in DOMAIN ss /\ ss[i][j].id = ss[h][l].id
      BY <1>1, <1>3, <2>2
    <3> QED BY <1>3, <3>1 DEF Apart
  <2>4. i \in Int /\ j \in Int
    BY <1>1
  <2> QED BY <2>2, <2>3, <2>4
<1>4. Apart(ss) => Distinct(f)
  <2> SUFFICES ASSUME Apart(ss), NEW p \in DOMAIN f, NEW q \in DOMAIN f, f[p].id = f[q].id
               PROVE  p = q
    BY DEF Distinct
  <2>1. p \in Int /\ q \in Int
    BY <1>1
  <2> QED BY <1>3, <2>1
<1> QED BY <1>1, <1>2, <1>4 DEF f

(* The cells of a phase hold what its systems buffered. *)
LEMMA CellsPlaces ==
  ASSUME Typed, NEW p
  PROVE  /\ \A x : x \in IdsIn(Flushed(p)) <=>
                     \E s \in Range(Systems) : SystemPhase[s] = p /\ x \in IdsIn(buffers[s])
         /\ Apart(buffers) => Distinct(Flushed(p))
<1>1. Cells(p) \in Seq(Seq(Items)) /\ Flushed(p) = FlattenSeq(Cells(p)) /\ DOMAIN Cells(p) = DOMAIN Systems
  BY FlushedFlattens DEF Flushed, Cells
<1>2. IdsIn(Flushed(p)) = In(Cells(p)) /\ (Apart(Cells(p)) => Distinct(Flushed(p)))
  BY <1>1, FlatPlaces
<1>3. \A i \in DOMAIN Systems :
        /\ SystemPhase[Systems[i]] = p => Cells(p)[i] = buffers[Systems[i]]
        /\ SystemPhase[Systems[i]] # p => Cells(p)[i] = <<>>
  BY DEF Cells
<1>4. ASSUME NEW x PROVE x \in In(Cells(p)) <=>
        \E s \in Range(Systems) : SystemPhase[s] = p /\ x \in IdsIn(buffers[s])
  <2>1. ASSUME x \in In(Cells(p))
        PROVE  \E s \in Range(Systems) : SystemPhase[s] = p /\ x \in IdsIn(buffers[s])
    <3>1. PICK i \in DOMAIN Systems : x \in IdsIn(Cells(p)[i])
      BY <1>1, <2>1 DEF In
    <3>2. Cells(p)[i] # <<>>
      BY <3>1 DEF IdsIn
    <3> QED BY <1>3, <3>1, <3>2 DEF Range
  <2>2. ASSUME NEW s \in Range(Systems), SystemPhase[s] = p, x \in IdsIn(buffers[s])
        PROVE  x \in In(Cells(p))
    <3>1. PICK i \in DOMAIN Systems : s = Systems[i]
      BY DEF Range
    <3> QED BY <1>1, <1>3, <2>2, <3>1 DEF In
  <2> QED BY <2>1, <2>2
<1>5. Apart(buffers) => Apart(Cells(p))
  <2> SUFFICES ASSUME Apart(buffers), NEW a \in DOMAIN Systems, NEW b \in DOMAIN Systems,
                      NEW i \in DOMAIN Cells(p)[a], NEW j \in DOMAIN Cells(p)[b],
                      Cells(p)[a][i].id = Cells(p)[b][j].id
               PROVE  a = b /\ i = j
    BY <1>1 DEF Apart
  <2>1. Cells(p)[a] = buffers[Systems[a]] /\ Cells(p)[b] = buffers[Systems[b]]
    BY <1>3
  <2>2. Systems[a] \in DOMAIN buffers /\ Systems[b] \in DOMAIN buffers
    BY DEF Typed, Range
  <2>3. Systems[a] = Systems[b] /\ i = j
    BY <2>1, <2>2 DEF Apart
  <2> QED BY <2>3, PipelineAssumption DEF IsInjective
<1> QED BY <1>2, <1>4, <1>5

(* Flushing moves commands to the queue and loses or doubles none. *)
LEMMA FlushPlaces ==
  ASSUME Typed, Apart(buffers), Distinct(queue), In(buffers) \cap IdsIn(queue) = {},
         NEW ps \in SUBSET Phases, Flush(ps)
  PROVE  /\ Apart(buffers') /\ Distinct(queue')
         /\ In(buffers') \cup IdsIn(queue') = In(buffers) \cup IdsIn(queue)
         /\ In(buffers') \cap IdsIn(queue') = {}
<1> DEFINE A == IF "update" \in ps THEN Flushed("update") ELSE <<>>
           B == IF "last" \in ps THEN Flushed("last") ELSE <<>>
           Of(s, x) == s \in Range(Systems) /\ x \in IdsIn(buffers[s])
<1>1. A \in Seq(Items) /\ B \in Seq(Items) /\ queue \in Seq(Items) /\ queue' = (queue \o A) \o B
  BY FlushedFlattens DEF Flush, Typed
<1>2. Distinct(A) /\ Distinct(B)
  BY CellsPlaces DEF Distinct
<1>3. \A x : /\ x \in IdsIn(A) <=> "update" \in ps /\ \E s \in Range(Systems) : SystemPhase[s] = "update" /\ x \in IdsIn(buffers[s])
             /\ x \in IdsIn(B) <=> "last" \in ps /\ \E s \in Range(Systems) : SystemPhase[s] = "last" /\ x \in IdsIn(buffers[s])
  <2>1. IdsIn(<<>>) = {}
    BY DEF IdsIn
  <2>2. /\ IdsIn(A) = IF "update" \in ps THEN IdsIn(Flushed("update")) ELSE {}
        /\ IdsIn(B) = IF "last" \in ps THEN IdsIn(Flushed("last")) ELSE {}
    BY <2>1
  <2> HIDE DEF A, B
  <2> QED BY <2>2, CellsPlaces
<1>4. DOMAIN buffers = Range(Systems) /\ \A s \in Range(Systems) : SystemPhase[s] \in {"update", "last"}
  BY PipelineAssumption DEF Typed
<1>5. \A s, u \in Range(Systems) : \A x : x \in IdsIn(buffers[s]) /\ x \in IdsIn(buffers[u]) => s = u
  BY <1>4 DEF Apart, IdsIn
<1>6. \A x : x \in In(buffers) <=> \E s \in Range(Systems) : x \in IdsIn(buffers[s])
  BY <1>4 DEF In
<1> HIDE DEF A, B
<1>7. IdsIn(A) \cap IdsIn(B) = {} /\ IdsIn(A) \subseteq In(buffers) /\ IdsIn(B) \subseteq In(buffers)
  BY <1>3, <1>5, <1>6
<1>8. /\ queue \o A \in Seq(Items) /\ IdsIn(queue \o A) = IdsIn(queue) \cup IdsIn(A) /\ Distinct(queue \o A)
  BY <1>1, <1>2, <1>7, ConcatPlaces
<1>9. IdsIn(queue') = IdsIn(queue) \cup IdsIn(A) \cup IdsIn(B) /\ Distinct(queue')
  <2>1. IdsIn(queue \o A) \cap IdsIn(B) = {}
    BY <1>7, <1>8
  <2> QED BY <1>1, <1>2, <1>8, <2>1, ConcatPlaces
<1>10. /\ DOMAIN buffers' = Range(Systems)
       /\ \A s \in Range(Systems) : buffers'[s] = IF SystemPhase[s] \in ps THEN <<>> ELSE buffers[s]
  BY FlushTyped
<1>11. Apart(buffers')
  BY <1>4, <1>10 DEF Apart
<1>12. \A x : x \in In(buffers') <=> \E s \in Range(Systems) : SystemPhase[s] \notin ps /\ x \in IdsIn(buffers[s])
  <2>1. \A s \in Range(Systems) : SystemPhase[s] \in ps => IdsIn(buffers'[s]) = {}
    BY <1>10 DEF IdsIn
  <2> QED BY <1>10, <2>1 DEF In
<1>13. \A x : x \in IdsIn(A) \cup IdsIn(B) <=> \E s \in Range(Systems) : SystemPhase[s] \in ps /\ x \in IdsIn(buffers[s])
  BY <1>3, <1>4
<1>14. In(buffers) = In(buffers') \cup IdsIn(A) \cup IdsIn(B)
  BY <1>6, <1>12, <1>13
<1>15. In(buffers') \cap (IdsIn(A) \cup IdsIn(B)) = {}
  BY <1>5, <1>12, <1>13
<1> QED BY <1>9, <1>11, <1>14, <1>15

(* Apart, said of whole sequences. *)
LEMMA ApartMeans ==
  ASSUME NEW f
  PROVE  Apart(f) <=> /\ \A a \in DOMAIN f : Distinct(f[a])
                      /\ \A a, b \in DOMAIN f : a # b => IdsIn(f[a]) \cap IdsIn(f[b]) = {}
<1>1. ASSUME Apart(f)
      PROVE  /\ \A a \in DOMAIN f : Distinct(f[a])
             /\ \A a, b \in DOMAIN f : a # b => IdsIn(f[a]) \cap IdsIn(f[b]) = {}
  BY <1>1 DEF Apart, Distinct, IdsIn
<1>2. ASSUME \A a \in DOMAIN f : Distinct(f[a]),
             \A a, b \in DOMAIN f : a # b => IdsIn(f[a]) \cap IdsIn(f[b]) = {}
      PROVE  Apart(f)
  <2> SUFFICES ASSUME NEW a \in DOMAIN f, NEW b \in DOMAIN f, NEW i \in DOMAIN f[a], NEW j \in DOMAIN f[b],
                      f[a][i].id = f[b][j].id
               PROVE  a = b /\ i = j
    BY DEF Apart
  <2>1. f[a][i].id \in IdsIn(f[a]) /\ f[b][j].id \in IdsIn(f[b])
    BY DEF IdsIn
  <2>2. a = b
    BY <1>2, <2>1
  <2> QED BY <1>2, <2>2 DEF Distinct
<1> QED BY <1>1, <1>2

(* New numbers are new. *)
LEMMA NumberedPlaces ==
  ASSUME Typed, NEW cs \in Seq(Commands \cup DirectCalls)
  PROVE  /\ IdsIn(Numbered(cs)) = (Len(issued) + 1)..(Len(issued) + Len(cs))
         /\ Distinct(Numbered(cs))
         /\ IdsIn(Numbered(cs)) \cap (1..Len(issued)) = {}
         /\ (1..Len(issued)) \cup IdsIn(Numbered(cs)) = 1..(Len(issued) + Len(cs))
<1>1. Len(issued) \in Nat /\ Len(cs) \in Nat
  BY DEF Typed
<1>2. DOMAIN Numbered(cs) = 1..Len(cs) /\ \A i \in 1..Len(cs) : Numbered(cs)[i].id = Len(issued) + i
  BY NumberedTyped
<1>3. Distinct(Numbered(cs))
  BY <1>1, <1>2 DEF Distinct
<1>4. IdsIn(Numbered(cs)) = (Len(issued) + 1)..(Len(issued) + Len(cs))
  <2>1. IdsIn(Numbered(cs)) \subseteq (Len(issued) + 1)..(Len(issued) + Len(cs))
    BY <1>1, <1>2 DEF IdsIn
  <2>2. ASSUME NEW x \in (Len(issued) + 1)..(Len(issued) + Len(cs)) PROVE x \in IdsIn(Numbered(cs))
    <3>1. x - Len(issued) \in 1..Len(cs) /\ Len(issued) + (x - Len(issued)) = x
      BY <1>1
    <3> QED BY <1>2, <3>1 DEF IdsIn
  <2> QED BY <2>1, <2>2
<1> QED BY <1>1, <1>3, <1>4

(* One more take. *)
LEMMA TakePlaces ==
  ASSUME Typed, TakenOnce, NEW items \in Seq(Items), Distinct(items), IdsIn(items) \cap TakenIds = {},
         takes' = Append(takes, Ids(items)) \/ (items = <<>> /\ takes' = takes)
  PROVE  TakenOnce' /\ TakenIds' = TakenIds \cup IdsIn(items)
<1>1. CASE items = <<>> /\ takes' = takes
  <2>1. IdsIn(items) = {}
    BY <1>1 DEF IdsIn
  <2> QED BY <1>1, <2>1 DEF TakenOnce, TakenIds
<1>2. CASE takes' = Append(takes, Ids(items))
  <2> DEFINE last == Len(takes) + 1
  <2>1. /\ DOMAIN takes' = DOMAIN takes \cup {last} /\ last \notin DOMAIN takes
        /\ takes'[last] = Ids(items) /\ \A n \in DOMAIN takes : takes'[n] = takes[n]
    BY <1>2 DEF Typed
  <2>2. DOMAIN Ids(items) = DOMAIN items /\ \A i \in DOMAIN items : Ids(items)[i] = items[i].id
    BY IdsTyped
  <2> HIDE DEF last
  <2>3. Range(Ids(items)) = IdsIn(items)
    BY <2>2 DEF Range, IdsIn
  <2>4. TakenIds' = TakenIds \cup IdsIn(items)
    <3>1. \A n \in DOMAIN takes : Range(takes'[n]) = Range(takes[n])
      BY <2>1
    <3> QED BY <2>1, <2>3, <3>1 DEF TakenIds
  <2>5. TakenOnce'
    <3> SUFFICES ASSUME NEW n \in DOMAIN takes', NEW m \in DOMAIN takes', NEW i \in DOMAIN takes'[n],
                        NEW j \in DOMAIN takes'[m], takes'[n][i] = takes'[m][j]
                 PROVE  n = m /\ i = j
      BY DEF TakenOnce
    <3>1. \A k \in DOMAIN takes : \A l \in DOMAIN takes[k] : takes[k][l] \in TakenIds
      BY DEF TakenIds, Range
    <3>2. \A l \in DOMAIN items : items[l].id \notin TakenIds
      BY DEF IdsIn
    <3>3. CASE n \in DOMAIN takes /\ m \in DOMAIN takes
      BY <2>1, <3>3 DEF TakenOnce
    <3>4. CASE n = last /\ m = last
      BY <2>1, <2>2, <3>4 DEF Distinct
    <3>5. CASE n \in DOMAIN takes /\ m = last
      BY <2>1, <2>2, <3>1, <3>2, <3>5
    <3>6. CASE n = last /\ m \in DOMAIN takes
      BY <2>1, <2>2, <3>1, <3>2, <3>6
    <3> QED BY <2>1, <3>3, <3>4, <3>5, <3>6
  <2> QED BY <2>4, <2>5
<1> QED BY <1>1, <1>2

(* Every command stays in one place: when commands are issued, *)
LEMMA ProducePlaced ==
  ASSUME Typed, Placed, Produce
  PROVE  Placed'
<1> DEFINE old == 1..Len(issued)
<1>0. /\ In(buffers) \subseteq old /\ IdsIn(queue) \subseteq old /\ In(batches) \subseteq old
      /\ TakenIds \subseteq old /\ Len(issued) \in Nat
  BY DEF Placed, Typed
<1>1. ASSUME NEW s \in Range(Systems), NEW c \in Stageable, Stage(s, c)
      PROVE  Placed'
  <2> DEFINE new == Numbered(<<c>>)
  <2>1. <<c>> \in Seq(Commands \cup DirectCalls) /\ Len(<<c>>) = 1
    BY PipelineAssumption
  <2>2. /\ new \in Seq(Items) /\ Distinct(new) /\ IdsIn(new) \cap old = {}
        /\ old \cup IdsIn(new) = 1..(Len(issued) + 1)
    BY <2>1, NumberedTyped, NumberedPlaces
  <2>3. Len(issued') = Len(issued) + 1
    BY <1>1, IssueTyped DEF Stage, Free
  <2>4. DOMAIN buffers = Range(Systems) /\ \A u \in Range(Systems) : buffers[u] \in Seq(Items)
    BY DEF Typed
  <2> HIDE DEF new, old
  <2>5. /\ DOMAIN buffers' = Range(Systems) /\ buffers'[s] = buffers[s] \o new
        /\ \A u \in Range(Systems) \ {s} : buffers'[u] = buffers[u]
    BY <1>1, <2>4 DEF Stage, new
  <2>6. \A u \in Range(Systems) : IdsIn(buffers[u]) \subseteq In(buffers)
    BY <2>4 DEF In
  <2>7. IdsIn(buffers[s]) \cap IdsIn(new) = {} /\ Distinct(buffers[s])
    BY <1>0, <2>2, <2>4, <2>6, ApartMeans DEF Placed
  <2>8. IdsIn(buffers'[s]) = IdsIn(buffers[s]) \cup IdsIn(new) /\ Distinct(buffers'[s])
    BY <2>2, <2>4, <2>5, <2>7, ConcatPlaces
  <2>9. In(buffers') = In(buffers) \cup IdsIn(new)
    <3>1. \A u \in Range(Systems) : IdsIn(buffers'[u]) \subseteq In(buffers) \cup IdsIn(new)
      BY <2>5, <2>6, <2>8
    <3>2. In(buffers') \subseteq In(buffers) \cup IdsIn(new)
      BY <2>5, <3>1 DEF In
    <3>3. \A u \in Range(Systems) : IdsIn(buffers[u]) \subseteq IdsIn(buffers'[u])
      BY <2>5, <2>8
    <3>4. In(buffers) \subseteq In(buffers')
      BY <2>4, <2>5, <3>3 DEF In
    <3>5. IdsIn(new) \subseteq In(buffers')
      BY <2>5, <2>8 DEF In
    <3> QED BY <3>2, <3>4, <3>5
  <2>10. Apart(buffers')
    <3>1. \A u \in Range(Systems) : Distinct(buffers'[u])
      BY <2>4, <2>5, <2>8, ApartMeans DEF Placed
    <3>2. \A u, w \in Range(Systems) : u # w => IdsIn(buffers[u]) \cap IdsIn(buffers[w]) = {}
      BY <2>4, ApartMeans DEF Placed
    <3>3. \A u, w \in Range(Systems) : u # w => IdsIn(buffers'[u]) \cap IdsIn(buffers'[w]) = {}
      BY <1>0, <2>2, <2>5, <2>6, <2>8, <3>2
    <3> QED BY <2>5, <3>1, <3>3, ApartMeans
  <2>11. UNCHANGED <<queue, batches, takes>>
    BY <1>1 DEF Stage
  <2> QED BY <1>0, <2>2, <2>3, <2>9, <2>10, <2>11 DEF Placed, TakenOnce, TakenIds, old
<1>2. ASSUME NEW b \in BatchGroups, Enqueue(b)
      PROVE  Placed'
  <2> DEFINE new == Numbered(b)
  <2>1. b \in Seq(Commands \cup DirectCalls) /\ Len(b) \in Nat
    <3>1. b \in Seq(Commands)
      BY PipelineAssumption
    <3> QED BY <3>1
  <2>2. /\ new \in Seq(Items) /\ Distinct(new) /\ IdsIn(new) \cap old = {}
        /\ old \cup IdsIn(new) = 1..(Len(issued) + Len(b))
    BY <2>1, NumberedTyped, NumberedPlaces
  <2>3. Len(issued') = Len(issued) + Len(b)
    BY <1>2, <2>1, IssueTyped DEF Enqueue, Free
  <2> DEFINE last == Len(batches) + 1
  <2> HIDE DEF new, old
  <2>4. /\ DOMAIN batches' = DOMAIN batches \cup {last} /\ last \notin DOMAIN batches
        /\ batches'[last] = new /\ \A n \in DOMAIN batches : batches'[n] = batches[n]
    <3>1. batches' = Append(batches, new)
      BY <1>2 DEF Enqueue, new
    <3> QED BY <3>1 DEF Typed
  <2> HIDE DEF last
  <2>5. \A n \in DOMAIN batches : IdsIn(batches[n]) \subseteq In(batches)
    BY DEF In
  <2>6. In(batches') = In(batches) \cup IdsIn(new)
    BY <2>4 DEF In
  <2>7. Apart(batches')
    <3>1. \A n \in DOMAIN batches' : Distinct(batches'[n])
      BY <2>2, <2>4, ApartMeans DEF Placed
    <3>2. \A n, m \in DOMAIN batches : n # m => IdsIn(batches[n]) \cap IdsIn(batches[m]) = {}
      BY ApartMeans DEF Placed
    <3>3. \A n, m \in DOMAIN batches' : n # m => IdsIn(batches'[n]) \cap IdsIn(batches'[m]) = {}
      BY <1>0, <2>2, <2>4, <2>5, <3>2
    <3> QED BY <3>1, <3>3, ApartMeans
  <2>8. UNCHANGED <<buffers, queue, takes>>
    BY <1>2 DEF Enqueue
  <2> QED BY <1>0, <2>2, <2>3, <2>6, <2>7, <2>8 DEF Placed, TakenOnce, TakenIds, old
<1>3. ASSUME NEW cs \in EditChains, Edit(cs)
      PROVE  Placed'
  <2> DEFINE new == Numbered(cs)
  <2>1. cs \in Seq(Commands \cup DirectCalls) /\ Len(cs) \in Nat
    <3>1. cs \in Seq(Commands \cup DirectCalls)
      BY PipelineAssumption
    <3> QED BY <3>1
  <2>2. /\ new \in Seq(Items) /\ Distinct(new) /\ IdsIn(new) \cap old = {}
        /\ old \cup IdsIn(new) = 1..(Len(issued) + Len(cs))
    BY <2>1, NumberedTyped, NumberedPlaces
  <2>3. Len(issued') = Len(issued) + Len(cs)
    BY <1>3, <2>1, IssueTyped DEF Edit, Free
  <2> HIDE DEF new, old
  <2>4. TakenOnce' /\ TakenIds' = TakenIds \cup IdsIn(new)
    <3>1. takes' = Append(takes, Ids(new)) /\ IdsIn(new) \cap TakenIds = {}
      BY <1>0, <1>3, <2>2 DEF Edit, new
    <3> QED BY <2>2, <3>1, TakePlaces DEF Placed
  <2>5. UNCHANGED <<buffers, queue, batches>>
    BY <1>3 DEF Edit, waitingVars
  <2> QED BY <1>0, <2>2, <2>3, <2>4, <2>5 DEF Placed, old
<1> QED BY <1>1, <1>2, <1>3 DEF Produce

(* ... when they are taken up or flushed, and when nothing is moved. *)
LEMMA RunPlaced ==
  ASSUME Typed, HandsClean, Placed, Run \/ UNCHANGED pipelineVars
  PROVE  Placed'
<1>1. CASE PopBatch
  <2> DEFINE first == Head(batches)
  <2>1. /\ batches # <<>> /\ batches' = Tail(batches) /\ Take(first) /\ batches \in Seq(Seq(Items))
        /\ UNCHANGED <<buffers, queue, issued>>
    BY <1>1 DEF PopBatch, MoreBatches, Typed
  <2>2. /\ first \in Seq(Items) /\ first = batches[1] /\ 1 \in DOMAIN batches
        /\ DOMAIN batches' = 1..(Len(batches) - 1) /\ DOMAIN batches = 1..Len(batches)
        /\ Len(batches) \in Nat \ {0}
        /\ \A n \in 1..(Len(batches) - 1) : batches'[n] = batches[n + 1]
    <3> HIDE DEF Items
    <3> QED BY <2>1
  <2> HIDE DEF first
  <2>3. /\ \A n \in DOMAIN batches : Distinct(batches[n])
        /\ \A n, m \in DOMAIN batches : n # m => IdsIn(batches[n]) \cap IdsIn(batches[m]) = {}
    BY ApartMeans DEF Placed
  <2>4. \A n \in DOMAIN batches' : n + 1 \in DOMAIN batches /\ n + 1 # 1 /\ batches'[n] = batches[n + 1]
    BY <2>2
  <2>5. Apart(batches')
    <3>1. \A n \in DOMAIN batches' : Distinct(batches'[n])
      BY <2>3, <2>4
    <3>2. \A n, m \in DOMAIN batches' : n # m => n + 1 # m + 1
      BY <2>2
    <3>3. \A n, m \in DOMAIN batches' : n # m => IdsIn(batches'[n]) \cap IdsIn(batches'[m]) = {}
      BY <2>3, <2>4, <3>2
    <3> QED BY <3>1, <3>3, ApartMeans
  <2>6. In(batches) = In(batches') \cup IdsIn(first)
    <3>1. \A n \in DOMAIN batches : n = 1 \/ (n - 1 \in DOMAIN batches' /\ batches'[n - 1] = batches[n])
      BY <2>2
    <3>2. In(batches) \subseteq In(batches') \cup IdsIn(first)
      BY <2>2, <3>1 DEF In
    <3>3. In(batches') \subseteq In(batches) /\ IdsIn(first) \subseteq In(batches)
      BY <2>2, <2>4 DEF In
    <3> QED BY <3>2, <3>3
  <2>7. In(batches') \cap IdsIn(first) = {}
    <3>1. \A n \in DOMAIN batches' : IdsIn(batches'[n]) \cap IdsIn(first) = {}
      BY <2>2, <2>3, <2>4
    <3> QED BY <3>1 DEF In
  <2>8. TakenOnce' /\ TakenIds' = TakenIds \cup IdsIn(first)
    <3>1. IdsIn(first) \cap TakenIds = {} /\ Distinct(first)
      BY <2>2, <2>3, <2>6 DEF Placed
    <3>2. takes' = Append(takes, Ids(first)) \/ (first = <<>> /\ takes' = takes)
      BY <2>1 DEF Take
    <3> QED BY <2>2, <3>1, <3>2, TakePlaces DEF Placed
  <2> QED BY <2>1, <2>5, <2>6, <2>7, <2>8 DEF Placed
<1>2. CASE ApplySemanticCommands
  <2>1. /\ Take(queue) /\ queue \in Seq(Items) /\ UNCHANGED <<buffers, batches, issued>>
        /\ queue' = SubSeq(queue, Len(queue) + 1, Len(queue))
    BY <1>2 DEF ApplySemanticCommands, Drained, Undrained, Typed
  <2>2. DOMAIN queue' = {}
    <3> HIDE DEF Items
    <3> QED BY <2>1
  <2>3. Distinct(queue') /\ IdsIn(queue') = {}
    BY <2>2 DEF Distinct, IdsIn
  <2>4. TakenOnce' /\ TakenIds' = TakenIds \cup IdsIn(queue)
    <3>1. takes' = Append(takes, Ids(queue)) \/ (queue = <<>> /\ takes' = takes)
      BY <2>1 DEF Take
    <3> QED BY <2>1, <3>1, TakePlaces DEF Placed
  <2> QED BY <2>1, <2>3, <2>4 DEF Placed
<1>3. CASE EndPhase \/ (Recover /\ Flush(Phases))
  <2>1. PICK ps \in SUBSET Phases : Flush(ps)
    <3>1. EndPhase => {phase} \in SUBSET Phases
      BY DEF EndPhase, Free, Typed
    <3> QED BY <1>3, <3>1 DEF EndPhase
  <2>2. /\ Apart(buffers') /\ Distinct(queue')
        /\ In(buffers') \cup IdsIn(queue') = In(buffers) \cup IdsIn(queue)
        /\ In(buffers') \cap IdsIn(queue') = {}
    BY <2>1, FlushPlaces DEF Placed
  <2>3. UNCHANGED <<batches, takes, issued>>
    BY <1>3 DEF EndPhase, Recover, ghostVars
  <2>4. /\ TakenIds' = TakenIds /\ TakenOnce' /\ Apart(batches') /\ In(batches') = In(batches)
        /\ Len(issued') = Len(issued)
    BY <2>3 DEF TakenIds, TakenOnce, Placed
  <2>5. 1..Len(issued) = In(buffers') \cup IdsIn(queue') \cup In(batches) \cup TakenIds
    BY <2>2 DEF Placed
  <2>6. /\ In(buffers') \cap In(batches) = {} /\ In(buffers') \cap TakenIds = {}
        /\ IdsIn(queue') \cap In(batches) = {} /\ IdsIn(queue') \cap TakenIds = {}
        /\ In(batches) \cap TakenIds = {}
    BY <2>2 DEF Placed
  <2> QED BY <2>2, <2>4, <2>5, <2>6 DEF Placed
<1>4. CASE UNCHANGED <<buffers, queue, batches, takes, issued>>
  BY <1>4 DEF Placed, TakenIds, TakenOnce
<1>5. ApplyCommand \/ EditCall \/ EditEnd \/ Playback \/ PlaybackEnd \/ ApplyEnd \/ UNCHANGED pipelineVars
      => UNCHANGED <<buffers, queue, batches, takes, issued>>
  BY DEF ApplyCommand, EditCall, EditEnd, Playback, PlaybackEnd, ApplyEnd, AfterPlayback,
         pipelineVars, waitingVars, ghostVars
<1>6. Recover => Flush(Phases) \/ UNCHANGED <<buffers, queue, batches, takes, issued>>
  BY DEF Recover, ghostVars
<1> QED BY <1>1, <1>2, <1>3, <1>4, <1>5, <1>6 DEF Run

-----------------------------------------------------------------------------
(* What becomes of commands that were taken up                             *)

(* What the hand holds, in terms of its take: t is the last take, the first
   off of it are behind, the next is the one at hand.                      *)
LEMMA AtHand ==
  ASSUME Typed, Placed, left # <<>>, Holding
  PROVE  LET t == Last(takes)
             off == Len(t) - Len(left)
         IN /\ t = takes[Len(takes)] /\ Len(takes) \in DOMAIN takes
            /\ off \in Nat /\ off + 1 \in DOMAIN t /\ DOMAIN t = 1..Len(t) /\ Len(t) \in Nat
            /\ t[off + 1] = Head(left).id
            /\ \A k \in DOMAIN left : off + k \in DOMAIN t /\ left[k].id = t[off + k]
            /\ \A n \in DOMAIN takes : \A j \in DOMAIN takes[n] : \A k \in DOMAIN left :
                 takes[n][j] = left[k].id => n = Len(takes) /\ j = off + k
<1> DEFINE t == Last(takes)
           off == Len(t) - Len(left)
<1>1. takes # <<>> /\ Len(left) <= Len(t) /\ \A k \in DOMAIN left : left[k].id = t[off + k]
  BY DEF Holding
<1>2. /\ t = takes[Len(takes)] /\ Len(takes) \in DOMAIN takes /\ t \in Seq(Nat \ {0})
  BY <1>1 DEF Typed, Last
<1> HIDE DEF t
<1>3. DOMAIN t = 1..Len(t) /\ Len(t) \in Nat
  BY <1>2
<1>4. /\ Len(left) \in Nat \ {0} /\ DOMAIN left = 1..Len(left) /\ Head(left) = left[1] /\ 1 \in DOMAIN left
  BY HandTyped
<1>5. off \in Nat /\ off + 1 \in DOMAIN t /\ \A k \in DOMAIN left : off + k \in DOMAIN t
  BY <1>1, <1>3, <1>4
<1>6. \A n \in DOMAIN takes : \A j \in DOMAIN takes[n] : \A k \in DOMAIN left :
        takes[n][j] = left[k].id => n = Len(takes) /\ j = off + k
  <2> TAKE n \in DOMAIN takes
  <2> TAKE j \in DOMAIN takes[n]
  <2> TAKE k \in DOMAIN left
  <2> HAVE takes[n][j] = left[k].id
  <2>1. off + k \in DOMAIN takes[Len(takes)] /\ Len(takes) \in DOMAIN takes
    BY <1>2, <1>5
  <2>2. takes[n][j] = takes[Len(takes)][off + k]
    BY <1>1, <1>2
  <2> HIDE DEF off
  <2> QED BY <2>1, <2>2 DEF Placed, TakenOnce
<1> QED BY <1>1, <1>2, <1>3, <1>4, <1>5, <1>6 DEF t

(* A call that is recorded: its command is applied, and if it failed what
   is left is dropped, at once or call by call.                            *)
LEMMA RecordedStep ==
  ASSUME Typed, Placed, AppliedOnce, left # <<>>, Holding, Settled, result = "Ok",
         outcome' \in Outcomes, Record(Head(left)), takes' = takes,
         result' = IF Failed(outcome') THEN outcome' ELSE "Ok",
         left' = Tail(left) \/ (Failed(outcome') /\ left' = <<>>)
  PROVE  /\ AppliedOnce' /\ (left' # <<>> => Holding') /\ Settled'
         /\ DoneIds' = DoneIds \cup {Head(left).id}
         /\ FailedIds' = FailedIds \cup (IF Failed(outcome') THEN {Head(left).id} ELSE {})
         /\ Head(left).id \in Range(Last(takes)) /\ Head(left).id \notin DoneIds
<1> DEFINE t == Last(takes)
           off == Len(t) - Len(left)
           id == Head(left).id
           L == Len(takes)
<1>1. /\ t = takes[L] /\ L \in DOMAIN takes
      /\ off \in Nat /\ off + 1 \in DOMAIN t /\ DOMAIN t = 1..Len(t) /\ Len(t) \in Nat
      /\ t[off + 1] = id
      /\ \A k \in DOMAIN left : off + k \in DOMAIN t /\ left[k].id = t[off + k]
      /\ \A n \in DOMAIN takes : \A j \in DOMAIN takes[n] : \A k \in DOMAIN left :
           takes[n][j] = left[k].id => n = L /\ j = off + k
  BY AtHand
<1>2. /\ DOMAIN left = 1..Len(left) /\ Len(left) \in Nat \ {0} /\ id = left[1].id
      /\ Len(Tail(left)) = Len(left) - 1 /\ DOMAIN Tail(left) = 1..(Len(left) - 1)
      /\ \A k \in 1..(Len(left) - 1) : Tail(left)[k] = left[k + 1]
  BY HandTyped
<1>3. /\ id \notin DoneIds /\ \A k \in DOMAIN left : left[k].id \notin DoneIds
      /\ \A i \in 1..off : t[i] \in DoneIds \ FailedIds
  BY <1>2 DEF Holding
<1>4. /\ DOMAIN done' = DOMAIN done \cup {Len(done) + 1} /\ Len(done) + 1 \notin DOMAIN done
      /\ done'[Len(done) + 1].id = id /\ done'[Len(done) + 1].verdict = outcome'
      /\ \A d \in DOMAIN done : done'[d] = done[d]
  BY RecordTyped DEF Typed
<1>5. /\ DoneIds' = DoneIds \cup {id} /\ FailedIds \subseteq DoneIds
      /\ FailedIds' = FailedIds \cup (IF Failed(outcome') THEN {id} ELSE {})
  BY <1>4 DEF DoneIds, FailedIds
<1>6. result' = "Ok" <=> ~Failed(outcome')
  BY DEF Failed, Errors
<1>7. t' = t /\ UNCHANGED L
  BY DEF Last
<1>8. \A n \in DOMAIN takes : \A j \in DOMAIN takes[n] : takes[n][j] = id => n = L /\ j = off + 1
  BY <1>1, <1>2
<1> HIDE DEF t, id, L
<1>9. id \in Range(t) /\ id \in TakenIds
  BY <1>1 DEF Range, TakenIds
<1>10. AppliedOnce'
  <2>1. \A d, e \in DOMAIN done' : done'[d].id = done'[e].id => d = e
    <3>1. \A d \in DOMAIN done : done[d].id \in DoneIds
      BY DEF DoneIds
    <3> QED BY <1>3, <1>4, <3>1 DEF AppliedOnce
  <2>2. DoneIds' \subseteq TakenIds'
    BY <1>5, <1>9 DEF AppliedOnce, TakenIds
  <2> QED BY <2>1, <2>2 DEF AppliedOnce
<1>11. ASSUME left' # <<>> PROVE Holding'
  <2>1. left' = Tail(left)
    BY <1>11
  <2> DEFINE o == Len(t) - Len(left')
  <2>2. o = off + 1 /\ Len(left') <= Len(t) /\ DOMAIN left' = 1..(Len(left) - 1)
    BY <1>1, <1>2, <2>1
  <2>3. ASSUME NEW k \in DOMAIN left'
        PROVE  left'[k].id = t[o + k] /\ left'[k].id \notin DoneIds'
    <3>0. k \in 1..(Len(left) - 1) /\ k \in Int /\ off \in Int
      BY <1>1, <1>2, <2>2
    <3>1. k + 1 \in DOMAIN left /\ left'[k] = left[k + 1] /\ o + k = off + (k + 1)
      <4>1. k + 1 \in DOMAIN left /\ left'[k] = left[k + 1]
        BY <1>2, <2>1, <3>0
      <4>2. o + k = off + (k + 1)
        <5> HIDE DEF o, off
        <5> QED BY <2>2, <3>0
      <4> QED BY <4>1, <4>2
    <3>2. left[k + 1].id # id
      BY <1>1, <1>2, <1>8, <3>1
    <3> QED BY <1>1, <1>3, <1>5, <3>1, <3>2
  <2>4. IF result' = "Ok" THEN \A i \in 1..o : t[i] \in DoneIds' \ FailedIds'
        ELSE \E i \in 1..o : t[i] \in FailedIds'
    <3>1. \A i \in 1..o : i \in 1..off \/ t[i] = id
      BY <1>1, <2>2
    <3>2. CASE Failed(outcome')
      <4>1. off + 1 \in 1..o /\ t[off + 1] \in FailedIds'
        BY <1>1, <1>5, <2>2, <3>2
      <4> QED BY <1>6, <3>2, <4>1
    <3>3. CASE ~Failed(outcome')
      BY <1>3, <1>5, <1>6, <3>1, <3>3
    <3> QED BY <3>2, <3>3
  <2>5. takes' # <<>>
    BY DEF Holding
  <2> QED BY <1>7, <2>2, <2>3, <2>4, <2>5 DEF Holding, t
<1>12. ASSUME NEW n \in DOMAIN takes, NEW j \in DOMAIN takes[n]
       PROVE  /\ takes[n][j] \in DoneIds' => \A i \in 1..(j - 1) : takes[n][i] \in DoneIds' \ FailedIds'
              /\ \/ takes[n][j] \in DoneIds' \cup IdsIn(left')
                 \/ \E i \in 1..(j - 1) : takes[n][i] \in FailedIds'
  <2>1. ASSUME takes[n][j] \in DoneIds', NEW i \in 1..(j - 1)
        PROVE  takes[n][i] \in DoneIds' \ FailedIds'
    <3>1. takes[n][i] \in DoneIds \ FailedIds
      <4>1. CASE takes[n][j] \in DoneIds
        BY <4>1 DEF Settled
      <4>2. CASE takes[n][j] = id
        <5>1. n = L /\ j = off + 1
          BY <1>8, <4>2
        <5> QED BY <1>1, <1>3, <5>1
      <4> QED BY <1>5, <2>1, <4>1, <4>2
    <3> QED BY <1>3, <1>5, <3>1
  <2>2. CASE takes[n][j] \in DoneIds
    BY <1>5, <2>1, <2>2
  <2>3. CASE \E i \in 1..(j - 1) : takes[n][i] \in FailedIds
    BY <1>5, <2>1, <2>3
  <2>4. CASE takes[n][j] \in IdsIn(left)
    <3>1. PICK k \in DOMAIN left : takes[n][j] = left[k].id
      BY <2>4 DEF IdsIn
    <3>2. CASE k = 1
      BY <1>2, <1>5, <2>1, <3>1, <3>2
    <3>3. CASE k # 1 /\ left' = Tail(left)
      <4>1. k - 1 \in DOMAIN left' /\ left'[k - 1] = left[k]
        BY <1>2, <3>3
      <4> QED BY <2>1, <3>1, <4>1 DEF IdsIn
    <3>4. CASE k # 1 /\ Failed(outcome')
      <4>1. n = L /\ j = off + k
        BY <1>1, <3>1
      <4>2. off + 1 \in 1..(j - 1) /\ takes[n][off + 1] = id
        BY <1>1, <1>2, <3>4, <4>1
      <4> QED BY <1>5, <2>1, <3>4, <4>2
    <3> QED BY <3>2, <3>3, <3>4
  <2> QED BY <2>2, <2>3, <2>4 DEF Settled
<1>13. Settled'
  BY <1>12 DEF Settled
<1> QED BY <1>3, <1>5, <1>9, <1>10, <1>11, <1>13 DEF id, t

(* A call that an earlier error of its chain suppresses. *)
LEMMA SkippedStep ==
  ASSUME Typed, Placed, left # <<>>, Holding, Settled, result # "Ok",
         left' = Tail(left), UNCHANGED <<result, done, takes>>
  PROVE  (left' # <<>> => Holding') /\ Settled'
<1> DEFINE t == Last(takes)
           off == Len(t) - Len(left)
           L == Len(takes)
<1>1. /\ t = takes[L] /\ L \in DOMAIN takes
      /\ off \in Nat /\ off + 1 \in DOMAIN t /\ DOMAIN t = 1..Len(t) /\ Len(t) \in Nat
      /\ \A k \in DOMAIN left : off + k \in DOMAIN t /\ left[k].id = t[off + k]
      /\ \A n \in DOMAIN takes : \A j \in DOMAIN takes[n] : \A k \in DOMAIN left :
           takes[n][j] = left[k].id => n = L /\ j = off + k
  BY AtHand
<1>2. /\ DOMAIN left = 1..Len(left) /\ Len(left) \in Nat \ {0}
      /\ Len(Tail(left)) = Len(left) - 1 /\ DOMAIN Tail(left) = 1..(Len(left) - 1)
      /\ \A k \in 1..(Len(left) - 1) : Tail(left)[k] = left[k + 1]
  BY HandTyped
<1>3. /\ \A k \in DOMAIN left : left[k].id \notin DoneIds
      /\ \E i \in 1..off : t[i] \in FailedIds
  BY DEF Holding
<1>4. DoneIds' = DoneIds /\ FailedIds' = FailedIds /\ t' = t
  BY DEF DoneIds, FailedIds, Last
<1> HIDE DEF t, L
<1>5. ASSUME left' # <<>> PROVE Holding'
  <2> DEFINE o == Len(t) - Len(left')
  <2>1. o = off + 1 /\ Len(left') <= Len(t) /\ DOMAIN left' = 1..(Len(left) - 1)
    BY <1>1, <1>2
  <2>2. ASSUME NEW k \in DOMAIN left'
        PROVE  left'[k].id = t[o + k] /\ left'[k].id \notin DoneIds
    <3>0. k \in 1..(Len(left) - 1) /\ k \in Int /\ off \in Int
      BY <1>1, <1>2, <2>1
    <3>1. k + 1 \in DOMAIN left /\ left'[k] = left[k + 1] /\ o + k = off + (k + 1)
      <4>1. k + 1 \in DOMAIN left /\ left'[k] = left[k + 1]
        BY <1>2, <3>0
      <4>2. o + k = off + (k + 1)
        <5> HIDE DEF o, off
        <5> QED BY <2>1, <3>0
      <4> QED BY <4>1, <4>2
    <3> QED BY <1>1, <1>3, <3>1
  <2>3. \E i \in 1..o : t[i] \in FailedIds
    BY <1>1, <1>3, <2>1
  <2>4. takes' # <<>>
    BY DEF Holding
  <2> QED BY <1>4, <2>1, <2>2, <2>3, <2>4 DEF Holding, t
<1>6. ASSUME NEW n \in DOMAIN takes, NEW j \in DOMAIN takes[n]
      PROVE  \/ takes[n][j] \in DoneIds \cup IdsIn(left')
             \/ \E i \in 1..(j - 1) : takes[n][i] \in FailedIds
  <2>1. CASE takes[n][j] \in IdsIn(left)
    <3>1. PICK k \in DOMAIN left : takes[n][j] = left[k].id
      BY <2>1 DEF IdsIn
    <3>2. CASE k = 1
      <4>1. n = L /\ j = off + 1
        BY <1>1, <1>2, <3>1, <3>2
      <4> QED BY <1>1, <1>3, <4>1
    <3>3. CASE k # 1
      <4>1. k - 1 \in DOMAIN left' /\ left'[k - 1] = left[k]
        BY <1>2, <3>3
      <4> QED BY <3>1, <4>1 DEF IdsIn
    <3> QED BY <3>2, <3>3
  <2> QED BY <2>1 DEF Settled
<1>7. Settled'
  BY <1>4, <1>6 DEF Settled
<1> QED BY <1>5, <1>7

LEMMA Appended ==
  ASSUME NEW S, NEW s \in Seq(S), NEW x \in S
  PROVE  LET L == Len(s) + 1
         IN /\ DOMAIN Append(s, x) = DOMAIN s \cup {L} /\ L \notin DOMAIN s
            /\ Append(s, x)[L] = x /\ \A n \in DOMAIN s : Append(s, x)[n] = s[n]
            /\ Len(Append(s, x)) = L /\ Append(s, x) # <<>>
OBVIOUS

(* Taking something up with empty hands. *)
LEMMA TakingStep ==
  ASSUME Typed, Placed, AppliedOnce, Settled, left = <<>>,
         NEW items \in Seq(Items), IdsIn(items) \cap TakenIds = {},
         takes' = Append(takes, Ids(items)) \/ (items = <<>> /\ takes' = takes),
         left' = items, result' = "Ok", done' = done
  PROVE  /\ AppliedOnce' /\ (left' # <<>> => Holding') /\ Settled'
         /\ FailedIds' = FailedIds /\ FailedIds \cap IdsIn(items) = {}
         /\ takes' = Append(takes, Ids(items)) => Range(Last(takes')) = IdsIn(items) /\ takes' # <<>>
<1>1. DoneIds' = DoneIds /\ FailedIds' = FailedIds /\ FailedIds \subseteq DoneIds /\ DoneIds \subseteq TakenIds
  BY DEF DoneIds, FailedIds, AppliedOnce
<1>2. IdsIn(left) = {}
  BY DEF IdsIn
<1>3. \A n \in DOMAIN takes : \A j \in DOMAIN takes[n] :
        /\ takes[n][j] \in DoneIds => \A i \in 1..(j - 1) : takes[n][i] \in DoneIds \ FailedIds
        /\ takes[n][j] \in DoneIds \/ \E i \in 1..(j - 1) : takes[n][i] \in FailedIds
  BY <1>2 DEF Settled
<1>4. CASE items = <<>> /\ takes' = takes
  <2>1. Settled' /\ AppliedOnce'
    BY <1>1, <1>3, <1>4 DEF Settled, AppliedOnce, TakenIds
  <2>2. FailedIds \cap IdsIn(items) = {}
    BY <1>4 DEF IdsIn
  <2>3. takes' # Append(takes, Ids(items))
    <3>1. takes \in Seq(Seq(Nat \ {0}))
      BY DEF Typed
    <3>2. Len(Append(takes, Ids(items))) = Len(takes) + 1 /\ Len(takes) \in Nat
      BY <3>1, IdsTyped
    <3> QED BY <1>4, <3>2
  <2> QED BY <1>1, <1>4, <2>1, <2>2, <2>3
<1>5. CASE takes' = Append(takes, Ids(items))
  <2> DEFINE L == Len(takes) + 1
  <2>1. /\ DOMAIN takes' = DOMAIN takes \cup {L} /\ L \notin DOMAIN takes
        /\ takes'[L] = Ids(items) /\ \A n \in DOMAIN takes : takes'[n] = takes[n]
        /\ Len(takes') = L /\ takes' # <<>>
    <3>1. takes \in Seq(Seq(Nat \ {0})) /\ Ids(items) \in Seq(Nat \ {0})
      BY IdsTyped DEF Typed
    <3> QED BY <1>5, <3>1, Appended
  <2>2. /\ DOMAIN Ids(items) = DOMAIN items /\ Len(Ids(items)) = Len(items)
        /\ \A i \in DOMAIN items : Ids(items)[i] = items[i].id
        /\ DOMAIN items = 1..Len(items) /\ Len(items) \in Nat
    BY IdsTyped
  <2>3. Last(takes') = Ids(items)
    BY <2>1 DEF Last
  <2> HIDE DEF L
  <2>4. Range(Ids(items)) = IdsIn(items)
    BY <2>2 DEF Range, IdsIn
  <2>5. \A k \in DOMAIN items : items[k].id \in IdsIn(items) /\ items[k].id \notin DoneIds
    BY <1>1 DEF IdsIn
  <2>6. Holding'
    <3>1. Len(Ids(items)) - Len(items) = 0
      BY <2>2
    <3>2. \A k \in DOMAIN items : items[k].id = Ids(items)[0 + k]
      BY <2>2
    <3>3. \A i \in 1..0 : FALSE
      OBVIOUS
    <3> QED BY <1>1, <2>1, <2>2, <2>3, <2>5, <3>1, <3>2, <3>3 DEF Holding
  <2>7. Settled'
    <3>1. ASSUME NEW j \in DOMAIN Ids(items)
          PROVE  Ids(items)[j] \notin DoneIds /\ Ids(items)[j] \in IdsIn(items)
      BY <2>2, <2>5, <3>1
    <3> QED BY <1>1, <1>3, <2>1, <3>1 DEF Settled
  <2>8. AppliedOnce'
    <3>1. TakenIds \subseteq TakenIds'
      BY <2>1 DEF TakenIds
    <3> QED BY <1>1, <3>1 DEF AppliedOnce
  <2> QED BY <1>1, <2>1, <2>3, <2>4, <2>6, <2>7, <2>8
<1> QED BY <1>4, <1>5

(* What PipelineInv says of commands that were taken up. *)
Progress == AppliedOnce /\ (left # <<>> => Holding) /\ Settled /\ Latching /\ Noticing

(* It holds after every call, *)
LEMMA CallsProgress ==
  ASSUME Safe, Typed, HandsClean, Placed, Progress, outcome' \in Outcomes, ApplyCommand \/ EditCall
  PROVE  Progress'
<1> USE DEF Progress
<1>0. "Ok" \notin Errors
  BY DEF Errors
<1>1. CASE ApplyCommand
  <2>1. /\ worker \in {"apply", "playback"} /\ left # <<>> /\ result = "Ok" /\ Holding
        /\ Perform(Head(left).command) /\ Record(Head(left))
        /\ takes' = takes /\ worker' = worker /\ changed' = (changed \/ AppliedChange)
    BY <1>1 DEF ApplyCommand
  <2>2. /\ result' = IF Failed(outcome') THEN outcome' ELSE "Ok"
        /\ left' = Tail(left) \/ (Failed(outcome') /\ left' = <<>>)
    BY <1>1, <2>1 DEF ApplyCommand, AfterCommand
  <2>3. AppliedOnce' /\ (left' # <<>> => Holding') /\ Settled'
    BY <2>1, <2>2, RecordedStep
  <2>4. Latching'
    BY <2>1 DEF Latching
  <2>5. Noticing'
    <3>1. SUFFICES ASSUME worker' = "playback", result' = "Ok" PROVE changed' = moved'
      BY DEF Noticing
    <3>2. outcome' \notin Errors
      BY <1>0, <2>2, <3>1 DEF Failed
    <3>3. Head(left).command \in Commands \cup DirectCalls
      BY <2>1, HandTyped DEF Items
    <3>4. AppliedChange <=> state' # state
      BY <2>1, <3>2, <3>3, CallIsStep, ChangeIsReported
    <3>5. changed = moved /\ moved' = (moved \/ state' # state)
      BY <2>1, <3>1 DEF Noticing, Record
    <3>6. changed' = (changed \/ AppliedChange)
      BY <2>1
    <3> HIDE DEF AppliedChange, state
    <3>7. (changed \/ AppliedChange) = (moved \/ state' # state)
      BY <3>4, <3>5
    <3> QED BY <3>5, <3>6, <3>7
  <2> QED BY <2>3, <2>4, <2>5
<1>2. CASE EditCall
  <2>1. /\ worker = "edit" /\ left # <<>> /\ Holding
        /\ takes' = takes /\ worker' = worker
    BY <1>2 DEF EditCall
  <2>2. Noticing'
    BY <2>1 DEF Noticing
  <2>3. Last(takes') = Last(takes) /\ takes # <<>>
    BY <2>1 DEF Holding
  <2>4. CASE result # "Ok" /\ left' = Tail(left) /\ UNCHANGED <<result, done>>
    <3>1. (left' # <<>> => Holding') /\ Settled'
      BY <2>1, <2>4, SkippedStep
    <3>2. AppliedOnce'
      BY <2>1, <2>4 DEF AppliedOnce, DoneIds, TakenIds
    <3>3. Latching'
      BY <2>1, <2>4 DEF Latching, FailedIds
    <3> QED BY <2>2, <3>1, <3>2, <3>3
  <2>5. CASE /\ result = "Ok" /\ left' = Tail(left)
             /\ result' = IF Failed(outcome') THEN outcome' ELSE "Ok"
             /\ Record(Head(left))
    <3>1. /\ AppliedOnce' /\ (left' # <<>> => Holding') /\ Settled'
          /\ FailedIds' = FailedIds \cup (IF Failed(outcome') THEN {Head(left).id} ELSE {})
          /\ Head(left).id \in Range(Last(takes))
      BY <2>1, <2>5, RecordedStep
    <3>2. Range(Last(takes)) \cap FailedIds = {}
      BY <2>1, <2>5 DEF Latching
    <3>3. CASE ~Failed(outcome')
      <4>1. Range(Last(takes')) \cap FailedIds' = {} /\ result' = "Ok"
        BY <2>3, <2>5, <3>1, <3>2, <3>3
      <4> QED BY <2>1, <2>2, <2>3, <3>1, <4>1 DEF Latching
    <3>4. CASE Failed(outcome')
      <4> DEFINE new == Len(done) + 1
      <4>1. /\ DOMAIN done' = DOMAIN done \cup {new}
            /\ done'[new].id = Head(left).id /\ done'[new].verdict = outcome'
            /\ \A d \in DOMAIN done : done'[d] = done[d]
        BY <2>1, <2>5, RecordTyped
      <4>2. result' = outcome' /\ result' # "Ok"
        BY <1>0, <2>5, <3>4 DEF Failed
      <4> HIDE DEF new
      <4>3. \A e \in DOMAIN done : ~(done[e].id \in Range(Last(takes)) /\ Failed(done[e].verdict))
        BY <3>2 DEF FailedIds
      <4>4. /\ new \in DOMAIN done' /\ done'[new].id \in Range(Last(takes')) /\ Failed(done'[new].verdict)
            /\ done'[new].verdict = result'
            /\ \A e \in DOMAIN done' :
                 done'[e].id \in Range(Last(takes')) /\ Failed(done'[e].verdict) => e = new
        BY <2>3, <3>1, <3>4, <4>1, <4>2, <4>3
      <4>5. Latching'
        BY <2>1, <2>3, <4>2, <4>4 DEF Latching
      <4> QED BY <2>2, <3>1, <4>5
    <3> QED BY <3>3, <3>4
  <2>6. CASE UNCHANGED <<left, result, done>>
    BY <2>1, <2>2, <2>6 DEF Holding, Settled, AppliedOnce, Latching, DoneIds, FailedIds, TakenIds
  <2> QED BY <1>2, <2>4, <2>5, <2>6 DEF EditCall, Latched
<1> QED BY <1>1, <1>2

(* ... after something was taken up, *)
LEMMA TakingProgress ==
  ASSUME Typed, HandsClean, Placed, Progress,
         (\E cs \in EditChains : Edit(cs)) \/ Playback \/ PopBatch \/ ApplySemanticCommands
  PROVE  Progress'
<1> USE DEF Progress
<1>1. ASSUME NEW cs \in EditChains, Edit(cs) PROVE Progress'
  <2> DEFINE new == Numbered(cs)
  <2>1. cs \in Seq(Commands \cup DirectCalls)
    BY PipelineAssumption
  <2>2. new \in Seq(Items) /\ IdsIn(new) \cap TakenIds = {}
    BY <2>1, NumberedTyped, NumberedPlaces DEF Placed
  <2>3. /\ worker' = "edit" /\ left' = new /\ result' = "Ok" /\ left = <<>>
        /\ takes' = Append(takes, Ids(new)) /\ done' = done
    BY <1>1 DEF Edit, Begin, Free, HandsClean
  <2> HIDE DEF new
  <2>4. /\ AppliedOnce' /\ (left' # <<>> => Holding') /\ Settled'
        /\ FailedIds' = FailedIds /\ FailedIds \cap IdsIn(new) = {}
        /\ Range(Last(takes')) = IdsIn(new) /\ takes' # <<>>
    BY <2>2, <2>3, TakingStep
  <2>5. Latching' /\ Noticing'
    BY <2>3, <2>4 DEF Latching, Noticing
  <2> QED BY <2>4, <2>5
<1>2. CASE Playback
  <2>1. /\ worker' = "playback" /\ left' = <<>> /\ left = <<>> /\ changed' = FALSE /\ moved' = FALSE
        /\ takes' = takes /\ done' = done
    BY <1>2 DEF Playback, Begin, Free, HandsClean
  <2>2. Settled'
    BY <2>1 DEF Settled, DoneIds, FailedIds
  <2>3. AppliedOnce'
    BY <2>1 DEF AppliedOnce, DoneIds, TakenIds
  <2>4. Latching' /\ Noticing'
    BY <2>1 DEF Latching, Noticing
  <2> QED BY <2>1, <2>2, <2>3, <2>4
<1>3. CASE PopBatch
  <2> DEFINE first == Head(batches)
  <2>1. /\ worker = "playback" /\ worker' = "playback" /\ left = <<>> /\ left' = first
        /\ result = "Ok" /\ result' = "Ok" /\ changed' = changed /\ moved' = moved
        /\ Take(first) /\ done' = done /\ batches # <<>>
    BY <1>3 DEF PopBatch, MoreBatches
  <2>2. first \in Seq(Items) /\ 1 \in DOMAIN batches /\ first = batches[1]
    <3>1. batches \in Seq(Seq(Items))
      BY DEF Typed
    <3> QED BY <2>1, <3>1
  <2> HIDE DEF first
  <2>3. IdsIn(first) \cap TakenIds = {}
    <3>1. IdsIn(first) \subseteq In(batches)
      BY <2>2 DEF In
    <3> QED BY <3>1 DEF Placed
  <2>4. AppliedOnce' /\ (left' # <<>> => Holding') /\ Settled'
    BY <2>1, <2>2, <2>3, TakingStep DEF Take
  <2>5. Latching' /\ Noticing'
    BY <2>1 DEF Latching, Noticing
  <2> QED BY <2>4, <2>5
<1>4. CASE ApplySemanticCommands
  <2>1. /\ worker' = "apply" /\ left = <<>> /\ left' = queue /\ result' = "Ok"
        /\ Take(queue) /\ done' = done /\ queue \in Seq(Items)
    BY <1>4 DEF ApplySemanticCommands, Begin, Free, Drained, HandsClean, Typed
  <2>2. IdsIn(queue) \cap TakenIds = {}
    BY DEF Placed
  <2>3. AppliedOnce' /\ (left' # <<>> => Holding') /\ Settled'
    BY <2>1, <2>2, TakingStep DEF Take
  <2>4. Latching' /\ Noticing'
    BY <2>1 DEF Latching, Noticing
  <2> QED BY <2>3, <2>4
<1> QED BY <1>1, <1>2, <1>3, <1>4

(* ... and whatever else happens. *)
LEMMA OtherProgress ==
  ASSUME Typed, HandsClean, Placed, Progress,
         \/ \E s \in Range(Systems), c \in Stageable : Stage(s, c)
         \/ \E b \in BatchGroups : Enqueue(b)
         \/ EditEnd \/ PlaybackEnd \/ ApplyEnd \/ EndPhase \/ Recover
         \/ UNCHANGED pipelineVars
  PROVE  Progress'
<1>1. /\ UNCHANGED <<left, result, takes, done, changed, moved>>
      /\ worker' = worker \/ worker' = "none"
  BY DEF Stage, Enqueue, EditEnd, PlaybackEnd, ApplyEnd, EndPhase, Recover,
         pipelineVars, workVars, ghostVars
<1>2. DoneIds' = DoneIds /\ FailedIds' = FailedIds /\ TakenIds' = TakenIds
  BY <1>1 DEF DoneIds, FailedIds, TakenIds
<1>3. (left' # <<>> => Holding') /\ Settled'
  BY <1>1, <1>2 DEF Progress, Holding, Settled
<1>4. AppliedOnce'
  BY <1>1, <1>2 DEF Progress, AppliedOnce
<1>5. Latching'
  BY <1>1, <1>2 DEF Progress, Latching
<1>6. Noticing'
  BY <1>1 DEF Progress, Noticing
<1> QED BY <1>3, <1>4, <1>5, <1>6 DEF Progress

(* The invariant is inductive. *)
LEMMA PipelineStep ==
  ASSUME PipelineInv, [PipelineNext]_pipelineVars
  PROVE  PipelineInv'
<1>1. Safe /\ Typed /\ HandsClean /\ Placed /\ Progress
  BY DEF PipelineInv, Progress
<1>2. Safe' /\ Typed' /\ HandsClean'
  BY <1>1, TypedStep
<1>3. outcome' \in Outcomes
  BY <1>2 DEF Safe, IInv
<1>4. Placed'
  BY <1>1, ProducePlaced, RunPlaced DEF PipelineNext
<1>5. Progress'
  BY <1>1, <1>3, CallsProgress, TakingProgress, OtherProgress DEF PipelineNext, Produce, Run
<1> QED BY <1>2, <1>4, <1>5 DEF PipelineInv, Progress

LEMMA PipelineStart ==
  ASSUME PipelineInit
  PROVE  PipelineInv
<1>1. Safe /\ Typed /\ HandsClean
  BY InitTyped
<1>2. /\ \A s \in DOMAIN buffers : buffers[s] = <<>>
      /\ queue = <<>> /\ batches = <<>> /\ left = <<>> /\ takes = <<>> /\ done = <<>>
      /\ issued = <<>> /\ worker = "none"
  BY DEF PipelineInit
<1>3. IdsIn(queue) = {} /\ In(buffers) = {} /\ In(batches) = {} /\ TakenIds = {} /\ DoneIds = {}
  BY <1>2 DEF IdsIn, In, TakenIds, DoneIds
<1>4. Apart(buffers) /\ Distinct(queue) /\ Apart(batches) /\ TakenOnce
  BY <1>2 DEF Apart, Distinct, TakenOnce
<1>5. 1..Len(issued) = {}
  BY <1>2
<1>6. Placed
  BY <1>3, <1>4, <1>5 DEF Placed
<1>7. Settled /\ AppliedOnce /\ Latching /\ Noticing
  BY <1>2, <1>3 DEF Settled, AppliedOnce, Latching, Noticing
<1> QED BY <1>1, <1>2, <1>6, <1>7 DEF PipelineInv

(* Whatever systems, tasks and chains issue, and whichever calls fail or
   unwind: every command is in one place, commands in somebody's hands are
   the end of what it took up, and what a caller will be told is true.     *)
THEOREM PipelineInvariance == PipelineSpec => []PipelineInv
<1>1. PipelineInit => PipelineInv
  BY PipelineStart
<1>2. PipelineInv /\ [PipelineNext]_pipelineVars => PipelineInv'
  BY PipelineStep
<1> QED BY <1>1, <1>2, PTL DEF PipelineSpec

-----------------------------------------------------------------------------
(* The properties                                                          *)

(* The end of a sequence, element by element. *)
LEMMA SuffixMeans ==
  ASSUME NEW S, NEW s \in Seq(S), NEW t \in Seq(S), Len(s) <= Len(t),
         \A k \in DOMAIN s : s[k] = t[(Len(t) - Len(s)) + k]
  PROVE  IsSuffix(s, t)
<1>1. /\ Len(s) \in Nat /\ Len(t) \in Nat /\ DOMAIN s = 1..Len(s) /\ DOMAIN t = 1..Len(t)
  OBVIOUS
<1> DEFINE a == [i \in 1..Len(s) |-> s[(Len(s) - i) + 1]]
           b == [i \in 1..Len(t) |-> t[(Len(t) - i) + 1]]
<1>2. Reverse(s) = a /\ Reverse(t) = b
  BY <1>1 DEF Reverse
<1>3. \A i \in 1..Len(s) : (Len(s) - i) + 1 \in 1..Len(s)
  BY <1>1
<1>4. \A i \in 1..Len(t) : (Len(t) - i) + 1 \in 1..Len(t)
  BY <1>1
<1>5. a \in Seq(S) /\ b \in Seq(S) /\ Len(a) = Len(s) /\ Len(b) = Len(t)
  BY <1>1, <1>3, <1>4
<1>6. \A i \in 1..Len(s) : i \in 1..Len(t) /\ a[i] = b[i]
  <2> TAKE i \in 1..Len(s)
  <2>1. i \in 1..Len(t)
    BY <1>1
  <2>2. (Len(t) - Len(s)) + ((Len(s) - i) + 1) = (Len(t) - i) + 1
    BY <1>1
  <2>3. s[(Len(s) - i) + 1] = t[(Len(t) - i) + 1]
    BY <1>1, <1>3, <2>2
  <2> QED BY <2>1, <2>3
<1> HIDE DEF a, b
<1>7. SubSeq(a, 1, Len(a)) = SubSeq(b, 1, Len(a))
  BY <1>1, <1>5, <1>6
<1> QED BY <1>2, <1>5, <1>7 DEF IsSuffix, IsPrefix

(* Types, bounds and hands: whoever holds commands holds the end of what it
   took up, and nobody keeps any after returning.                          *)
THEOREM PipelineTypeCorrect == PipelineSpec => []PipelineTypeOK
<1>1. ASSUME PipelineInv PROVE PipelineTypeOK
  <2>1. Typed /\ HandsClean
    BY <1>1 DEF PipelineInv
  <2>2. worker = "none" => left = <<>> /\ Idle
    BY <2>1 DEF HandsClean, Idle
  <2>3. ASSUME left # <<>> PROVE IsSuffix(Ids(left), Last(takes))
    <3>1. Holding
      BY <1>1, <2>3 DEF PipelineInv
    <3>2. /\ Ids(left) \in Seq(Nat \ {0}) /\ Len(Ids(left)) = Len(left)
          /\ DOMAIN Ids(left) = DOMAIN left /\ \A k \in DOMAIN left : Ids(left)[k] = left[k].id
      BY <2>1, IdsTyped DEF Typed
    <3>3. Last(takes) \in Seq(Nat \ {0})
      BY <2>1, <3>1 DEF Holding, Typed, Last
    <3>4. /\ Len(Ids(left)) <= Len(Last(takes))
          /\ \A k \in DOMAIN Ids(left) :
               Ids(left)[k] = Last(takes)[(Len(Last(takes)) - Len(Ids(left))) + k]
      BY <3>1, <3>2 DEF Holding
    <3> QED BY <3>2, <3>3, <3>4, SuffixMeans
  <2> QED BY <2>1, <2>2, <2>3 DEF PipelineTypeOK, Typed
<1> QED BY <1>1, PipelineInvariance, PTL

(* The buffers in the order of the systems. *)
LEMMA SystemsPlaces ==
  ASSUME Typed
  PROVE  LET bs == [i \in DOMAIN Systems |-> buffers[Systems[i]]]
         IN bs \in Seq(Seq(Items)) /\ In(bs) = In(buffers) /\ (Apart(buffers) => Apart(bs))
<1> DEFINE bs == [i \in DOMAIN Systems |-> buffers[Systems[i]]]
<1>1. DOMAIN Systems = 1..Len(Systems) /\ Len(Systems) \in Nat /\ IsInjective(Systems)
  BY PipelineAssumption
<1>2. DOMAIN buffers = Range(Systems) /\ \A i \in DOMAIN Systems : Systems[i] \in Range(Systems)
  BY DEF Typed, Range
<1>3. bs \in Seq(Seq(Items))
  <2>1. \A i \in DOMAIN Systems : buffers[Systems[i]] \in Seq(Items)
    BY <1>2 DEF Typed
  <2> QED BY <1>1, <2>1
<1>4. DOMAIN bs = DOMAIN Systems /\ \A i \in DOMAIN Systems : bs[i] = buffers[Systems[i]]
  OBVIOUS
<1> HIDE DEF bs
<1>5. In(bs) = In(buffers)
  <2>1. In(bs) \subseteq In(buffers)
    BY <1>2, <1>4 DEF In
  <2>2. \A s \in DOMAIN buffers : \E i \in DOMAIN bs : bs[i] = buffers[s]
    BY <1>2, <1>4 DEF Range
  <2>3. In(buffers) \subseteq In(bs)
    BY <2>2 DEF In
  <2> QED BY <2>1, <2>3
<1>6. ASSUME Apart(buffers), NEW a \in DOMAIN bs, NEW b \in DOMAIN bs, NEW i \in DOMAIN bs[a], NEW j \in DOMAIN bs[b],
             bs[a][i].id = bs[b][j].id
      PROVE  a = b /\ i = j
  <2>1. Systems[a] = Systems[b] /\ i = j
    BY <1>2, <1>4, <1>6 DEF Apart
  <2> QED BY <1>1, <1>4, <2>1 DEF IsInjective
<1>7. Apart(buffers) => Apart(bs)
  BY <1>6 DEF Apart
<1> QED BY <1>3, <1>5, <1>7 DEF bs

(* Places counted from an offset. *)
LEMMA Cancelled ==
  ASSUME NEW a \in Int, NEW i \in Int, NEW j \in Int, a + i = a + j
  PROVE  i = j
OBVIOUS

(* What is held is distinct, was taken and was not applied. *)
LEMMA HeldPlaces ==
  ASSUME PipelineInv
  PROVE  /\ left \in Seq(Items) /\ Distinct(left) /\ IdsIn(left) \subseteq TakenIds
         /\ IdsIn(left) \cap DoneIds = {}
<1>1. Typed /\ Placed /\ left \in Seq(Items)
  BY DEF PipelineInv, Typed
<1>2. CASE left = <<>>
  BY <1>1, <1>2 DEF Distinct, IdsIn
<1>3. CASE left # <<>>
  <2>1. Holding
    BY <1>3 DEF PipelineInv
  <2> DEFINE t == Last(takes)
             off == Len(t) - Len(left)
  <2>2. /\ t = takes[Len(takes)] /\ Len(takes) \in DOMAIN takes /\ off \in Nat
        /\ \A k \in DOMAIN left : off + k \in DOMAIN t /\ left[k].id = t[off + k]
        /\ \A n \in DOMAIN takes : \A j \in DOMAIN takes[n] : \A k \in DOMAIN left :
             takes[n][j] = left[k].id => n = Len(takes) /\ j = off + k
    BY <1>1, <1>3, <2>1, AtHand
  <2> HIDE DEF t
  <2>3. \A i \in DOMAIN left : i \in Int
    BY <1>1, <1>3, HandTyped
  <2>4. Distinct(left)
    <3> SUFFICES ASSUME NEW i \in DOMAIN left, NEW j \in DOMAIN left, left[i].id = left[j].id PROVE i = j
      BY DEF Distinct
    <3>1. off + i = off + j
      BY <2>2
    <3>2. off \in Int /\ i \in Int /\ j \in Int
      BY <2>2, <2>3
    <3> HIDE DEF off
    <3> QED BY <3>1, <3>2, Cancelled
  <2>5. IdsIn(left) \subseteq TakenIds
    BY <2>2 DEF IdsIn, TakenIds, Range
  <2>6. IdsIn(left) \cap DoneIds = {}
    BY <2>1 DEF Holding, IdsIn
  <2> QED BY <1>1, <2>4, <2>5, <2>6
<1> QED BY <1>2, <1>3

(* All that waits, place after place. *)
LEMMA WaitingPlaces ==
  ASSUME PipelineInv
  PROVE  /\ Waiting \in Seq(Nat \ {0}) /\ IsInjective(Waiting)
         /\ Range(Waiting) = In(buffers) \cup IdsIn(queue) \cup In(batches) \cup IdsIn(left)
         /\ Range(Waiting) \cap DoneIds = {}
<1> DEFINE bs == [i \in DOMAIN Systems |-> buffers[Systems[i]]]
           b == FlattenSeq(bs)
           q == FlattenSeq(batches)
           all == ((b \o queue) \o q) \o left
<1>1. Typed /\ Placed /\ DoneIds \subseteq TakenIds
  BY DEF PipelineInv, AppliedOnce
<1>2. b \in Seq(Items) /\ IdsIn(b) = In(buffers) /\ Distinct(b)
  <2>1. bs \in Seq(Seq(Items)) /\ In(bs) = In(buffers) /\ Apart(bs)
    BY <1>1, SystemsPlaces DEF Placed
  <2> HIDE DEF bs
  <2> QED BY <2>1, FlatPlaces
<1>3. q \in Seq(Items) /\ IdsIn(q) = In(batches) /\ Distinct(q)
  BY <1>1, FlatPlaces DEF Typed, Placed
<1>4. queue \in Seq(Items) /\ Distinct(queue)
  BY <1>1 DEF Typed, Placed
<1>5. left \in Seq(Items) /\ Distinct(left) /\ IdsIn(left) \subseteq TakenIds /\ IdsIn(left) \cap DoneIds = {}
  BY HeldPlaces
<1>6. Waiting = Ids(all)
  BY DEF Waiting
<1> HIDE DEF b, q
<1>7. /\ b \o queue \in Seq(Items) /\ Distinct(b \o queue)
      /\ IdsIn(b \o queue) = In(buffers) \cup IdsIn(queue)
  BY <1>1, <1>2, <1>4, ConcatPlaces DEF Placed
<1>8. /\ (b \o queue) \o q \in Seq(Items) /\ Distinct((b \o queue) \o q)
      /\ IdsIn((b \o queue) \o q) = In(buffers) \cup IdsIn(queue) \cup In(batches)
  <2>1. IdsIn(b \o queue) \cap IdsIn(q) = {}
    BY <1>1, <1>3, <1>7 DEF Placed
  <2> QED BY <1>3, <1>7, <2>1, ConcatPlaces
<1>9. /\ all \in Seq(Items) /\ Distinct(all)
      /\ IdsIn(all) = In(buffers) \cup IdsIn(queue) \cup In(batches) \cup IdsIn(left)
  <2>1. IdsIn((b \o queue) \o q) \cap IdsIn(left) = {}
    BY <1>1, <1>5, <1>8 DEF Placed
  <2> QED BY <1>5, <1>8, <2>1, ConcatPlaces
<1> HIDE DEF all
<1>10. /\ Ids(all) \in Seq(Nat \ {0}) /\ DOMAIN Ids(all) = DOMAIN all
       /\ \A i \in DOMAIN all : Ids(all)[i] = all[i].id
  BY <1>9, IdsTyped
<1>11. Range(Ids(all)) = IdsIn(all)
  BY <1>10 DEF Range, IdsIn
<1>12. IsInjective(Ids(all))
  BY <1>9, <1>10 DEF IsInjective, Distinct
<1>13. IdsIn(all) \cap DoneIds = {}
  BY <1>1, <1>5, <1>9 DEF Placed
<1> QED BY <1>6, <1>9, <1>10, <1>11, <1>12, <1>13

(* What has been applied. *)
LEMMA AppliedPlaces ==
  ASSUME PipelineInv
  PROVE  Applied \in Seq(Nat \ {0}) /\ IsInjective(Applied) /\ Range(Applied) = DoneIds
<1>1. done \in Seq(Dones) /\ \A r \in Dones : r.id \in Nat \ {0}
  BY DEF PipelineInv, Typed, Dones
<1>2. DOMAIN Applied = DOMAIN done /\ \A d \in DOMAIN done : Applied[d] = done[d].id
  BY DEF Applied
<1>3. Applied \in Seq(Nat \ {0})
  <2>1. \A d \in 1..Len(done) : done[d].id \in Nat \ {0}
    BY <1>1
  <2>2. Applied = [d \in 1..Len(done) |-> done[d].id] /\ Len(done) \in Nat
    BY <1>1 DEF Applied
  <2> QED BY <2>1, <2>2
<1>4. IsInjective(Applied)
  BY <1>2 DEF IsInjective, PipelineInv, AppliedOnce
<1>5. Range(Applied) = DoneIds
  BY <1>2 DEF Range, DoneIds
<1> QED BY <1>3, <1>4, <1>5

(* Sequences without repetition and without a common element. *)
LEMMA InjectiveConcat ==
  ASSUME NEW S, NEW s \in Seq(S), NEW t \in Seq(S), IsInjective(s), IsInjective(t),
         Range(s) \cap Range(t) = {}
  PROVE  IsInjective(s \o t) /\ Range(s \o t) = Range(s) \cup Range(t)
<1> DEFINE g == s \o t
<1>1. /\ DOMAIN g = 1..(Len(s) + Len(t)) /\ Len(s) \in Nat /\ Len(t) \in Nat
      /\ \A p \in DOMAIN s : p \in DOMAIN g /\ g[p] = s[p]
      /\ \A j \in DOMAIN t : Len(s) + j \in DOMAIN g /\ g[Len(s) + j] = t[j]
      /\ \A p \in DOMAIN g : \/ p \in DOMAIN s /\ g[p] = s[p]
                             \/ p - Len(s) \in DOMAIN t /\ g[p] = t[p - Len(s)]
  OBVIOUS
<1> HIDE DEF g
<1>2. Range(g) \subseteq Range(s) \cup Range(t)
  BY <1>1 DEF Range
<1>3. Range(s) \subseteq Range(g) /\ Range(t) \subseteq Range(g)
  BY <1>1 DEF Range
<1>4. ASSUME NEW p \in DOMAIN g, NEW q \in DOMAIN g, g[p] = g[q] PROVE p = q
  <2>1. CASE p \in DOMAIN s /\ g[p] = s[p] /\ q \in DOMAIN s /\ g[q] = s[q]
    BY <1>4, <2>1 DEF IsInjective
  <2>2. CASE /\ p - Len(s) \in DOMAIN t /\ g[p] = t[p - Len(s)]
             /\ q - Len(s) \in DOMAIN t /\ g[q] = t[q - Len(s)]
    <3>1. p - Len(s) = q - Len(s)
      BY <1>4, <2>2 DEF IsInjective
    <3> QED BY <1>1, <3>1
  <2>3. CASE p \in DOMAIN s /\ g[p] = s[p] /\ q - Len(s) \in DOMAIN t /\ g[q] = t[q - Len(s)]
    BY <1>4, <2>3 DEF Range
  <2>4. CASE q \in DOMAIN s /\ g[q] = s[q] /\ p - Len(s) \in DOMAIN t /\ g[p] = t[p - Len(s)]
    BY <1>4, <2>4 DEF Range
  <2> QED BY <1>1, <2>1, <2>2, <2>3, <2>4
<1> QED BY <1>2, <1>3, <1>4 DEF IsInjective, g

(* No command is applied twice, and none that was not applied is lost but to
   a failure in front of it: queues and batches are moved whole, popped
   before they are applied, and dropped only behind an error.              *)
THEOREM EveryCommandOnceOrLost == PipelineSpec => []AppliedOnceOrLost
<1>1. ASSUME PipelineInv PROVE AppliedOnceOrLost
  <2>1. /\ Waiting \in Seq(Nat \ {0}) /\ IsInjective(Waiting)
        /\ Range(Waiting) = In(buffers) \cup IdsIn(queue) \cup In(batches) \cup IdsIn(left)
        /\ Range(Waiting) \cap DoneIds = {}
    BY <1>1, WaitingPlaces
  <2>2. Applied \in Seq(Nat \ {0}) /\ IsInjective(Applied) /\ Range(Applied) = DoneIds
    BY <1>1, AppliedPlaces
  <2>3. Placed /\ Settled /\ DoneIds \subseteq TakenIds /\ IdsIn(left) \subseteq TakenIds
    BY <1>1, HeldPlaces DEF PipelineInv, AppliedOnce
  <2>4. DOMAIN issued = 1..Len(issued)
    BY <1>1 DEF PipelineInv, Typed
  <2>5. AtMostOnce
    <3>1. IsInjective(Waiting \o Applied) /\ Range(Waiting \o Applied) = Range(Waiting) \cup Range(Applied)
      BY <2>1, <2>2, InjectiveConcat
    <3>2. Range(Waiting) \cup Range(Applied) \subseteq DOMAIN issued
      BY <2>1, <2>2, <2>3, <2>4 DEF Placed
    <3> QED BY <3>1, <3>2 DEF AtMostOnce
  <2>6. ASSUME NEW id \in DOMAIN issued, id \notin Range(Applied), id \notin Range(Waiting)
        PROVE  Behind(id)
    <3>1. id \in TakenIds
      BY <2>1, <2>3, <2>4, <2>6 DEF Placed
    <3>2. PICK n \in DOMAIN takes : \E j \in DOMAIN takes[n] : takes[n][j] = id
      BY <3>1 DEF TakenIds, Range
    <3>3. PICK j \in DOMAIN takes[n] : takes[n][j] = id
      BY <3>2
    <3>4. PICK i \in 1..(j - 1) : takes[n][i] \in FailedIds
      BY <2>1, <2>2, <2>3, <2>6, <3>3 DEF Settled
    <3>5. PICK d \in DOMAIN done : takes[n][i] = done[d].id /\ Failed(done[d].verdict)
      BY <3>4 DEF FailedIds
    <3>6. i \in DOMAIN takes[n] /\ i < j
      <4>1. takes[n] \in Seq(Nat \ {0})
        BY <1>1 DEF PipelineInv, Typed
      <4> QED BY <4>1
    <3>7. takes[n] \in Range(takes) /\ done[d] \in Range(done)
      BY DEF Range
    <3> QED BY <3>3, <3>5, <3>6, <3>7 DEF Behind
  <2>7. ASSUME NEW id \in DOMAIN issued, Behind(id)
        PROVE  id \notin Range(Applied)
    <3>1. PICK n \in DOMAIN takes, d \in DOMAIN done : \E i, j \in DOMAIN takes[n] :
            i < j /\ takes[n][j] = id /\ done[d].id = takes[n][i] /\ Failed(done[d].verdict)
      BY <2>7 DEF Behind, Range
    <3>2. PICK i \in DOMAIN takes[n], j \in DOMAIN takes[n] :
            i < j /\ takes[n][j] = id /\ done[d].id = takes[n][i] /\ Failed(done[d].verdict)
      BY <3>1
    <3>3. i \in 1..(j - 1)
      <4>1. takes[n] \in Seq(Nat \ {0})
        BY <1>1 DEF PipelineInv, Typed
      <4> QED BY <3>2, <4>1
    <3>4. takes[n][i] \in FailedIds
      BY <3>2 DEF FailedIds
    <3> QED BY <2>2, <2>3, <3>2, <3>3, <3>4 DEF Settled
  <2> QED BY <2>5, <2>6, <2>7 DEF AppliedOnceOrLost, LostBehindFailure
<1> QED BY <1>1, PipelineInvariance, PTL

(* Only the end of a playback or of a chain hands Semantics back to nobody
   from its hands.                                                         *)
LEMMA HandedBack ==
  ASSUME Typed, [PipelineNext]_pipelineVars, worker \in {"playback", "edit"}, worker' = "none"
  PROVE  /\ worker = "playback" => PlaybackEnd
         /\ worker = "edit" => EditEnd
<1>1. CASE Produce
  BY <1>1 DEF Produce, Stage, Enqueue, Edit, Free
<1>2. CASE ApplyCommand \/ EditCall \/ PopBatch
  BY <1>2 DEF ApplyCommand, EditCall, PopBatch
<1>3. CASE Playback \/ ApplySemanticCommands \/ ApplyEnd \/ EndPhase
  BY <1>3 DEF Playback, ApplySemanticCommands, ApplyEnd, EndPhase, Free
<1>4. CASE Recover
  BY <1>4 DEF Recover, workVars
<1>5. CASE PlaybackEnd
  BY <1>5 DEF PlaybackEnd
<1>6. CASE EditEnd
  BY <1>6 DEF EditEnd
<1>7. CASE UNCHANGED pipelineVars
  BY <1>7 DEF pipelineVars, workVars
<1> QED BY <1>1, <1>2, <1>3, <1>4, <1>5, <1>6, <1>7 DEF PipelineNext, Run

(* A playback told its caller what it did. *)
LEMMA PlaybackTold ==
  ASSUME PipelineInv, [PipelineNext]_pipelineVars
  PROVE  PlaybackReportsChange
<1> SUFFICES ASSUME worker = "playback", worker' = "none", reply'.result = "Ok"
             PROVE  reply'.changed = moved /\ batches' = <<>>
  BY DEF PlaybackReportsChange
<1>1. PlaybackEnd
  BY HandedBack DEF PipelineInv
<1>2. result = "Ok" /\ reply'.changed = changed /\ batches' = batches
  BY <1>1 DEF PlaybackEnd, AfterPlayback, PipelineInv, Typed
<1>3. batches = <<>>
  BY <1>1, <1>2 DEF PlaybackEnd, MoreBatches
<1>4. changed = moved
  BY <1>2 DEF PipelineInv, Noticing
<1> QED BY <1>2, <1>3, <1>4

(* A chain told its caller its first error. *)
LEMMA EditTold ==
  ASSUME PipelineInv, [PipelineNext]_pipelineVars
  PROVE  EditReportsFirstError
<1> DEFINE chain == Last(takes)
           failures == {i \in DOMAIN done : Contains(chain, done[i].id) /\ Failed(done[i].verdict)}
<1> SUFFICES ASSUME worker = "edit", worker' = "none", phase' # "panicked"
             PROVE  reply'.result = IF failures = {} THEN "Ok" ELSE done[Min(failures)].verdict
  BY DEF EditReportsFirstError
<1>1. reply'.result = result
  BY HandedBack DEF EditEnd, Panic, PipelineInv
<1>2. Latching /\ chain \in Seq(Nat \ {0})
  <2>1. takes \in Seq(Seq(Nat \ {0})) /\ takes # <<>> /\ Latching
    BY DEF PipelineInv, Latching, Typed
  <2>2. Len(takes) \in DOMAIN takes /\ chain = takes[Len(takes)]
    BY <2>1 DEF Last
  <2> QED BY <2>1, <2>2
<1>3. \A i \in DOMAIN done : Contains(chain, done[i].id) <=> done[i].id \in Range(chain)
  <2>1. DOMAIN chain = 1..Len(chain)
    BY <1>2
  <2> HIDE DEF chain
  <2> QED BY <2>1 DEF Contains, Range
<1>4. CASE result = "Ok"
  <2>1. Range(chain) \cap FailedIds = {}
    BY <1>2, <1>4 DEF Latching
  <2>2. failures = {}
    BY <1>3, <2>1 DEF FailedIds
  <2> QED BY <1>1, <1>4, <2>2
<1>5. CASE result # "Ok"
  <2>1. PICK d \in DOMAIN done :
          /\ done[d].id \in Range(chain) /\ Failed(done[d].verdict)
          /\ done[d].verdict = result
          /\ \A e \in DOMAIN done :
               done[e].id \in Range(chain) /\ Failed(done[e].verdict) => e = d
    BY <1>2, <1>5 DEF Latching
  <2>2. failures = {d}
    BY <1>3, <2>1
  <2>3. Len(done) \in Nat /\ d \in 1..Len(done)
    BY DEF PipelineInv, Typed
  <2>4. Min({d}) = d
    <3>1. Min({d}) \in {d}
      BY <2>3, MinInSet
    <3> QED BY <3>1
  <2> QED BY <1>1, <2>1, <2>2, <2>4
<1> QED BY <1>4, <1>5

(* Whoever plays batches back learns whether the registry changed, and a
   chain's finish returns the error of its first failing call.             *)
THEOREM RepliesTrue == PipelineSpec => RepliesAreTrue
<1>1. PipelineInv /\ [PipelineNext]_pipelineVars
      => [PlaybackReportsChange /\ EditReportsFirstError]_pipelineVars
  BY PlaybackTold, EditTold
<1> QED BY <1>1, PipelineInvariance, PTL DEF PipelineSpec, RepliesAreTrue

-----------------------------------------------------------------------------
(* In which order                                                          *)

(* The pairs of commands that may be applied one after the other, and what
   is sorted by such a relation.                                           *)
Order == {r \in (1..Len(issued)) \X (1..Len(issued)) : InOrder(r[1], r[2])}
Sorted(R, items) == \A i, j \in DOMAIN items : i < j => <<items[i].id, items[j].id>> \in R

(* The commands that have left the buffers, or never were in one. *)
Sent == (1..Len(issued)) \ In(buffers)

(* The schedule that staged a command has ended. *)
Over(id) ==
  \/ issued[id].frame < frame
  \/ issued[id].frame = frame /\ issued[id].phase = "update" /\ phase # "update"

Origins ==
  /\ \A s \in DOMAIN buffers : \A id \in IdsIn(buffers[s]) : issued[id].source = s
  /\ \A id \in IdsIn(queue) : IsStaged(id)
  /\ \A id \in In(batches) : issued[id].source = "task"
  /\ \A id \in IdsIn(left) :
       /\ worker = "apply" => IsStaged(id)
       /\ worker = "playback" => issued[id].source = "task"
       /\ worker = "edit" => issued[id].source = "edit"
  /\ \A id \in 1..Len(issued) : IsStaged(id) =>
       /\ issued[id].phase = SystemPhase[issued[id].source]
       /\ issued[id].frame < MaxFrame /\ issued[id].frame <= frame
       /\ id \in Sent => Over(id)

Ordering ==
  /\ Sorted(Order, done)
  /\ Sorted(Order, left) /\ DoneIds \X IdsIn(left) \subseteq Order
  /\ Sorted(Order, queue) /\ TakenIds \X IdsIn(queue) \subseteq Order
  /\ \A n \in DOMAIN batches : Sorted(Order, batches[n])
  /\ \A n, m \in DOMAIN batches : n < m => IdsIn(batches[n]) \X IdsIn(batches[m]) \subseteq Order
  /\ TakenIds \X In(batches) \subseteq Order
  /\ \A s \in DOMAIN buffers : Sorted(Order, buffers[s])
  /\ Sent \X In(buffers) \subseteq Order

OrderInv == PipelineInv /\ Origins /\ Ordering

(* Nothing is asked of commands of different sources unless both were
   staged.                                                                 *)
LEMMA Unrelated ==
  ASSUME NEW a \in 1..Len(issued), NEW b \in 1..Len(issued), issued[a].source # issued[b].source,
         ~IsStaged(a) \/ ~IsStaged(b)
  PROVE  <<a, b>> \in Order
BY DEF Order, InOrder, Together

(* Orders are for ever: what was issued stays. *)
LEMMA OrderGrows ==
  ASSUME Len(issued) \in Nat, 1..Len(issued) \subseteq 1..Len(issued'),
         \A a \in 1..Len(issued) : issued'[a] = issued[a]
  PROVE  Order \subseteq Order'
<1> SUFFICES ASSUME NEW a \in 1..Len(issued), NEW b \in 1..Len(issued), InOrder(a, b)
             PROVE  InOrder(a, b)' /\ a \in 1..Len(issued') /\ b \in 1..Len(issued')
  BY DEF Order
<1> HIDE DEF PlaceOf
<1> QED BY DEF InOrder, Together, IsStaged

LEMMA SortedMore ==
  ASSUME NEW R, NEW Q, R \subseteq Q, NEW items, Sorted(R, items)
  PROVE  Sorted(Q, items)
BY DEF Sorted

(* What is sorted stays so without its head, which comes before the rest. *)
LEMMA SortedTail ==
  ASSUME NEW R, NEW items \in Seq(Items), items # <<>>, Sorted(R, items)
  PROVE  /\ Sorted(R, Tail(items)) /\ IdsIn(Tail(items)) \subseteq IdsIn(items)
         /\ Head(items).id \in IdsIn(items) /\ {Head(items).id} \X IdsIn(Tail(items)) \subseteq R
<1>1. /\ 1 \in DOMAIN items /\ Head(items) = items[1]
      /\ \A i \in DOMAIN Tail(items) : i \in Int /\ i >= 1 /\ i + 1 \in DOMAIN items /\ Tail(items)[i] = items[i + 1]
  <2> HIDE DEF Items
  <2> QED OBVIOUS
<1>2. Sorted(R, Tail(items))
  <2>1. \A i, j \in DOMAIN Tail(items) : i < j => i + 1 < j + 1
    BY <1>1
  <2> QED BY <1>1, <2>1 DEF Sorted
<1>3. \A i \in DOMAIN Tail(items) : <<Head(items).id, Tail(items)[i].id>> \in R
  <2>1. \A i \in DOMAIN Tail(items) : 1 < i + 1
    BY <1>1
  <2> QED BY <1>1, <2>1 DEF Sorted
<1> QED BY <1>1, <1>2, <1>3 DEF IdsIn

(* Sorted sequences put behind each other. *)
LEMMA ConcatSorted ==
  ASSUME NEW s \in Seq(Items), NEW t \in Seq(Items), NEW R, Sorted(R, s), Sorted(R, t),
         IdsIn(s) \X IdsIn(t) \subseteq R
  PROVE  Sorted(R, s \o t)
<1> DEFINE g == s \o t
<1>1. /\ g \in Seq(Items) /\ DOMAIN s = 1..Len(s) /\ DOMAIN t = 1..Len(t)
      /\ DOMAIN g = 1..(Len(s) + Len(t)) /\ Len(s) \in Nat /\ Len(t) \in Nat
      /\ \A p \in DOMAIN g : \/ p \in DOMAIN s /\ g[p] = s[p]
                             \/ p > Len(s) /\ p - Len(s) \in DOMAIN t /\ g[p] = t[p - Len(s)]
  <2> HIDE DEF Items
  <2> QED OBVIOUS
<1> HIDE DEF g
<1>2. ASSUME NEW p \in DOMAIN g, NEW q \in DOMAIN g, p < q
      PROVE  <<g[p].id, g[q].id>> \in R
  <2>1. CASE p \in DOMAIN s /\ g[p] = s[p] /\ q \in DOMAIN s /\ g[q] = s[q]
    BY <1>2, <2>1 DEF Sorted
  <2>2. CASE /\ p - Len(s) \in DOMAIN t /\ g[p] = t[p - Len(s)]
             /\ q - Len(s) \in DOMAIN t /\ g[q] = t[q - Len(s)]
    <3>1. p - Len(s) < q - Len(s)
      BY <1>1, <1>2
    <3> QED BY <2>2, <3>1 DEF Sorted
  <2>3. CASE p \in DOMAIN s /\ g[p] = s[p] /\ q - Len(s) \in DOMAIN t /\ g[q] = t[q - Len(s)]
    BY <2>3 DEF IdsIn
  <2>4. CASE q \in DOMAIN s /\ p > Len(s)
    BY <1>1, <1>2, <2>4
  <2> QED BY <1>1, <2>1, <2>2, <2>3, <2>4
<1> QED BY <1>2 DEF Sorted, g

(* The buffers of a schedule, one system after the other. *)
LEMMA FlushedSorted ==
  ASSUME PipelineInv, Origins, Ordering, NEW p
  PROVE  Sorted(Order, Flushed(p))
<1> DEFINE f == Flushed(p)
<1>1. f \in Seq(Items) /\ Flattens(f, Cells(p), Len(Systems)) /\ DOMAIN buffers = Range(Systems)
  BY FlushedFlattens DEF PipelineInv, Typed
<1>2. DOMAIN Systems = 1..Len(Systems) /\ Len(Systems) \in Nat /\ IsInjective(Systems)
  BY PipelineAssumption
<1>3. ASSUME NEW n \in 1..Len(Systems), NEW k \in DOMAIN Cells(p)[n]
      PROVE  /\ Cells(p)[n] = buffers[Systems[n]] /\ Systems[n] \in DOMAIN buffers
             /\ k \in DOMAIN buffers[Systems[n]]
             /\ issued[Cells(p)[n][k].id].source = Systems[n]
             /\ Cells(p)[n][k].id \in 1..Len(issued)
  <2>1. Cells(p)[n] = buffers[Systems[n]]
    BY <1>2, <1>3 DEF Cells
  <2>2. Systems[n] \in DOMAIN buffers
    BY <1>1, <1>2 DEF Range
  <2>3. Cells(p)[n][k].id \in 1..Len(issued)
    <3>1. In(buffers) \subseteq 1..Len(issued)
      BY DEF PipelineInv, Placed
    <3> QED BY <1>3, <2>1, <2>2, <3>1 DEF In, IdsIn
  <2> QED BY <1>3, <2>1, <2>2, <2>3 DEF Origins, IdsIn
<1>4. \A n \in 1..Len(Systems) : PlaceOf(Systems[n]) = n
  BY <1>2 DEF PlaceOf, IsInjective
<1> HIDE DEF f
<1>5. ASSUME NEW x \in DOMAIN f, NEW y \in DOMAIN f, x < y
      PROVE  <<f[x].id, f[y].id>> \in Order
  <2>1. PICK i \in 1..Len(Systems), h \in 1..Len(Systems) :
          \E j \in DOMAIN Cells(p)[i] : \E l \in DOMAIN Cells(p)[h] :
            f[x] = Cells(p)[i][j] /\ f[y] = Cells(p)[h][l] /\ (i < h \/ (i = h /\ j < l))
    BY <1>1, <1>5 DEF Flattens
  <2>2. PICK j \in DOMAIN Cells(p)[i], l \in DOMAIN Cells(p)[h] :
          f[x] = Cells(p)[i][j] /\ f[y] = Cells(p)[h][l] /\ (i < h \/ (i = h /\ j < l))
    BY <2>1
  <2>3. /\ issued[f[x].id].source = Systems[i] /\ issued[f[y].id].source = Systems[h]
        /\ PlaceOf(Systems[i]) = i /\ PlaceOf(Systems[h]) = h
        /\ f[x].id \in 1..Len(issued) /\ f[y].id \in 1..Len(issued)
    BY <1>3, <1>4, <2>2
  <2>4. CASE i = h /\ j < l
    BY <1>3, <2>2, <2>4 DEF Ordering, Sorted
  <2>5. CASE i < h
    <3>1. Systems[i] # Systems[h]
      BY <1>2, <2>5 DEF IsInjective
    <3>2. i <= h
      BY <2>5
    <3>3. InOrder(f[x].id, f[y].id)
      BY <2>3, <3>1, <3>2 DEF InOrder
    <3> QED BY <2>3, <3>3 DEF Order
  <2> QED BY <2>2, <2>4, <2>5
<1> QED BY <1>5 DEF Sorted, f

(* Where commands are, seen from the buffers. *)
LEMMA Whereabouts ==
  ASSUME PipelineInv
  PROVE  /\ In(buffers) \subseteq 1..Len(issued) /\ Len(issued) \in Nat /\ DOMAIN issued = 1..Len(issued)
         /\ TakenIds \subseteq Sent /\ DoneIds \subseteq TakenIds /\ IdsIn(left) \subseteq TakenIds
         /\ IdsIn(queue) \subseteq Sent /\ In(batches) \subseteq Sent
         /\ Sent = IdsIn(queue) \cup In(batches) \cup TakenIds
         /\ DOMAIN buffers = Range(Systems)
         /\ \A s \in DOMAIN buffers : IdsIn(buffers[s]) \subseteq In(buffers)
<1>1. /\ Typed /\ Placed /\ DoneIds \subseteq TakenIds /\ IdsIn(left) \subseteq TakenIds
  BY HeldPlaces DEF PipelineInv, AppliedOnce
<1>2. Len(issued) \in Nat /\ DOMAIN issued = 1..Len(issued) /\ DOMAIN buffers = Range(Systems)
  BY <1>1 DEF Typed
<1>3. Sent = IdsIn(queue) \cup In(batches) \cup TakenIds /\ In(buffers) \subseteq 1..Len(issued)
  BY <1>1 DEF Placed, Sent
<1>4. \A s \in DOMAIN buffers : IdsIn(buffers[s]) \subseteq In(buffers)
  BY DEF In
<1> QED BY <1>1, <1>2, <1>3, <1>4

(* What staging a command does to the places. *)
LEMMA StageMoves ==
  ASSUME PipelineInv, NEW s \in Range(Systems), NEW c \in Stageable, Stage(s, c),
         NEW new, new = Numbered(<<c>>)
  PROVE  LET id == Len(issued) + 1
         IN /\ id \notin 1..Len(issued) /\ Len(issued') = id
            /\ issued'[id] = [source |-> s, frame |-> frame, phase |-> phase]
            /\ \A a \in 1..Len(issued) : issued'[a] = issued[a]
            /\ new \in Seq(Items) /\ IdsIn(new) = {id} /\ Sorted({}, new)
            /\ DOMAIN buffers' = Range(Systems) /\ buffers'[s] = buffers[s] \o new
            /\ \A u \in Range(Systems) \ {s} : buffers'[u] = buffers[u]
            /\ IdsIn(buffers'[s]) = IdsIn(buffers[s]) \cup {id}
            /\ In(buffers') = In(buffers) \cup {id} /\ Sent' = Sent
<1> DEFINE id == Len(issued) + 1
<1>1. <<c>> \in Seq(Commands \cup DirectCalls) /\ Len(<<c>>) = 1 /\ Typed /\ DOMAIN buffers = Range(Systems)
  BY PipelineAssumption, Whereabouts DEF PipelineInv
<1>2. /\ Len(issued) \in Nat /\ Len(issued') = id
      /\ \A a \in 1..Len(issued) : issued'[a] = issued[a]
      /\ issued'[id] = [source |-> s, frame |-> frame, phase |-> phase]
  <2>1. /\ Len(issued') = Len(issued) + 1
        /\ \A a \in 1..Len(issued) : issued'[a] = issued[a]
        /\ \A a \in (Len(issued) + 1)..(Len(issued) + 1) :
             issued'[a] = [source |-> s, frame |-> frame, phase |-> phase]
    BY <1>1, IssueTyped DEF Stage, Free
  <2> QED BY <2>1, Whereabouts
<1>3. new \in Seq(Items) /\ DOMAIN new = {1} /\ new[1].id = id
  <2>1. new \in Seq(Items) /\ DOMAIN new = 1..Len(<<c>>) /\ \A i \in 1..Len(<<c>>) : new[i].id = Len(issued) + i
    BY <1>1, NumberedTyped
  <2>2. Len(<<c>>) = 1 /\ 1..1 = {1}
    OBVIOUS
  <2>3. DOMAIN new = 1..1 /\ \A i \in 1..1 : new[i].id = Len(issued) + i
    BY <2>1, <2>2
  <2>4. new[1].id = id
    BY <2>2, <2>3
  <2> QED BY <2>1, <2>2, <2>3, <2>4
<1>4. IdsIn(new) = {id}
  BY <1>3 DEF IdsIn
<1>5. Sorted({}, new)
  BY <1>3 DEF Sorted
<1> HIDE DEF id
<1>6. /\ DOMAIN buffers' = Range(Systems) /\ buffers'[s] = buffers[s] \o new
      /\ \A u \in Range(Systems) \ {s} : buffers'[u] = buffers[u]
  BY <1>1 DEF Stage
<1>7. IdsIn(buffers'[s]) = IdsIn(buffers[s]) \cup {id}
  <2>1. buffers[s] \in Seq(Items)
    BY <1>1 DEF Typed
  <2> QED BY <1>3, <1>4, <1>6, <2>1, ConcatPlaces
<1>8. In(buffers') = In(buffers) \cup {id}
  <2>1. \A u \in Range(Systems) : IdsIn(buffers[u]) \subseteq IdsIn(buffers'[u])
                                  /\ IdsIn(buffers'[u]) \subseteq IdsIn(buffers[u]) \cup {id}
    BY <1>6, <1>7
  <2>2. In(buffers) \subseteq In(buffers')
    BY <1>1, <1>6, <2>1 DEF In
  <2>3. In(buffers') \subseteq In(buffers) \cup {id}
    BY <1>1, <1>6, <2>1 DEF In
  <2>4. id \in In(buffers')
    BY <1>6, <1>7 DEF In
  <2> QED BY <2>2, <2>3, <2>4
<1>9. Sent' = Sent
  <2>1. 1..Len(issued') = (1..Len(issued)) \cup {id} /\ id \notin 1..Len(issued)
    BY <1>2 DEF id
  <2> QED BY <1>8, <2>1 DEF Sent
<1>10. id \notin 1..Len(issued)
  BY <1>2 DEF id
<1> QED BY <1>2, <1>3, <1>4, <1>5, <1>6, <1>7, <1>8, <1>9, <1>10 DEF id

(* What issuing commands that are not staged does to them. *)
LEMMA IssueMoves ==
  ASSUME PipelineInv, NEW cs \in Seq(Commands \cup DirectCalls), NEW source \in {"task", "edit"},
         Free, MayIssue(Len(cs)), Issue(source, Len(cs)), buffers' = buffers,
         NEW new, new = Numbered(cs)
  PROVE  /\ \A a \in 1..Len(issued) : issued'[a] = issued[a]
         /\ new \in Seq(Items) /\ Sorted(Order', new)
         /\ \A id \in IdsIn(new) :
              id \notin 1..Len(issued) /\ id > Len(issued) /\ id \in Int /\ issued'[id].source = source
         /\ 1..Len(issued') = (1..Len(issued)) \cup IdsIn(new)
         /\ Sent' = Sent \cup IdsIn(new)
<1>1. Typed /\ Len(issued) \in Nat /\ In(buffers) \subseteq 1..Len(issued) /\ Len(cs) \in Nat
  BY Whereabouts DEF PipelineInv
<1>2. /\ new \in Seq(Items) /\ DOMAIN new = 1..Len(cs)
      /\ \A i \in 1..Len(cs) : new[i].id = Len(issued) + i
  BY <1>1, NumberedTyped
<1>3. /\ IdsIn(new) = (Len(issued) + 1)..(Len(issued) + Len(cs))
      /\ (1..Len(issued)) \cup IdsIn(new) = 1..(Len(issued) + Len(cs))
      /\ IdsIn(new) \cap (1..Len(issued)) = {}
  BY <1>1, NumberedPlaces
<1>4. /\ Len(issued') = Len(issued) + Len(cs)
      /\ \A a \in 1..Len(issued) : issued'[a] = issued[a]
      /\ \A a \in (Len(issued) + 1)..(Len(issued) + Len(cs)) : issued'[a].source = source
  <2>1. /\ Len(issued') = Len(issued) + Len(cs)
        /\ \A a \in 1..Len(issued) : issued'[a] = issued[a]
        /\ \A a \in (Len(issued) + 1)..(Len(issued) + Len(cs)) :
             issued'[a] = [source |-> source, frame |-> frame, phase |-> phase]
    BY <1>1, IssueTyped DEF Free
  <2> QED BY <2>1
<1>5. \A id \in IdsIn(new) : id \notin 1..Len(issued) /\ id > Len(issued) /\ id \in Int /\ issued'[id].source = source
  BY <1>1, <1>3, <1>4
<1>6. Sent' = Sent \cup IdsIn(new)
  BY <1>1, <1>3, <1>4 DEF Sent
<1>7. Sorted(Order', new)
  <2> SUFFICES ASSUME NEW i \in DOMAIN new, NEW j \in DOMAIN new, i < j
               PROVE  <<new[i].id, new[j].id>> \in Order'
    BY DEF Sorted
  <2>1. new[i].id < new[j].id
    BY <1>1, <1>2
  <2>2. new[i].id \in IdsIn(new) /\ new[j].id \in IdsIn(new)
    BY DEF IdsIn
  <2>3. issued'[new[i].id].source = source /\ source \notin Range(Systems)
    BY <1>5, <2>2, PipelineAssumption
  <2>4. new[i].id \in 1..Len(issued') /\ new[j].id \in 1..Len(issued')
    BY <1>3, <1>4, <2>2
  <2> QED BY <2>1, <2>3, <2>4 DEF Order, InOrder, Together, IsStaged
<1> QED BY <1>2, <1>3, <1>4, <1>5, <1>6, <1>7

(* What a flush does to them. *)
LEMMA FlushMoves ==
  ASSUME PipelineInv, NEW ps \in SUBSET Phases, Flush(ps), issued' = issued
  PROVE  /\ DOMAIN buffers' = Range(Systems) /\ In(buffers') \subseteq In(buffers)
         /\ \A s \in Range(Systems) : buffers'[s] = IF SystemPhase[s] \in ps THEN <<>> ELSE buffers[s]
         /\ \A id \in Sent' \cup IdsIn(queue') :
              \/ id \in Sent
              \/ \E s \in Range(Systems) : SystemPhase[s] \in ps /\ id \in IdsIn(buffers[s])
         /\ \A id \in IdsIn(queue') :
              \/ id \in IdsIn(queue)
              \/ \E s \in Range(Systems) : SystemPhase[s] \in ps /\ id \in IdsIn(buffers[s])
         /\ \A id \in In(buffers') :
              \E s \in Range(Systems) : SystemPhase[s] \notin ps /\ id \in IdsIn(buffers[s])
         /\ IdsIn(queue') \cup In(buffers') = IdsIn(queue) \cup In(buffers)
<1>1. /\ Typed /\ Placed /\ DOMAIN buffers = Range(Systems) /\ IdsIn(queue) \subseteq Sent
  BY Whereabouts DEF PipelineInv
<1>2. /\ DOMAIN buffers' = Range(Systems)
      /\ \A s \in Range(Systems) : buffers'[s] = IF SystemPhase[s] \in ps THEN <<>> ELSE buffers[s]
  BY <1>1, FlushTyped
<1>3. /\ In(buffers') \cup IdsIn(queue') = In(buffers) \cup IdsIn(queue)
      /\ In(buffers') \cap IdsIn(queue') = {}
  BY <1>1, FlushPlaces DEF Placed
<1>4. \A id \in In(buffers') : \E s \in Range(Systems) : SystemPhase[s] \notin ps /\ id \in IdsIn(buffers[s])
  <2>1. IdsIn(<<>>) = {}
    BY DEF IdsIn
  <2>2. \A id \in In(buffers') : \E s \in Range(Systems) : id \in IdsIn(buffers'[s])
    BY <1>2 DEF In
  <2> QED BY <1>2, <2>1, <2>2
<1>5. In(buffers') \subseteq In(buffers)
  BY <1>1, <1>4 DEF In
<1>6. \A id \in In(buffers) \ In(buffers') :
        \E s \in Range(Systems) : SystemPhase[s] \in ps /\ id \in IdsIn(buffers[s])
  <2> TAKE id \in In(buffers) \ In(buffers')
  <2>1. PICK s \in Range(Systems) : id \in IdsIn(buffers[s])
    BY <1>1 DEF In
  <2>2. SystemPhase[s] \in ps
    <3>1. CASE SystemPhase[s] \notin ps
      <4>1. id \in In(buffers')
        BY <1>2, <2>1, <3>1 DEF In
      <4> QED BY <4>1
    <3> QED BY <3>1
  <2> QED BY <2>1, <2>2
<1>7. \A id \in IdsIn(queue') : id \in IdsIn(queue) \/ id \in In(buffers) \ In(buffers')
  BY <1>3
<1>8. \A id \in Sent' : id \in Sent \/ id \in In(buffers) \ In(buffers')
  BY DEF Sent
<1> QED BY <1>1, <1>2, <1>3, <1>4, <1>5, <1>6, <1>7, <1>8

(* A schedule that is over stays over, and one ends with the phase or the
   frame.                                                                  *)
LEMMA FramesGoOn ==
  ASSUME Typed, EndPhase \/ Recover
  PROVE  /\ frame' \in Int /\ frame <= frame' /\ (frame < MaxFrame /\ phase' = "update" => frame' = frame + 1)
         /\ (phase # "panicked" /\ phase # "last" => frame' = frame)
         /\ \A id \in 1..Len(issued) :
              /\ issued[id].frame < MaxFrame /\ issued[id].frame <= frame
              /\ Over(id) \/ (EndPhase /\ issued[id].phase = phase /\ phase # "post") \/ Recover
              => Over(id)'
<1>1. /\ frame \in 0..MaxFrame /\ MaxFrame \in Nat /\ issued' = issued
      /\ \A id \in 1..Len(issued) : issued[id].frame \in 0..MaxFrame
  <2>1. issued' = issued
    BY DEF EndPhase, Recover, ghostVars
  <2>2. \A id \in 1..Len(issued) : issued[id] \in Issues
    BY DEF Typed
  <2>3. \A i \in Issues : i.frame \in 0..MaxFrame
    BY DEF Issues
  <2> QED BY <2>1, <2>2, <2>3, PipelineAssumption DEF Typed
<1>2. CASE NextFrame
  BY <1>1, <1>2 DEF NextFrame, EndPhase, Recover, Over
<1>3. CASE EndPhase /\ phase = "update" /\ phase' = "post" /\ frame' = frame
  BY <1>1, <1>3 DEF Over, Recover
<1>4. CASE EndPhase /\ phase = "post" /\ phase' = "last" /\ frame' = frame
  BY <1>1, <1>4 DEF Over, Recover
<1> QED BY <1>2, <1>3, <1>4 DEF EndPhase, Recover

(* Commands keep to where their source put them: when they are issued, *)
LEMMA ProduceOrigins ==
  ASSUME PipelineInv, Origins, Produce
  PROVE  Origins'
<1>0. /\ In(buffers) \subseteq 1..Len(issued) /\ IdsIn(queue) \subseteq 1..Len(issued)
      /\ In(batches) \subseteq 1..Len(issued) /\ IdsIn(left) \subseteq 1..Len(issued)
      /\ DOMAIN buffers = Range(Systems) /\ \A s \in DOMAIN buffers : IdsIn(buffers[s]) \subseteq In(buffers)
  BY Whereabouts DEF Sent
<1>1. ASSUME NEW s \in Range(Systems), NEW c \in Stageable, Stage(s, c)
      PROVE  Origins'
  <2> DEFINE id == Len(issued) + 1
  <2>1. /\ id \notin 1..Len(issued) /\ Len(issued') = id
        /\ issued'[id] = [source |-> s, frame |-> frame, phase |-> phase]
        /\ \A a \in 1..Len(issued) : issued'[a] = issued[a]
        /\ DOMAIN buffers' = Range(Systems)
        /\ \A u \in Range(Systems) \ {s} : buffers'[u] = buffers[u]
        /\ IdsIn(buffers'[s]) = IdsIn(buffers[s]) \cup {id}
        /\ Sent' = Sent
    BY <1>1, StageMoves
  <2>2. UNCHANGED <<queue, batches, left, worker, frame, phase>>
    BY <1>1 DEF Stage, workVars, scheduleVars
  <2>3. phase = SystemPhase[s] /\ frame < MaxFrame /\ frame \in Int
    BY <1>1 DEF Stage, MayIssue, PipelineInv, Typed
  <2>4. 1..Len(issued') = (1..Len(issued)) \cup {id}
    BY <2>1, Whereabouts
  <2> HIDE DEF id
  <2>5. \A a \in IdsIn(queue) : (IsStaged(a))'
    BY <1>0, <2>1 DEF Origins, IsStaged
  <2>6. \A u \in DOMAIN buffers' : \A a \in IdsIn(buffers'[u]) : issued'[a].source = u
    BY <1>0, <2>1 DEF Origins
  <2>7. \A a \in 1..Len(issued') : (IsStaged(a))' =>
          /\ issued'[a].phase = SystemPhase[issued'[a].source]
          /\ issued'[a].frame < MaxFrame /\ issued'[a].frame <= frame'
          /\ a \in Sent' => Over(a)'
    <3>1. ASSUME NEW a \in 1..Len(issued), (IsStaged(a))'
          PROVE  /\ issued'[a].phase = SystemPhase[issued'[a].source]
                 /\ issued'[a].frame < MaxFrame /\ issued'[a].frame <= frame'
                 /\ a \in Sent' => Over(a)'
      BY <2>1, <2>2, <3>1 DEF Origins, IsStaged, Over
    <3>2. /\ issued'[id].phase = SystemPhase[issued'[id].source]
          /\ issued'[id].frame < MaxFrame /\ issued'[id].frame <= frame'
          /\ id \notin Sent'
      BY <2>1, <2>2, <2>3 DEF Sent
    <3> QED BY <2>4, <3>1, <3>2
  <2>8. /\ \A a \in In(batches) : issued'[a].source = "task"
        /\ \A a \in IdsIn(left) :
             /\ worker = "apply" => (IsStaged(a))'
             /\ worker = "playback" => issued'[a].source = "task"
             /\ worker = "edit" => issued'[a].source = "edit"
    BY <1>0, <2>1 DEF Origins, IsStaged
  <2> QED BY <2>2, <2>5, <2>6, <2>7, <2>8 DEF Origins
<1>2. ASSUME NEW cs \in Seq(Commands \cup DirectCalls), NEW source \in {"task", "edit"},
             Free, MayIssue(Len(cs)), Issue(source, Len(cs)),
             UNCHANGED <<buffers, queue, frame, phase>>,
             NEW new, new = Numbered(cs),
             In(batches') \subseteq IF source = "task" THEN In(batches) \cup IdsIn(new) ELSE In(batches),
             IF source = "task" THEN worker' = worker /\ left' = left ELSE worker' = "edit" /\ left' = new
      PROVE  Origins'
  <2>1. /\ \A a \in 1..Len(issued) : issued'[a] = issued[a]
        /\ \A id \in IdsIn(new) :
             id \notin 1..Len(issued) /\ id > Len(issued) /\ id \in Int /\ issued'[id].source = source
        /\ 1..Len(issued') = (1..Len(issued)) \cup IdsIn(new)
        /\ Sent' = Sent \cup IdsIn(new)
    BY <1>2, IssueMoves
  <2>2. source \notin Range(Systems)
    BY PipelineAssumption
  <2>3. \A s \in DOMAIN buffers' : \A a \in IdsIn(buffers'[s]) : issued'[a].source = s
    BY <1>0, <1>2, <2>1 DEF Origins
  <2>4. \A a \in IdsIn(queue') : (IsStaged(a))'
    BY <1>0, <1>2, <2>1 DEF Origins, IsStaged
  <2>5. \A a \in In(batches') : issued'[a].source = "task"
    BY <1>0, <1>2, <2>1 DEF Origins
  <2>6. \A a \in IdsIn(left') :
          /\ worker' = "apply" => (IsStaged(a))'
          /\ worker' = "playback" => issued'[a].source = "task"
          /\ worker' = "edit" => issued'[a].source = "edit"
    <3>1. CASE source = "task"
      BY <1>0, <1>2, <2>1, <3>1 DEF Origins, IsStaged
    <3>2. CASE source = "edit"
      BY <1>2, <2>1, <3>2
    <3> QED BY <3>1, <3>2
  <2>7. \A a \in 1..Len(issued') : (IsStaged(a))' =>
          /\ issued'[a].phase = SystemPhase[issued'[a].source]
          /\ issued'[a].frame < MaxFrame /\ issued'[a].frame <= frame'
          /\ a \in Sent' => Over(a)'
    <3>1. ASSUME NEW a \in 1..Len(issued'), (IsStaged(a))'
          PROVE  a \in 1..Len(issued) /\ issued'[a] = issued[a] /\ IsStaged(a) /\ (a \in Sent' => a \in Sent)
      BY <2>1, <2>2, <3>1 DEF IsStaged
    <3> QED BY <1>2, <3>1 DEF Origins, Over
  <2> QED BY <2>3, <2>4, <2>5, <2>6, <2>7 DEF Origins
<1>3. ASSUME NEW b \in BatchGroups, Enqueue(b)
      PROVE  Origins'
  <2>1. b \in Seq(Commands \cup DirectCalls)
    <3>1. b \in Seq(Commands)
      BY PipelineAssumption
    <3> QED BY <3>1
  <2>2. In(batches') \subseteq In(batches) \cup IdsIn(Numbered(b))
    <3> DEFINE last == Len(batches) + 1
               new == Numbered(b)
    <3>1. new \in Seq(Items) /\ batches \in Seq(Seq(Items)) /\ batches' = Append(batches, new)
      BY <1>3, <2>1, NumberedTyped DEF Enqueue, PipelineInv, Typed
    <3> HIDE DEF new, Items
    <3>2. /\ DOMAIN batches' = DOMAIN batches \cup {last}
          /\ batches'[last] = new /\ \A n \in DOMAIN batches : batches'[n] = batches[n]
      BY <3>1
    <3> QED BY <3>2 DEF In, new
  <2> QED BY <1>2, <1>3, <2>1, <2>2 DEF Enqueue, workVars, scheduleVars
<1>4. ASSUME NEW cs \in EditChains, Edit(cs)
      PROVE  Origins'
  <2>1. cs \in Seq(Commands \cup DirectCalls)
    BY PipelineAssumption
  <2> QED BY <1>2, <1>4, <2>1 DEF Edit, Begin, waitingVars, scheduleVars
<1> QED BY <1>1, <1>3, <1>4 DEF Produce

(* What popping a batch does to the places, *)
LEMMA PopMoves ==
  ASSUME PipelineInv, PopBatch
  PROVE  /\ 1 \in DOMAIN batches /\ left' = batches[1] /\ left' \in Seq(Items)
         /\ \A n \in DOMAIN batches' : n \in Int /\ n >= 1 /\ n + 1 \in DOMAIN batches /\ batches'[n] = batches[n + 1]
         /\ In(batches') \subseteq In(batches) /\ IdsIn(left') \subseteq In(batches)
         /\ TakenIds' = TakenIds \cup IdsIn(left')
         /\ worker = "playback" /\ Sent' = Sent
         /\ UNCHANGED <<buffers, queue, worker, frame, phase, todo, issued, done, drained, interrupted>>
<1>1. /\ Typed /\ Placed /\ batches # <<>> /\ batches' = Tail(batches) /\ left' = Head(batches)
      /\ Take(Head(batches)) /\ worker = "playback"
      /\ UNCHANGED <<buffers, queue, worker, frame, phase, todo, issued, done, drained, interrupted>>
  BY DEF PopBatch, MoreBatches, PipelineInv, scheduleVars
<1>2. /\ left' \in Seq(Items) /\ left' = batches[1] /\ 1 \in DOMAIN batches
      /\ \A n \in DOMAIN batches' : n \in Int /\ n >= 1 /\ n + 1 \in DOMAIN batches /\ batches'[n] = batches[n + 1]
  <2>1. batches \in Seq(Seq(Items))
    BY <1>1 DEF Typed
  <2> HIDE DEF Items
  <2> QED BY <1>1, <2>1
<1>3. In(batches') \subseteq In(batches) /\ IdsIn(left') \subseteq In(batches)
  BY <1>2 DEF In
<1>4. TakenIds' = TakenIds \cup IdsIn(left')
  <2>1. IdsIn(Head(batches)) \cap TakenIds = {} /\ Distinct(Head(batches)) /\ TakenOnce
    BY <1>1, <1>2, <1>3, ApartMeans DEF Placed
  <2>2. takes' = Append(takes, Ids(Head(batches))) \/ (Head(batches) = <<>> /\ takes' = takes)
    BY <1>1 DEF Take
  <2>3. Head(batches) \in Seq(Items)
    BY <1>1, <1>2
  <2>4. TakenIds' = TakenIds \cup IdsIn(Head(batches))
    BY <1>1, <2>1, <2>2, <2>3, TakePlaces
  <2> QED BY <1>1, <2>4
<1> QED BY <1>1, <1>2, <1>3, <1>4 DEF Sent

(* ... draining the queue, *)
LEMMA DrainMoves ==
  ASSUME PipelineInv, ApplySemanticCommands
  PROVE  /\ left' = queue /\ queue \in Seq(Items) /\ DOMAIN queue' = {} /\ IdsIn(queue') = {}
         /\ TakenIds' = TakenIds \cup IdsIn(queue)
         /\ worker' = "apply" /\ Sent' = Sent /\ drained' = drained \cup {frame}
         /\ "apply" \in todo /\ todo' = todo \ {"apply"} /\ phase # "panicked"
         /\ UNCHANGED <<buffers, batches, frame, phase, issued, done, interrupted>>
<1>1. /\ Typed /\ Placed /\ left' = queue /\ Take(queue) /\ worker' = "apply"
      /\ queue' = SubSeq(queue, Len(queue) + 1, Len(queue)) /\ drained' = drained \cup {frame}
      /\ "apply" \in todo /\ todo' = todo \ {"apply"} /\ phase # "panicked"
      /\ UNCHANGED <<buffers, batches, frame, phase, issued, done, interrupted>>
  BY DEF ApplySemanticCommands, Drained, Undrained, Begin, Free, PipelineInv
<1>2. queue \in Seq(Items)
  BY <1>1 DEF Typed
<1>3. DOMAIN queue' = {}
  <2> HIDE DEF Items
  <2> QED BY <1>1, <1>2
<1>4. IdsIn(queue') = {}
  BY <1>3 DEF IdsIn
<1>5. TakenIds' = TakenIds \cup IdsIn(queue)
  <2>1. takes' = Append(takes, Ids(queue)) \/ (queue = <<>> /\ takes' = takes)
    BY <1>1 DEF Take
  <2> QED BY <1>1, <1>2, <2>1, TakePlaces DEF Placed
<1> QED BY <1>1, <1>2, <1>3, <1>4, <1>5 DEF Sent

(* ... making a call, *)
LEMMA CallMoves ==
  ASSUME PipelineInv, ApplyCommand \/ EditCall
  PROVE  /\ left # <<>> /\ worker \in {"apply", "playback", "edit"}
         /\ \/ done' = done /\ (left' = left \/ left' = Tail(left))
            \/ /\ done' = Append(done, [id |-> Head(left).id, verdict |-> outcome', frame |-> frame, phase |-> phase])
               /\ left' = Tail(left) \/ left' = <<>>
         /\ UNCHANGED <<buffers, queue, batches, worker, frame, phase, todo, issued, takes, drained, interrupted>>
<1>1. CASE ApplyCommand
  BY <1>1 DEF ApplyCommand, AfterCommand, Record, waitingVars, scheduleVars
<1>2. CASE EditCall
  BY <1>2 DEF EditCall, Record, waitingVars, scheduleVars
<1> QED BY <1>1, <1>2

(* ... giving Semantics back or beginning a playback, *)
LEMMA TurnMoves ==
  ASSUME PipelineInv, EditEnd \/ ApplyEnd \/ PlaybackEnd \/ Playback
  PROVE  /\ left' = left \/ left' = <<>>
         /\ worker' = "none" \/ (worker' = "playback" /\ left' = <<>>)
         /\ todo' \subseteq todo /\ phase # "panicked"
         /\ \/ phase' = phase /\ interrupted' = interrupted
            \/ phase' = "panicked" /\ interrupted' = interrupted \cup {frame}
         /\ UNCHANGED <<buffers, queue, batches, frame, issued, takes, done, drained>>
<1>1. worker # "none" => phase # "panicked"
  BY DEF PipelineInv, HandsClean
<1>2. CASE EditEnd
  BY <1>1, <1>2 DEF EditEnd, Panic, NoPanic, waitingVars
<1>3. CASE ApplyEnd
  BY <1>1, <1>3 DEF ApplyEnd, Panic, NoPanic, waitingVars
<1>4. CASE PlaybackEnd
  BY <1>1, <1>4 DEF PlaybackEnd, AfterPlayback, scheduleVars, ghostVars
<1>5. CASE Playback
  BY <1>5 DEF Playback, Begin, Free, waitingVars
<1> QED BY <1>2, <1>3, <1>4, <1>5

(* ... and ending a schedule. *)
LEMMA FrameMoves ==
  ASSUME PipelineInv, EndPhase \/ Recover
  PROVE  /\ worker = "none" /\ left = <<>>
         /\ UNCHANGED <<worker, left, batches, issued, takes, done, drained, interrupted>>
         /\ \/ \E ps \in SUBSET Phases : Flush(ps) /\ (ps = {phase} \/ Recover)
            \/ Recover /\ UNCHANGED <<queue, buffers>>
<1>1. /\ Typed /\ (worker # "none" => phase # "panicked") /\ (worker = "none" => left = <<>>)
  BY DEF PipelineInv, HandsClean
<1>2. CASE EndPhase
  <2>1. {phase} \in SUBSET Phases
    BY <1>1, <1>2 DEF EndPhase, Free, Typed
  <2> QED BY <1>1, <1>2, <2>1 DEF EndPhase, Free, workVars, ghostVars
<1>3. CASE Recover
  BY <1>1, <1>3 DEF Recover, workVars, ghostVars
<1> QED BY <1>2, <1>3

(* ... when they are taken up, applied or flushed. *)
LEMMA RunOrigins ==
  ASSUME PipelineInv, Origins, Run \/ UNCHANGED pipelineVars
  PROVE  Origins'
<1>1. CASE PopBatch
  <2>1. /\ IdsIn(left') \subseteq In(batches) /\ In(batches') \subseteq In(batches)
        /\ worker = "playback" /\ Sent' = Sent
        /\ UNCHANGED <<buffers, queue, worker, frame, phase, issued>>
    BY <1>1, PopMoves
  <2> QED BY <2>1 DEF Origins, IsStaged, Over
<1>2. CASE ApplySemanticCommands
  <2>1. /\ left' = queue /\ IdsIn(queue') = {} /\ worker' = "apply" /\ Sent' = Sent
        /\ UNCHANGED <<buffers, batches, frame, phase, issued>>
    BY <1>2, DrainMoves
  <2> QED BY <2>1 DEF Origins, IsStaged, Over
<1>3. CASE ApplyCommand \/ EditCall
  <2>1. /\ left # <<>> /\ left' \in {left, Tail(left), <<>>}
        /\ UNCHANGED <<buffers, queue, batches, worker, frame, phase, issued>>
    BY <1>3, CallMoves
  <2>2. IdsIn(left') \subseteq IdsIn(left)
    <3>1. IdsIn(Tail(left)) \subseteq IdsIn(left)
      BY <2>1, HandTyped DEF IdsIn, PipelineInv
    <3>2. IdsIn(<<>>) = {}
      BY DEF IdsIn
    <3> QED BY <2>1, <3>1, <3>2
  <2> QED BY <2>1, <2>2 DEF Origins, IsStaged, Over, Sent
<1>4. CASE EditEnd \/ ApplyEnd \/ PlaybackEnd \/ Playback
  <2>1. /\ worker' = "none" \/ (worker' = "playback" /\ left' = <<>>)
        /\ phase' = phase \/ phase' = "panicked"
        /\ UNCHANGED <<buffers, queue, batches, frame, issued>>
    BY <1>4, TurnMoves
  <2>2. IdsIn(<<>>) = {}
    BY DEF IdsIn
  <2> QED BY <2>1, <2>2 DEF Origins, IsStaged, Over, Sent
<1>5. CASE EndPhase \/ Recover
  <2>1. /\ worker' = "none" /\ UNCHANGED <<batches, issued>> /\ Typed
    BY <1>5, FrameMoves DEF PipelineInv
  <2>2. /\ DOMAIN buffers = Range(Systems) /\ \A s \in DOMAIN buffers : IdsIn(buffers[s]) \subseteq In(buffers)
        /\ \A s \in Range(Systems) : SystemPhase[s] # "post"
    BY Whereabouts, PipelineAssumption
  <2>3. \A id \in 1..Len(issued) :
          /\ issued[id].frame < MaxFrame /\ issued[id].frame <= frame
          /\ Over(id) \/ (EndPhase /\ issued[id].phase = phase /\ phase # "post") \/ Recover
          => Over(id)'
    BY <1>5, <2>1, FramesGoOn
  <2>4. frame' \in Int /\ frame <= frame' /\ frame \in Int /\ \A id \in 1..Len(issued) : issued[id].frame \in Int
    <3>1. \A id \in 1..Len(issued) : issued[id] \in Issues
      BY <2>1 DEF Typed
    <3>2. \A i \in Issues : i.frame \in Int
      BY DEF Issues
    <3>3. frame \in Int
      BY <2>1, PipelineAssumption DEF Typed
    <3> QED BY <1>5, <2>1, <3>1, <3>2, <3>3, FramesGoOn
  <2>5. CASE \E ps \in SUBSET Phases : Flush(ps) /\ (ps = {phase} \/ Recover)
    <3>1. PICK ps \in SUBSET Phases : Flush(ps) /\ (ps = {phase} \/ Recover)
      BY <2>5
    <3>2. /\ DOMAIN buffers' = Range(Systems)
          /\ \A s \in Range(Systems) : buffers'[s] = IF SystemPhase[s] \in ps THEN <<>> ELSE buffers[s]
          /\ \A id \in Sent' \cup IdsIn(queue') :
               id \in Sent \/ \E s \in Range(Systems) : SystemPhase[s] \in ps /\ id \in IdsIn(buffers[s])
          /\ \A id \in IdsIn(queue') :
               id \in IdsIn(queue) \/ \E s \in Range(Systems) : SystemPhase[s] \in ps /\ id \in IdsIn(buffers[s])
      BY <2>1, <3>1, FlushMoves
    <3>3. \A s \in DOMAIN buffers' : \A id \in IdsIn(buffers'[s]) : issued[id].source = s
      <4>1. IdsIn(<<>>) = {}
        BY DEF IdsIn
      <4> QED BY <2>2, <3>2, <4>1 DEF Origins
    <3>4. \A id \in IdsIn(queue') : IsStaged(id)
      BY <2>2, <3>2 DEF Origins, IsStaged
    <3>5. ASSUME NEW id \in 1..Len(issued), IsStaged(id), id \in Sent'
          PROVE  Over(id)'
      <4>1. /\ issued[id].phase = SystemPhase[issued[id].source]
            /\ issued[id].frame < MaxFrame /\ issued[id].frame <= frame
            /\ id \in Sent => Over(id)
        BY <3>5 DEF Origins
      <4>2. CASE id \in Sent
        BY <2>3, <4>1, <4>2
      <4>3. CASE \E s \in Range(Systems) : SystemPhase[s] \in ps /\ id \in IdsIn(buffers[s])
        <5>1. PICK s \in Range(Systems) : SystemPhase[s] \in ps /\ id \in IdsIn(buffers[s])
          BY <4>3
        <5>2. issued[id].source = s
          BY <2>2, <5>1 DEF Origins
        <5>3. Recover \/ (EndPhase /\ issued[id].phase = phase /\ phase # "post")
          BY <1>5, <2>2, <3>1, <4>1, <5>1, <5>2
        <5> QED BY <2>3, <4>1, <5>3
      <4> QED BY <3>2, <3>5, <4>2, <4>3
    <3>6. \A id \in 1..Len(issued) : IsStaged(id) =>
            /\ issued[id].phase = SystemPhase[issued[id].source]
            /\ issued[id].frame < MaxFrame /\ issued[id].frame <= frame'
      BY <2>4 DEF Origins
    <3>7. \A id \in IdsIn(left') : worker' = "none"
      BY <2>1
    <3> QED BY <2>1, <3>3, <3>4, <3>5, <3>6, <3>7 DEF Origins, IsStaged
  <2>6. CASE Recover /\ UNCHANGED <<queue, buffers>>
    <3>1. Sent' = Sent
      BY <2>1, <2>6 DEF Sent
    <3> QED BY <2>1, <2>3, <2>4, <2>6, <3>1 DEF Origins, IsStaged
  <2> QED BY <1>5, <2>5, <2>6, FrameMoves
<1>6. CASE UNCHANGED pipelineVars
  BY <1>6 DEF pipelineVars, scheduleVars, waitingVars, workVars, ghostVars, Origins, IsStaged, Over, Sent
<1> QED BY <1>1, <1>2, <1>3, <1>4, <1>5, <1>6 DEF Run

(* Relating sets piece by piece. *)
LEMMA FewerPairs ==
  ASSUME NEW R, NEW C, NEW D, C \X D \subseteq R, NEW A, A \subseteq C, NEW B, B \subseteq D
  PROVE  A \X B \subseteq R
OBVIOUS

LEMMA MorePairs ==
  ASSUME NEW R, NEW A, NEW B, NEW C, NEW D, C \subseteq A \cup B
  PROVE  /\ A \X D \subseteq R /\ B \X D \subseteq R => C \X D \subseteq R
         /\ D \X A \subseteq R /\ D \X B \subseteq R => D \X C \subseteq R
OBVIOUS

(* The order is kept: when commands are issued, *)
LEMMA ProduceOrdering ==
  ASSUME PipelineInv, Origins, Ordering, Produce
  PROVE  Ordering'
<1>0. /\ In(buffers) \subseteq 1..Len(issued) /\ Len(issued) \in Nat
      /\ IdsIn(queue) \subseteq Sent /\ In(batches) \subseteq Sent
      /\ TakenIds \subseteq Sent /\ DoneIds \subseteq TakenIds /\ Sent \subseteq 1..Len(issued)
      /\ DOMAIN buffers = Range(Systems) /\ \A s \in DOMAIN buffers : IdsIn(buffers[s]) \subseteq In(buffers)
  BY Whereabouts DEF Sent
<1>1. ASSUME NEW s \in Range(Systems), NEW c \in Stageable, Stage(s, c)
      PROVE  Ordering'
  <2> DEFINE new == Numbered(<<c>>)
  <2> SUFFICES ASSUME NEW id, id = Len(issued) + 1 PROVE Ordering'
    OBVIOUS
  <2>1. /\ id \notin 1..Len(issued) /\ Len(issued') = id
        /\ issued'[id] = [source |-> s, frame |-> frame, phase |-> phase]
        /\ \A a \in 1..Len(issued) : issued'[a] = issued[a]
        /\ new \in Seq(Items) /\ IdsIn(new) = {id} /\ Sorted({}, new)
        /\ DOMAIN buffers' = Range(Systems) /\ buffers'[s] = buffers[s] \o new
        /\ \A u \in Range(Systems) \ {s} : buffers'[u] = buffers[u]
        /\ In(buffers') = In(buffers) \cup {id} /\ Sent' = Sent
    BY <1>1, StageMoves
  <2>2. UNCHANGED <<queue, batches, left, takes, done>>
    BY <1>1 DEF Stage, workVars
  <2>3. \A a \in 1..Len(issued) : a < id /\ a \in 1..Len(issued')
    BY <1>0, <2>1
  <2>4. id \in 1..Len(issued')
    BY <1>0, <2>1
  <2>5. Order \subseteq Order'
    BY <1>0, <2>1, <2>3, OrderGrows
  <2> HIDE DEF new
  <2>6. TakenIds' = TakenIds /\ DoneIds' = DoneIds
    BY <2>2 DEF TakenIds, DoneIds
  <2>7. Sorted(Order', buffers'[s])
    <3>1. buffers[s] \in Seq(Items) /\ Sorted(Order, buffers[s])
      BY <1>0 DEF PipelineInv, Typed, Ordering
    <3>2. ASSUME NEW a \in IdsIn(buffers[s]) PROVE <<a, id>> \in Order'
      <4>1. a \in 1..Len(issued) /\ issued'[a].source = s /\ issued'[id].source = s
        BY <1>0, <2>1, <3>2 DEF Origins
      <4>2. PlaceOf(s) \in Int
        BY PipelineAssumption DEF PlaceOf, Range
      <4>3. InOrder(a, id)'
        BY <2>3, <4>1, <4>2 DEF InOrder
      <4> QED BY <2>3, <2>4, <4>1, <4>3 DEF Order
    <3>3. Sorted(Order', buffers[s]) /\ Sorted(Order', new)
      BY <2>1, <2>5, <3>1, SortedMore
    <3>4. IdsIn(buffers[s]) \X IdsIn(new) \subseteq Order'
      BY <2>1, <3>2
    <3> QED BY <2>1, <3>1, <3>3, <3>4, ConcatSorted
  <2>8. \A u \in DOMAIN buffers' : Sorted(Order', buffers'[u])
    BY <1>0, <2>1, <2>5, <2>7, SortedMore DEF Ordering
  <2>9. Sent' \X In(buffers') \subseteq Order'
    <3>1. ASSUME NEW a \in Sent PROVE <<a, id>> \in Order'
      <4>1. a \in 1..Len(issued) /\ issued'[a] = issued[a]
        BY <1>0, <2>1
      <4>2. IsStaged(a) => Over(a)
        BY <4>1 DEF Origins
      <4>3. frame \in Int
        BY PipelineAssumption DEF PipelineInv, Typed
      <4>4. ~(IsStaged(a) /\ issued[a].frame = frame /\ issued[a].phase = phase)
        BY <4>2, <4>3 DEF Over
      <4>5. InOrder(a, id)'
        BY <2>1, <2>3, <4>1, <4>4 DEF InOrder, Together, IsStaged
      <4> QED BY <2>3, <2>4, <4>1, <4>5 DEF Order
    <3> QED BY <2>1, <2>5, <3>1 DEF Ordering
  <2>10. /\ Sorted(Order', done) /\ Sorted(Order', left) /\ Sorted(Order', queue)
         /\ \A n \in DOMAIN batches : Sorted(Order', batches[n])
    BY <2>5, SortedMore DEF Ordering
  <2> QED BY <2>2, <2>5, <2>6, <2>8, <2>9, <2>10 DEF Ordering
<1>2. ASSUME NEW cs \in Seq(Commands \cup DirectCalls), NEW source \in {"task", "edit"},
             Free, MayIssue(Len(cs)), Issue(source, Len(cs)), UNCHANGED <<buffers, queue, done>>,
             NEW new, new = Numbered(cs)
      PROVE  /\ Order \subseteq Order' /\ Sorted(Order', new)
             /\ (Sent \cup In(buffers)) \X IdsIn(new) \subseteq Order'
             /\ IdsIn(new) \X {a \in Sent \cup In(buffers) : issued[a].source # source} \subseteq Order'
             /\ Sorted(Order', done) /\ Sorted(Order', queue) /\ DoneIds' = DoneIds
             /\ \A n \in DOMAIN batches : Sorted(Order', batches[n])
             /\ \A s \in DOMAIN buffers' : Sorted(Order', buffers'[s])
             /\ Sent' \X In(buffers') \subseteq Order'
  <2>1. /\ \A a \in 1..Len(issued) : issued'[a] = issued[a]
        /\ new \in Seq(Items) /\ Sorted(Order', new)
        /\ \A id \in IdsIn(new) :
             id \notin 1..Len(issued) /\ id > Len(issued) /\ id \in Int /\ issued'[id].source = source
        /\ 1..Len(issued') = (1..Len(issued)) \cup IdsIn(new)
        /\ Sent' = Sent \cup IdsIn(new)
    BY <1>2, IssueMoves
  <2>2. source \notin Range(Systems)
    BY PipelineAssumption
  <2>3. Order \subseteq Order'
    BY <1>0, <2>1, OrderGrows
  <2>4. ASSUME NEW a \in Sent \cup In(buffers), NEW b \in IdsIn(new)
        PROVE  <<a, b>> \in Order' /\ (issued[a].source # source => <<b, a>> \in Order')
    <3>0. a \in 1..Len(issued)
      BY <1>0
    <3>1. a < b /\ issued'[b].source = source /\ ~(IsStaged(b))' /\ issued'[a] = issued[a]
      BY <1>0, <2>1, <2>2, <3>0 DEF IsStaged
    <3>2. InOrder(a, b)' /\ (issued[a].source # source => InOrder(b, a)')
      BY <3>1 DEF InOrder, Together
    <3> QED BY <2>1, <3>0, <3>2 DEF Order
  <2>5. Sent' \X In(buffers') \subseteq Order'
    <3>1. \A a \in In(buffers) : issued[a].source # source
      BY <1>0, <2>2 DEF Origins, In
    <3>2. IdsIn(new) \X In(buffers) \subseteq Order'
      <4> SUFFICES ASSUME NEW b \in IdsIn(new), NEW a \in In(buffers) PROVE <<b, a>> \in Order'
        OBVIOUS
      <4> QED BY <2>4, <3>1
    <3>3. Sent \X In(buffers) \subseteq Order'
      BY <2>3 DEF Ordering
    <3>4. In(buffers') = In(buffers)
      BY <1>2
    <3> QED BY <2>1, <3>2, <3>3, <3>4, MorePairs
  <2>6. /\ Sorted(Order', done) /\ Sorted(Order', queue)
        /\ \A n \in DOMAIN batches : Sorted(Order', batches[n])
        /\ \A s \in DOMAIN buffers' : Sorted(Order', buffers'[s])
    BY <1>2, <2>3, SortedMore DEF Ordering
  <2>7. DoneIds' = DoneIds
    BY <1>2 DEF DoneIds
  <2>8. (Sent \cup In(buffers)) \X IdsIn(new) \subseteq Order'
    <3> SUFFICES ASSUME NEW a \in Sent \cup In(buffers), NEW b \in IdsIn(new) PROVE <<a, b>> \in Order'
      OBVIOUS
    <3> QED BY <2>4
  <2>9. IdsIn(new) \X {a \in Sent \cup In(buffers) : issued[a].source # source} \subseteq Order'
    <3> SUFFICES ASSUME NEW b \in IdsIn(new), NEW a \in Sent \cup In(buffers), issued[a].source # source
                 PROVE  <<b, a>> \in Order'
      OBVIOUS
    <3> QED BY <2>4
  <2> QED BY <2>1, <2>3, <2>5, <2>6, <2>7, <2>8, <2>9
<1>3. ASSUME NEW b \in BatchGroups, Enqueue(b)
      PROVE  Ordering'
  <2> DEFINE new == Numbered(b)
             last == Len(batches) + 1
  <2>1. b \in Seq(Commands \cup DirectCalls)
    <3>1. b \in Seq(Commands)
      BY PipelineAssumption
    <3> QED BY <3>1
  <2>2. /\ Order \subseteq Order' /\ Sorted(Order', new)
        /\ (Sent \cup In(buffers)) \X IdsIn(new) \subseteq Order'
        /\ Sorted(Order', done) /\ Sorted(Order', queue) /\ DoneIds' = DoneIds
        /\ \A n \in DOMAIN batches : Sorted(Order', batches[n])
        /\ \A s \in DOMAIN buffers' : Sorted(Order', buffers'[s])
        /\ Sent' \X In(buffers') \subseteq Order'
    BY <1>2, <1>3, <2>1 DEF Enqueue
  <2>3. UNCHANGED <<queue, left, takes, done>>
    BY <1>3 DEF Enqueue, workVars
  <2>4. new \in Seq(Items) /\ batches \in Seq(Seq(Items)) /\ batches' = Append(batches, new)
    BY <1>3, <2>1, NumberedTyped DEF Enqueue, PipelineInv, Typed
  <2> HIDE DEF new, Items
  <2>5. /\ DOMAIN batches' = DOMAIN batches \cup {last} /\ \A n \in DOMAIN batches : n \in Int /\ n < last
        /\ batches'[last] = new /\ \A n \in DOMAIN batches : batches'[n] = batches[n]
        /\ last \in Int
    BY <2>4
  <2> HIDE DEF last
  <2>6. In(batches') \subseteq In(batches) \cup IdsIn(new)
    BY <2>5 DEF In
  <2>7. TakenIds' = TakenIds /\ TakenIds' \X In(batches') \subseteq Order'
    <3>1. TakenIds' = TakenIds
      BY <2>3 DEF TakenIds
    <3>2. TakenIds \X In(batches) \subseteq Order'
      BY <2>2 DEF Ordering
    <3>3. TakenIds \X IdsIn(new) \subseteq Order'
      BY <1>0, <2>2, FewerPairs
    <3> QED BY <2>6, <3>1, <3>2, <3>3, MorePairs
  <2>8. \A n \in DOMAIN batches' : Sorted(Order', batches'[n])
    BY <2>2, <2>5
  <2>9. ASSUME NEW n \in DOMAIN batches', NEW m \in DOMAIN batches', n < m
        PROVE  IdsIn(batches'[n]) \X IdsIn(batches'[m]) \subseteq Order'
    <3>1. n \in DOMAIN batches
      BY <2>5, <2>9
    <3>2. CASE m \in DOMAIN batches
      BY <2>2, <2>5, <2>9, <3>1, <3>2 DEF Ordering
    <3>3. CASE m = last
      <4>1. IdsIn(batches[n]) \subseteq Sent
        BY <1>0, <3>1 DEF In
      <4>2. IdsIn(batches[n]) \X IdsIn(new) \subseteq Order'
        BY <2>2, <4>1, FewerPairs
      <4> QED BY <2>5, <3>1, <3>3, <4>2
    <3> QED BY <2>5, <3>2, <3>3
  <2>10. Sorted(Order', left)
    BY <2>2, SortedMore DEF Ordering
  <2> QED BY <2>2, <2>3, <2>7, <2>8, <2>9, <2>10 DEF Ordering
<1>4. ASSUME NEW cs \in EditChains, Edit(cs)
      PROVE  Ordering'
  <2> DEFINE new == Numbered(cs)
  <2>1. cs \in Seq(Commands \cup DirectCalls)
    BY PipelineAssumption
  <2>2. /\ Order \subseteq Order' /\ Sorted(Order', new)
        /\ (Sent \cup In(buffers)) \X IdsIn(new) \subseteq Order'
        /\ IdsIn(new) \X {a \in Sent \cup In(buffers) : issued[a].source # "edit"} \subseteq Order'
        /\ Sorted(Order', done) /\ Sorted(Order', queue) /\ DoneIds' = DoneIds
        /\ \A n \in DOMAIN batches : Sorted(Order', batches[n])
        /\ \A s \in DOMAIN buffers' : Sorted(Order', buffers'[s])
        /\ Sent' \X In(buffers') \subseteq Order'
    BY <1>2, <1>4, <2>1 DEF Edit, waitingVars
  <2>3. UNCHANGED <<queue, batches, done>> /\ left' = new /\ takes' = Append(takes, Ids(new))
    BY <1>4 DEF Edit, Begin, waitingVars
  <2>4. TakenIds' = TakenIds \cup IdsIn(new)
    <3>1. new \in Seq(Items) /\ Distinct(new) /\ IdsIn(new) \cap TakenIds = {}
      BY <1>0, <2>1, NumberedTyped, NumberedPlaces DEF PipelineInv
    <3> HIDE DEF new
    <3> QED BY <2>3, <3>1, TakePlaces DEF PipelineInv, Placed
  <2> HIDE DEF new
  <2>5. IdsIn(queue) \cup In(batches) \subseteq {a \in Sent \cup In(buffers) : issued[a].source # "edit"}
    BY <1>0, PipelineAssumption DEF Origins, IsStaged
  <2>6. TakenIds' \X IdsIn(queue) \subseteq Order' /\ TakenIds' \X In(batches) \subseteq Order'
    <3>1. IdsIn(new) \X IdsIn(queue) \subseteq Order' /\ IdsIn(new) \X In(batches) \subseteq Order'
      <4>1. /\ IdsIn(queue) \subseteq {a \in Sent \cup In(buffers) : issued[a].source # "edit"}
            /\ In(batches) \subseteq {a \in Sent \cup In(buffers) : issued[a].source # "edit"}
        BY <2>5
      <4> QED BY <2>2, <4>1, FewerPairs
    <3>2. TakenIds \X IdsIn(queue) \subseteq Order' /\ TakenIds \X In(batches) \subseteq Order'
      BY <2>2 DEF Ordering
    <3> QED BY <2>4, <3>1, <3>2, MorePairs
  <2>7. DoneIds' \X IdsIn(left') \subseteq Order'
    <3>1. DoneIds \X IdsIn(new) \subseteq Order'
      <4>1. DoneIds \subseteq Sent \cup In(buffers)
        BY <1>0
      <4> QED BY <2>2, <4>1, FewerPairs
    <3>2. left' = new /\ DoneIds' = DoneIds
      BY <2>2, <2>3
    <3> QED BY <3>1, <3>2
  <2>8. \A n, m \in DOMAIN batches : n < m => IdsIn(batches[n]) \X IdsIn(batches[m]) \subseteq Order'
    BY <2>2 DEF Ordering
  <2> QED BY <2>2, <2>3, <2>6, <2>7, <2>8 DEF Ordering
<1> QED BY <1>1, <1>3, <1>4 DEF Produce

(* What an empty sequence holds. *)
LEMMA NothingSorted == ASSUME NEW R PROVE IdsIn(<<>>) = {} /\ Sorted(R, <<>>)
BY DEF IdsIn, Sorted

(* The order only looks at what was issued. *)
LEMMA SameOrder == ASSUME issued' = issued PROVE Order' = Order
BY DEF Order, InOrder, Together, IsStaged

(* Tasks and chains are unrelated to what was staged. *)
LEMMA TasksApart ==
  ASSUME PipelineInv, Origins, NEW A, A \subseteq In(batches), NEW B, B \subseteq IdsIn(queue)
  PROVE  A \X B \subseteq Order /\ B \X A \subseteq Order
<1>1. ASSUME NEW a \in A, NEW b \in B
      PROVE  <<a, b>> \in Order /\ <<b, a>> \in Order
  <2>1. a \in 1..Len(issued) /\ b \in 1..Len(issued)
    BY Whereabouts DEF Sent
  <2>2. issued[a].source = "task" /\ IsStaged(b) /\ ~IsStaged(a)
    BY PipelineAssumption DEF Origins, IsStaged
  <2>3. issued[a].source # issued[b].source
    BY <2>2 DEF IsStaged
  <2> QED BY <2>1, <2>2, <2>3, Unrelated
<1>2. A \X B \subseteq Order
  <2> SUFFICES ASSUME NEW a \in A, NEW b \in B PROVE <<a, b>> \in Order
    OBVIOUS
  <2> QED BY <1>1
<1>3. B \X A \subseteq Order
  <2> SUFFICES ASSUME NEW b \in B, NEW a \in A PROVE <<b, a>> \in Order
    OBVIOUS
  <2> QED BY <1>1
<1> QED BY <1>2, <1>3

(* What was staged in Update is before what was staged in Last. *)
LEMMA SchedulesApart ==
  ASSUME PipelineInv, Origins, NEW p, NEW a, NEW b,
         \E s \in Range(Systems) : SystemPhase[s] \in p /\ a \in IdsIn(buffers[s]),
         \E s \in Range(Systems) : SystemPhase[s] \notin p /\ b \in IdsIn(buffers[s])
  PROVE  <<a, b>> \in Order
<1>1. PICK s \in Range(Systems) : SystemPhase[s] \in p /\ a \in IdsIn(buffers[s])
  OBVIOUS
<1>2. PICK u \in Range(Systems) : SystemPhase[u] \notin p /\ b \in IdsIn(buffers[u])
  OBVIOUS
<1>3. /\ DOMAIN buffers = Range(Systems) /\ In(buffers) \subseteq 1..Len(issued)
      /\ \A v \in DOMAIN buffers : IdsIn(buffers[v]) \subseteq In(buffers)
  BY Whereabouts
<1>4. a \in 1..Len(issued) /\ b \in 1..Len(issued) /\ issued[a].source = s /\ issued[b].source = u
  BY <1>1, <1>2, <1>3 DEF Origins
<1>5. issued[a].phase = SystemPhase[s] /\ issued[b].phase = SystemPhase[u]
  BY <1>4 DEF Origins, IsStaged
<1>6. InOrder(a, b)
  BY <1>1, <1>2, <1>4, <1>5 DEF InOrder, Together
<1> QED BY <1>4, <1>6 DEF Order

(* ... when a batch is popped, *)
LEMMA PopOrdering ==
  ASSUME PipelineInv, Origins, Ordering, PopBatch
  PROVE  Ordering'
<1>1. /\ 1 \in DOMAIN batches /\ left' = batches[1]
      /\ \A n \in DOMAIN batches' : n \in Int /\ n >= 1 /\ n + 1 \in DOMAIN batches /\ batches'[n] = batches[n + 1]
      /\ In(batches') \subseteq In(batches) /\ IdsIn(left') \subseteq In(batches)
      /\ TakenIds' = TakenIds \cup IdsIn(left') /\ Sent' = Sent
      /\ UNCHANGED <<buffers, queue, issued, done>>
  BY PopMoves
<1>2. Order' = Order /\ DoneIds' = DoneIds /\ In(buffers') = In(buffers) /\ DoneIds \subseteq TakenIds
  BY <1>1, SameOrder, Whereabouts DEF DoneIds
<1>3. Sorted(Order, left')
  BY <1>1 DEF Ordering
<1>4. DoneIds \X IdsIn(left') \subseteq Order
  <2>1. TakenIds \X In(batches) \subseteq Order
    BY DEF Ordering
  <2> QED BY <1>1, <1>2, <2>1, FewerPairs
<1>5. TakenIds' \X IdsIn(queue) \subseteq Order
  <2>1. TakenIds \X IdsIn(queue) \subseteq Order
    BY DEF Ordering
  <2>2. IdsIn(left') \X IdsIn(queue) \subseteq Order
    BY <1>1, TasksApart
  <2>3. TakenIds' \subseteq TakenIds \cup IdsIn(left')
    BY <1>1
  <2> QED BY <2>1, <2>2, <2>3, MorePairs
<1>6. TakenIds' \X In(batches') \subseteq Order
  <2>1. TakenIds \X In(batches') \subseteq Order
    <3>1. TakenIds \X In(batches) \subseteq Order
      BY DEF Ordering
    <3> QED BY <1>1, <3>1, FewerPairs
  <2>2. ASSUME NEW a \in IdsIn(left'), NEW n \in DOMAIN batches', NEW b \in IdsIn(batches'[n])
        PROVE  <<a, b>> \in Order
    <3>1. 1 < n + 1 /\ n + 1 \in DOMAIN batches /\ batches'[n] = batches[n + 1]
      BY <1>1
    <3> DEFINE m == n + 1
    <3>2. IdsIn(batches[1]) \X IdsIn(batches[m]) \subseteq Order
      BY <1>1, <3>1 DEF Ordering
    <3> QED BY <1>1, <2>2, <3>1, <3>2
  <2>3. IdsIn(left') \X In(batches') \subseteq Order
    <3> SUFFICES ASSUME NEW a \in IdsIn(left'), NEW b \in In(batches') PROVE <<a, b>> \in Order
      OBVIOUS
    <3>1. PICK n \in DOMAIN batches' : b \in IdsIn(batches'[n])
      BY DEF In
    <3> QED BY <2>2, <3>1
  <2>4. TakenIds' \subseteq TakenIds \cup IdsIn(left')
    BY <1>1
  <2> QED BY <2>1, <2>3, <2>4, MorePairs
<1>7. \A n \in DOMAIN batches' : Sorted(Order, batches'[n])
  BY <1>1 DEF Ordering
<1>8. ASSUME NEW n \in DOMAIN batches', NEW m \in DOMAIN batches', n < m
      PROVE  IdsIn(batches'[n]) \X IdsIn(batches'[m]) \subseteq Order
  <2> DEFINE i == n + 1
             j == m + 1
  <2>1. i < j /\ i \in DOMAIN batches /\ j \in DOMAIN batches /\ batches'[n] = batches[i] /\ batches'[m] = batches[j]
    BY <1>1, <1>8
  <2> HIDE DEF i, j
  <2> QED BY <2>1 DEF Ordering
<1> QED BY <1>1, <1>2, <1>3, <1>4, <1>5, <1>6, <1>7, <1>8 DEF Ordering

(* ... the queue is drained, *)
LEMMA DrainOrdering ==
  ASSUME PipelineInv, Origins, Ordering, ApplySemanticCommands
  PROVE  Ordering'
<1>1. /\ left' = queue /\ DOMAIN queue' = {} /\ IdsIn(queue') = {}
      /\ TakenIds' = TakenIds \cup IdsIn(queue) /\ Sent' = Sent
      /\ UNCHANGED <<buffers, batches, issued, done>>
  BY DrainMoves
<1>2. Order' = Order /\ DoneIds' = DoneIds /\ In(buffers') = In(buffers) /\ In(batches') = In(batches)
      /\ DoneIds \subseteq TakenIds
  BY <1>1, SameOrder, Whereabouts DEF DoneIds
<1>3. DoneIds \X IdsIn(left') \subseteq Order
  <2>1. TakenIds \X IdsIn(queue) \subseteq Order
    BY DEF Ordering
  <2> QED BY <1>1, <1>2, <2>1, FewerPairs
<1>4. TakenIds' \X In(batches) \subseteq Order
  <2>1. TakenIds \X In(batches) \subseteq Order
    BY DEF Ordering
  <2>2. IdsIn(queue) \X In(batches) \subseteq Order
    BY TasksApart
  <2>3. TakenIds' \subseteq TakenIds \cup IdsIn(queue)
    BY <1>1
  <2> QED BY <2>1, <2>2, <2>3, MorePairs
<1>5. Sorted(Order, queue')
  BY <1>1 DEF Sorted
<1> QED BY <1>1, <1>2, <1>3, <1>4, <1>5 DEF Ordering

(* ... a command is applied, *)
LEMMA CallOrdering ==
  ASSUME PipelineInv, Origins, Ordering, ApplyCommand \/ EditCall
  PROVE  Ordering'
<1>1. /\ left # <<>>
      /\ \/ done' = done /\ (left' = left \/ left' = Tail(left))
         \/ /\ done' = Append(done, [id |-> Head(left).id, verdict |-> outcome', frame |-> frame, phase |-> phase])
            /\ left' = Tail(left) \/ left' = <<>>
      /\ UNCHANGED <<buffers, queue, batches, issued, takes>>
  BY CallMoves
<1>2. /\ Order' = Order /\ TakenIds' = TakenIds /\ Sent' = Sent /\ In(buffers') = In(buffers) /\ In(batches') = In(batches)
  BY <1>1, SameOrder DEF TakenIds, Sent
<1>3. /\ Sorted(Order, Tail(left)) /\ IdsIn(Tail(left)) \subseteq IdsIn(left)
      /\ Head(left).id \in IdsIn(left) /\ {Head(left).id} \X IdsIn(Tail(left)) \subseteq Order
  <2>1. left \in Seq(Items) /\ Sorted(Order, left)
    BY DEF PipelineInv, Typed, Ordering
  <2> QED BY <1>1, <2>1, SortedTail
<1>4. Sorted(Order, left') /\ IdsIn(left') \subseteq IdsIn(left)
  BY <1>1, <1>3, NothingSorted DEF Ordering
<1>5. Sorted(Order, done) /\ DoneIds \X IdsIn(left) \subseteq Order
  BY DEF Ordering
<1>6. CASE done' = done
  <2>1. DoneIds' \X IdsIn(left') \subseteq Order
    BY <1>4, <1>5, <1>6, FewerPairs DEF DoneIds
  <2> QED BY <1>1, <1>2, <1>4, <1>5, <1>6, <2>1 DEF Ordering
<1>7. CASE /\ done' = Append(done, [id |-> Head(left).id, verdict |-> outcome', frame |-> frame, phase |-> phase])
           /\ left' = Tail(left) \/ left' = <<>>
  <2> DEFINE L == Len(done) + 1
             x == [id |-> Head(left).id, verdict |-> outcome', frame |-> frame, phase |-> phase]
  <2>1. /\ DOMAIN done' = DOMAIN done \cup {L} /\ done'[L].id = Head(left).id
        /\ \A n \in DOMAIN done : done'[n] = done[n] /\ n < L /\ n \in Int
        /\ L \in Int
    <3>1. done \in Seq(Dones)
      BY DEF PipelineInv, Typed
    <3>2. \A n \in DOMAIN done : n < L /\ n \in Int
      BY <3>1
    <3>3. done' = Append(done, x) /\ DOMAIN done = 1..Len(done) /\ Len(done) \in Nat
      BY <1>7, <3>1
    <3>4. x.id = Head(left).id
      OBVIOUS
    <3> HIDE DEF x
    <3>5. /\ DOMAIN done' = DOMAIN done \cup {L} /\ done'[L] = x
          /\ \A n \in DOMAIN done : done'[n] = done[n]
      BY <3>1, <3>3
    <3> QED BY <3>2, <3>3, <3>4, <3>5
  <2> HIDE DEF L, x
  <2>2. Sorted(Order, done')
    <3>1. ASSUME NEW n \in DOMAIN done PROVE <<done[n].id, Head(left).id>> \in Order
      <4>1. done[n].id \in DoneIds
        BY DEF DoneIds
      <4> QED BY <1>3, <1>5, <4>1
    <3>2. ASSUME NEW i \in DOMAIN done', NEW j \in DOMAIN done', i < j
          PROVE  <<done'[i].id, done'[j].id>> \in Order
      <4>1. i \in DOMAIN done
        BY <2>1, <3>2
      <4>2. CASE j \in DOMAIN done
        BY <1>5, <2>1, <3>2, <4>1, <4>2 DEF Sorted
      <4>3. CASE j = L
        BY <2>1, <3>1, <4>1, <4>3
      <4> QED BY <2>1, <4>2, <4>3
    <3> QED BY <3>2 DEF Sorted
  <2>3. DoneIds' \X IdsIn(left') \subseteq Order
    <3>1. DoneIds' \subseteq DoneIds \cup {Head(left).id}
      BY <2>1 DEF DoneIds
    <3>2. DoneIds \X IdsIn(left') \subseteq Order
      BY <1>4, <1>5, FewerPairs
    <3>3. {Head(left).id} \X IdsIn(left') \subseteq Order
      BY <1>3, <1>7, NothingSorted
    <3> QED BY <3>1, <3>2, <3>3, MorePairs
  <2> QED BY <1>1, <1>2, <1>4, <2>2, <2>3 DEF Ordering
<1> QED BY <1>1, <1>6, <1>7

(* ... buffers are flushed, *)
LEMMA FlushOrdering ==
  ASSUME PipelineInv, Origins, Ordering, issued' = issued, NEW ps \in SUBSET Phases, Flush(ps),
         UNCHANGED <<batches, left, takes, done>>
  PROVE  Ordering'
<1> DEFINE A == IF "update" \in ps THEN Flushed("update") ELSE <<>>
           B == IF "last" \in ps THEN Flushed("last") ELSE <<>>
<1>1. /\ DOMAIN buffers = Range(Systems) /\ TakenIds \subseteq Sent /\ IdsIn(queue) \subseteq Sent
      /\ \A s \in DOMAIN buffers : IdsIn(buffers[s]) \subseteq In(buffers)
  BY Whereabouts
<1>2. /\ DOMAIN buffers' = Range(Systems) /\ In(buffers') \subseteq In(buffers)
      /\ \A s \in Range(Systems) : buffers'[s] = IF SystemPhase[s] \in ps THEN <<>> ELSE buffers[s]
      /\ \A id \in Sent' \cup IdsIn(queue') :
           \/ id \in Sent
           \/ \E s \in Range(Systems) : SystemPhase[s] \in ps /\ id \in IdsIn(buffers[s])
      /\ \A id \in In(buffers') :
           \E s \in Range(Systems) : SystemPhase[s] \notin ps /\ id \in IdsIn(buffers[s])
      /\ IdsIn(queue') \cup In(buffers') = IdsIn(queue) \cup In(buffers)
  BY FlushMoves
<1>3. Order' = Order /\ TakenIds' = TakenIds /\ DoneIds' = DoneIds
  BY SameOrder DEF TakenIds, DoneIds
<1>4. Sent \X In(buffers) \subseteq Order
  BY DEF Ordering
<1>5. A \in Seq(Items) /\ B \in Seq(Items) /\ queue \in Seq(Items) /\ queue' = (queue \o A) \o B
  BY FlushedFlattens DEF PipelineInv, Typed, Flush
<1>6. /\ \A x \in IdsIn(A) : \E s \in Range(Systems) : SystemPhase[s] = "update" /\ x \in IdsIn(buffers[s])
      /\ \A x \in IdsIn(B) : \E s \in Range(Systems) : SystemPhase[s] = "last" /\ x \in IdsIn(buffers[s])
  BY CellsPlaces, NothingSorted DEF PipelineInv, Placed
<1>7. Sorted(Order, A) /\ Sorted(Order, B) /\ Sorted(Order, queue)
  BY FlushedSorted, NothingSorted DEF Ordering
<1> HIDE DEF A, B
<1>8. IdsIn(A) \subseteq In(buffers) /\ IdsIn(B) \subseteq In(buffers)
  BY <1>1, <1>6
<1>9. IdsIn(A) \X IdsIn(B) \subseteq Order
  <2> SUFFICES ASSUME NEW a \in IdsIn(A), NEW b \in IdsIn(B) PROVE <<a, b>> \in Order
    OBVIOUS
  <2>1. /\ \E s \in Range(Systems) : SystemPhase[s] \in {"update"} /\ a \in IdsIn(buffers[s])
        /\ \E s \in Range(Systems) : SystemPhase[s] \notin {"update"} /\ b \in IdsIn(buffers[s])
    BY <1>6
  <2> QED BY <2>1, SchedulesApart
<1>10. queue \o A \in Seq(Items) /\ Sorted(Order, queue \o A) /\ IdsIn(queue \o A) = IdsIn(queue) \cup IdsIn(A)
  <2>1. IdsIn(queue) \X IdsIn(A) \subseteq Order
    BY <1>1, <1>4, <1>8, FewerPairs
  <2> QED BY <1>5, <1>7, <2>1, ConcatSorted, ConcatPlaces
<1>11. Sorted(Order, queue')
  <2>1. IdsIn(queue) \X IdsIn(B) \subseteq Order
    BY <1>1, <1>4, <1>8, FewerPairs
  <2>2. IdsIn(queue \o A) \X IdsIn(B) \subseteq Order
    BY <1>9, <1>10, <2>1, MorePairs
  <2> QED BY <1>5, <1>7, <1>10, <2>2, ConcatSorted
<1>12. TakenIds \X IdsIn(queue') \subseteq Order
  <2>1. TakenIds \X IdsIn(queue) \subseteq Order
    BY DEF Ordering
  <2>2. TakenIds \X In(buffers) \subseteq Order
    BY <1>1, <1>4, FewerPairs
  <2>3. IdsIn(queue') \subseteq IdsIn(queue) \cup In(buffers)
    BY <1>2
  <2> QED BY <2>1, <2>2, <2>3, MorePairs
<1>13. \A s \in DOMAIN buffers' : Sorted(Order, buffers'[s])
  BY <1>1, <1>2, NothingSorted DEF Ordering
<1>14. Sent' \X In(buffers') \subseteq Order
  <2> SUFFICES ASSUME NEW a \in Sent', NEW b \in In(buffers') PROVE <<a, b>> \in Order
    OBVIOUS
  <2>1. CASE a \in Sent
    BY <1>2, <1>4, <2>1
  <2>2. CASE \E s \in Range(Systems) : SystemPhase[s] \in ps /\ a \in IdsIn(buffers[s])
    <3>1. \E s \in Range(Systems) : SystemPhase[s] \notin ps /\ b \in IdsIn(buffers[s])
      BY <1>2
    <3> QED BY <2>2, <3>1, SchedulesApart
  <2> QED BY <1>2, <2>1, <2>2
<1>15. In(batches') = In(batches)
  OBVIOUS
<1> QED BY <1>3, <1>11, <1>12, <1>13, <1>14, <1>15 DEF Ordering

(* ... and otherwise. *)
LEMMA RunOrdering ==
  ASSUME PipelineInv, Origins, Ordering, Run \/ UNCHANGED pipelineVars
  PROVE  Ordering'
<1>1. CASE PopBatch
  BY <1>1, PopOrdering
<1>2. CASE ApplySemanticCommands
  BY <1>2, DrainOrdering
<1>3. CASE ApplyCommand \/ EditCall
  BY <1>3, CallOrdering
<1>4. ASSUME UNCHANGED <<buffers, queue, batches, issued, takes, done>>, left' = left \/ left' = <<>>
      PROVE  Ordering'
  <2>1. /\ Order' = Order /\ TakenIds' = TakenIds /\ DoneIds' = DoneIds /\ Sent' = Sent
        /\ In(buffers') = In(buffers) /\ In(batches') = In(batches)
    BY <1>4, SameOrder DEF TakenIds, DoneIds, Sent
  <2>2. Sorted(Order, left') /\ DoneIds \X IdsIn(left') \subseteq Order
    BY <1>4, NothingSorted DEF Ordering
  <2> QED BY <1>4, <2>1, <2>2 DEF Ordering
<1>5. CASE EditEnd \/ ApplyEnd \/ PlaybackEnd \/ Playback
  BY <1>4, <1>5, TurnMoves
<1>6. CASE EndPhase \/ Recover
  <2>1. /\ UNCHANGED <<left, batches, issued, takes, done>>
        /\ (\E ps \in SUBSET Phases : Flush(ps)) \/ UNCHANGED <<queue, buffers>>
    BY <1>6, FrameMoves
  <2> QED BY <1>4, <2>1, FlushOrdering
<1>7. CASE UNCHANGED pipelineVars
  <2>1. UNCHANGED <<buffers, queue, batches, left, issued, takes, done>>
    BY <1>7 DEF pipelineVars, waitingVars, workVars, ghostVars
  <2> QED BY <1>4, <2>1
<1> QED BY <1>1, <1>2, <1>3, <1>5, <1>6, <1>7 DEF Run

(* At the start nothing was issued. *)
LEMMA OrderStart == ASSUME PipelineInit PROVE OrderInv
<1>1. PipelineInv
  BY PipelineStart
<1>2. /\ issued = <<>> /\ done = <<>> /\ left = <<>> /\ queue = <<>> /\ batches = <<>> /\ takes = <<>>
      /\ buffers = [s \in Range(Systems) |-> <<>>]
  BY DEF PipelineInit
<1>3. DOMAIN <<>> = {} /\ 1..Len(<<>>) = {} /\ IdsIn(<<>>) = {}
  BY NothingSorted
<1>4. In(buffers) = {} /\ In(batches) = {} /\ TakenIds = {} /\ DoneIds = {} /\ Sent = {}
  BY <1>2, <1>3 DEF In, TakenIds, DoneIds, Sent
<1>5. Origins
  BY <1>2, <1>3, <1>4 DEF Origins
<1>6. Ordering
  BY <1>2, <1>3, <1>4, NothingSorted DEF Ordering
<1> QED BY <1>1, <1>5, <1>6 DEF OrderInv

LEMMA OrderStep == ASSUME OrderInv, [PipelineNext]_pipelineVars PROVE OrderInv'
<1>1. PipelineInv /\ Origins /\ Ordering
  BY DEF OrderInv
<1>2. PipelineInv'
  BY <1>1, PipelineStep
<1>3. CASE Produce
  BY <1>1, <1>2, <1>3, ProduceOrigins, ProduceOrdering DEF OrderInv
<1>4. CASE Run \/ UNCHANGED pipelineVars
  BY <1>1, <1>2, <1>4, RunOrigins, RunOrdering DEF OrderInv
<1> QED BY <1>3, <1>4 DEF PipelineNext

(* Wherever commands wait or are held, they are in an order in which they
   may be applied, and whatever was taken up comes before what waits.      *)
THEOREM OrderInvariance == PipelineSpec => []OrderInv
<1>1. PipelineInit => OrderInv
  BY OrderStart
<1>2. OrderInv /\ [PipelineNext]_pipelineVars => OrderInv'
  BY OrderStep
<1> QED BY <1>1, <1>2, PTL DEF PipelineSpec

(* Commands of one source apply in the order it issued them, and those of one
   schedule in the order of its systems: buffers are flushed in that order,
   a drain takes the whole queue, and a batch is popped before the next.   *)
THEOREM CommandsInOrder == PipelineSpec => []InIssueOrder
<1>1. ASSUME OrderInv PROVE InIssueOrder
  <2>1. Sorted(Order, done)
    BY <1>1 DEF OrderInv, Ordering
  <2> QED BY <2>1 DEF InIssueOrder, Sorted, Order
<1> QED BY <1>1, OrderInvariance, PTL

-----------------------------------------------------------------------------
(* In which drain                                                          *)

(* A drain is part of PostUpdate, and a frame ends after it. *)
Clock ==
  /\ drained \subseteq 0..frame /\ interrupted \subseteq 0..frame
  /\ phase = "panicked" => frame \in interrupted
  /\ frame \in drained /\ frame < MaxFrame => phase # "update"
  /\ "apply" \in todo => phase \in {"post", "panicked"}
  /\ worker = "apply" => phase = "post"

(* What still waits in a buffer met panics only. *)
Buffered ==
  \A id \in In(buffers) :
    /\ issued[id].frame..(frame - 1) \subseteq interrupted
    /\ issued[id].phase = "update" => phase \in {"update", "panicked"}

(* No drain passed over what waits, over what is in the hands of one, or
   over what was applied.                                                  *)
Unmissed == \A id \in In(buffers) \cup IdsIn(queue) : ~PassedOver(id, MaxFrame)
InTime == worker = "apply" => \A id \in IdsIn(left) : ~PassedOver(id, frame)
Punctual ==
  \A i \in DOMAIN done :
    IsStaged(done[i].id) =>
      /\ done[i].phase = "post"
      /\ FirstDrain(done[i].id) <= done[i].frame /\ done[i].frame <= frame
      /\ ~PassedOver(done[i].id, done[i].frame)

DrainInv == OrderInv /\ Clock /\ Buffered /\ Unmissed /\ InTime /\ Punctual

(* The least of some frames, the first of which may be 0. *)
LEMMA LeastFrame ==
  ASSUME NEW n \in Nat, NEW S \in SUBSET (0..n), S # {}
  PROVE  Min(S) \in S /\ \A y \in S : Min(S) <= y
<1> DEFINE T == {x + 1 : x \in S}
<1>0. \A x \in S : x \in Int /\ x + 1 \in 1..(n + 1)
  OBVIOUS
<1>1. T \in SUBSET (1..(n + 1)) /\ T # {} /\ n + 1 \in Nat
  <2>1. T \subseteq 1..(n + 1)
    BY <1>0
  <2>2. PICK x \in S : TRUE
    OBVIOUS
  <2>3. x + 1 \in T
    OBVIOUS
  <2> QED BY <2>1, <2>3
<1>2. Min(T) \in T /\ \A y \in T : Min(T) <= y
  <2> HIDE DEF T
  <2> QED BY <1>1, MinInSet
<1>3. PICK x \in S : Min(T) = x + 1
  BY <1>2
<1>4. \A y \in S : x <= y
  <2> TAKE y \in S
  <2>1. Min(T) <= y + 1
    BY <1>2
  <2>2. x + 1 <= y + 1
    BY <1>3, <2>1
  <2>3. x \in Int /\ y \in Int
    BY <1>0
  <2> QED BY <2>2, <2>3
<1> QED BY <1>4 DEF Min

(* Where a command that meets panics only would be drained. *)
LEMMA NotInterrupted ==
  ASSUME NEW n \in Nat, NEW f \in 0..n, NEW I \in SUBSET (0..n)
  PROVE  LET m == Min((f..(n + 1)) \ I)
         IN /\ m \in Int /\ m >= f /\ m \notin I
            /\ \A e \in Int : f..(e - 1) \subseteq I => e <= m
            /\ \A J \in SUBSET I : Min((f..(n + 1)) \ J) \in Int /\ Min((f..(n + 1)) \ J) <= m
<1> DEFINE Kept(J) == (f..(n + 1)) \ J
<1>1. ASSUME NEW J \in SUBSET (0..n)
      PROVE  Min(Kept(J)) \in Kept(J) /\ \A y \in Kept(J) : Min(Kept(J)) <= y
  <2>1. Kept(J) \in SUBSET (0..(n + 1)) /\ n + 1 \in Kept(J) /\ n + 1 \in Nat
    OBVIOUS
  <2> HIDE DEF Kept
  <2> QED BY <2>1, LeastFrame
<1>2. Min(Kept(I)) \in Kept(I)
  BY <1>1
<1>3. ASSUME NEW e \in Int, f..(e - 1) \subseteq I
      PROVE  e <= Min(Kept(I))
  BY <1>2, <1>3
<1>4. ASSUME NEW J \in SUBSET I
      PROVE  Min(Kept(J)) \in Int /\ Min(Kept(J)) <= Min(Kept(I))
  <2>1. Kept(I) \subseteq Kept(J) /\ J \in SUBSET (0..n)
    OBVIOUS
  <2>2. Min(Kept(J)) \in Kept(J) /\ \A y \in Kept(J) : Min(Kept(J)) <= y
    BY <1>1, <2>1
  <2> QED BY <1>2, <2>1, <2>2
<1>5. Min(Kept(I)) \in Int /\ Min(Kept(I)) >= f /\ Min(Kept(I)) \notin I
  BY <1>2
<1> QED BY <1>3, <1>4, <1>5

(* The drains a command may be applied in. *)
LEMMA DrainFrames ==
  ASSUME Typed, Clock, NEW id \in 1..Len(issued)
  PROVE  /\ issued[id].frame \in 0..MaxFrame /\ frame \in 0..MaxFrame /\ MaxFrame \in Nat
         /\ interrupted \subseteq 0..MaxFrame
         /\ LastDrain(id) \in Int
         /\ \A e \in Int : issued[id].frame..(e - 1) \subseteq interrupted => DrainFor(id, e) <= LastDrain(id)
<1>1. frame \in 0..MaxFrame /\ MaxFrame \in Nat /\ interrupted \subseteq 0..MaxFrame
  BY PipelineAssumption DEF Typed, Clock
<1>2. issued[id].frame \in 0..MaxFrame
  <2>1. issued[id] \in Issues
    BY DEF Typed
  <2> QED BY <2>1 DEF Issues
<1> DEFINE m == Min((issued[id].frame..(MaxFrame + 1)) \ interrupted)
<1>3. m \in Int /\ \A e \in Int : issued[id].frame..(e - 1) \subseteq interrupted => e <= m
  BY <1>1, <1>2, NotInterrupted
<1>4. LastDrain(id) = DrainFor(id, m)
  BY DEF LastDrain
<1> HIDE DEF m
<1> QED BY <1>1, <1>2, <1>3, <1>4 DEF DrainFor

(* A panic puts the last drain off, and a drain only counts before it. *)
LEMMA StaysInTime ==
  ASSUME Typed, Clock, NEW id \in 1..Len(issued), NEW h \in Int, ~PassedOver(id, h), NEW g \in Int, g <= h,
         issued'[id] = issued[id], interrupted \subseteq interrupted', interrupted' \subseteq 0..MaxFrame,
         \A e \in drained' : e < g => e \in drained
  PROVE  (~PassedOver(id, g))'
<1>1. issued[id].frame \in 0..MaxFrame /\ MaxFrame \in Nat
  BY DrainFrames
<1> DEFINE m == Min((issued[id].frame..(MaxFrame + 1)) \ interrupted)
           n == Min((issued[id].frame..(MaxFrame + 1)) \ interrupted')
<1>2. m \in Int /\ n \in Int /\ m <= n
  BY <1>1, NotInterrupted
<1>3. LastDrain(id) = DrainFor(id, m) /\ LastDrain(id)' = DrainFor(id, n)
  BY DEF LastDrain, DrainFor
<1> HIDE DEF m, n
<1>4. LastDrain(id) \in Int /\ LastDrain(id)' \in Int /\ LastDrain(id) <= LastDrain(id)'
  BY <1>2, <1>3 DEF DrainFor
<1>5. ASSUME NEW e \in drained', e \in LastDrain(id)'..(g - 1)
      PROVE  FALSE
  <2>1. e \in drained /\ e \in LastDrain(id)..(h - 1)
    BY <1>4, <1>5
  <2> QED BY <2>1 DEF PassedOver
<1> QED BY <1>5 DEF PassedOver

(* How the clocks go on. *)
LEMMA ClockStep ==
  ASSUME OrderInv, Clock, [PipelineNext]_pipelineVars
  PROVE  /\ Clock' /\ frame <= frame' /\ frame \in Int /\ frame' \in Int
         /\ interrupted \subseteq interrupted' /\ interrupted' \subseteq 0..MaxFrame
         /\ \A e \in drained' : e \in drained \/ e = frame
<1>1. /\ PipelineInv /\ Typed /\ Typed' /\ frame \in 0..MaxFrame /\ frame' \in 0..MaxFrame /\ MaxFrame \in Nat
      /\ phase \in Phases \cup {"panicked"}
  <2>1. PipelineInv /\ PipelineInv'
    BY OrderStep DEF OrderInv
  <2> QED BY <2>1, PipelineAssumption DEF PipelineInv, Typed
<1>2. CASE Produce \/ UNCHANGED pipelineVars
  <2>1. UNCHANGED <<frame, phase, todo, drained, interrupted>> /\ (worker' = worker \/ worker' = "edit")
    BY <1>2 DEF Produce, Stage, Enqueue, Edit, Begin, pipelineVars, scheduleVars, ghostVars, workVars
  <2> QED BY <1>1, <2>1 DEF Clock
<1>3. CASE PopBatch
  <2>1. UNCHANGED <<worker, frame, phase, todo, drained, interrupted>>
    BY <1>1, <1>3, PopMoves
  <2> QED BY <1>1, <2>1 DEF Clock
<1>4. CASE ApplyCommand \/ EditCall
  <2>1. UNCHANGED <<worker, frame, phase, todo, drained, interrupted>>
    BY <1>1, <1>4, CallMoves
  <2> QED BY <1>1, <2>1 DEF Clock
<1>5. CASE ApplySemanticCommands
  <2>1. /\ worker' = "apply" /\ drained' = drained \cup {frame} /\ "apply" \in todo
        /\ todo' = todo \ {"apply"} /\ phase # "panicked" /\ UNCHANGED <<frame, phase, interrupted>>
    BY <1>1, <1>5, DrainMoves
  <2>2. phase = "post"
    BY <2>1 DEF Clock
  <2> QED BY <1>1, <2>1, <2>2 DEF Clock
<1>6. CASE EditEnd \/ ApplyEnd \/ PlaybackEnd \/ Playback
  <2>1. /\ worker' = "none" \/ worker' = "playback"
        /\ todo' \subseteq todo /\ phase # "panicked"
        /\ \/ phase' = phase /\ interrupted' = interrupted
           \/ phase' = "panicked" /\ interrupted' = interrupted \cup {frame}
        /\ UNCHANGED <<frame, drained>>
    BY <1>1, <1>6, TurnMoves
  <2>2. interrupted' \subseteq 0..frame /\ interrupted \subseteq interrupted' /\ interrupted' \subseteq 0..MaxFrame
    <3>1. frame \in 0..frame /\ 0..frame \subseteq 0..MaxFrame /\ interrupted \subseteq 0..frame
      BY <1>1 DEF Clock
    <3>2. interrupted \subseteq interrupted' /\ interrupted' \subseteq interrupted \cup {frame}
      BY <2>1
    <3> QED BY <3>1, <3>2
  <2>3. (phase' = "panicked" => frame \in interrupted') /\ (phase' = phase \/ phase' = "panicked")
    BY <2>1
  <2>4. Clock'
    BY <2>1, <2>2, <2>3 DEF Clock
  <2> QED BY <1>1, <2>1, <2>2, <2>4
<1>7. CASE EndPhase \/ Recover
  <2>1. worker' = "none" /\ UNCHANGED <<drained, interrupted>> /\ (EndPhase => phase # "panicked")
    BY <1>1, <1>7, FrameMoves DEF EndPhase, Free
  <2>2. /\ frame <= frame' /\ (frame < MaxFrame /\ phase' = "update" => frame' = frame + 1)
        /\ phase # "panicked" /\ phase # "last" => frame' = frame
    BY <1>1, <1>7, FramesGoOn
  <2>3. phase' \in Phases /\ todo' = Scheduled(phase')
    BY <1>7 DEF EndPhase, Recover, NextFrame, Phases
  <2>4. "apply" \in todo' => phase' = "post"
    BY <2>3 DEF Scheduled
  <2>5. frame' \in drained /\ frame' < MaxFrame => phase' # "update"
    <3>1. SUFFICES ASSUME frame' \in drained, frame' < MaxFrame, phase' = "update" PROVE FALSE
      OBVIOUS
    <3>2. frame < MaxFrame
      BY <1>1, <2>2, <3>1
    <3>3. frame' = frame + 1
      BY <2>2, <3>1, <3>2
    <3> QED BY <1>1, <3>1, <3>3 DEF Clock
  <2>6. phase' # "panicked"
    BY <2>3 DEF Phases
  <2> QED BY <1>1, <2>1, <2>2, <2>4, <2>5, <2>6 DEF Clock
<1> QED BY <1>2, <1>3, <1>4, <1>5, <1>6, <1>7 DEF PipelineNext, Run

(* What was issued stays as it was issued. *)
LEMMA IssuedStays ==
  ASSUME PipelineInv, [PipelineNext]_pipelineVars
  PROVE  \A id \in 1..Len(issued) : issued'[id] = issued[id]
<1>1. ASSUME NEW s \in Range(Systems), NEW c \in Stageable, Stage(s, c)
      PROVE  \A id \in 1..Len(issued) : issued'[id] = issued[id]
  <2> DEFINE new == Numbered(<<c>>)
  <2> QED BY <1>1, StageMoves
<1>2. ASSUME NEW b \in BatchGroups, Enqueue(b)
      PROVE  \A id \in 1..Len(issued) : issued'[id] = issued[id]
  <2> DEFINE new == Numbered(b)
  <2>1. b \in Seq(Commands \cup DirectCalls)
    <3>1. b \in Seq(Commands)
      BY PipelineAssumption
    <3> QED BY <3>1
  <2> QED BY <1>2, <2>1, IssueMoves DEF Enqueue
<1>3. ASSUME NEW cs \in EditChains, Edit(cs)
      PROVE  \A id \in 1..Len(issued) : issued'[id] = issued[id]
  <2> DEFINE new == Numbered(cs)
  <2>1. cs \in Seq(Commands \cup DirectCalls)
    BY PipelineAssumption
  <2> QED BY <1>3, <2>1, IssueMoves DEF Edit, waitingVars
<1>4. CASE Run \/ UNCHANGED pipelineVars
  <2>1. issued' = issued
    <3>1. CASE EndPhase \/ Recover
      BY <3>1, FrameMoves
    <3>2. CASE ApplyCommand \/ EditCall
      BY <3>2, CallMoves
    <3>3. CASE EditEnd \/ ApplyEnd \/ PlaybackEnd \/ Playback
      BY <3>3, TurnMoves
    <3>4. CASE UNCHANGED pipelineVars
      BY <3>4 DEF pipelineVars, ghostVars
    <3> QED BY <1>4, <3>1, <3>2, <3>3, <3>4, PopMoves, DrainMoves DEF Run
  <2> QED BY <2>1
<1> QED BY <1>1, <1>2, <1>3, <1>4 DEF PipelineNext, Produce

(* Which commands wait after a step: those that did, and one just staged. *)
LEMMA WaitMoves ==
  ASSUME PipelineInv, [PipelineNext]_pipelineVars
  PROVE  \/ /\ frame' = frame /\ phase' = phase /\ frame < MaxFrame
            /\ UNCHANGED <<queue, drained>> /\ In(buffers') = In(buffers) \cup {Len(issued) + 1}
            /\ \E s \in Range(Systems) : phase = SystemPhase[s] /\
                 issued'[Len(issued) + 1] = [source |-> s, frame |-> frame, phase |-> phase]
         \/ ApplySemanticCommands
         \/ EndPhase \/ Recover
         \/ /\ UNCHANGED <<queue, buffers, frame, drained>>
            /\ phase' = phase \/ phase' = "panicked"
<1>1. ASSUME NEW s \in Range(Systems), NEW c \in Stageable, Stage(s, c)
      PROVE  /\ frame' = frame /\ phase' = phase /\ frame < MaxFrame
             /\ UNCHANGED <<queue, drained>> /\ In(buffers') = In(buffers) \cup {Len(issued) + 1}
             /\ \E u \in Range(Systems) : phase = SystemPhase[u] /\
                  issued'[Len(issued) + 1] = [source |-> u, frame |-> frame, phase |-> phase]
  <2>1. /\ In(buffers') = In(buffers) \cup {Len(issued) + 1}
        /\ issued'[Len(issued) + 1] = [source |-> s, frame |-> frame, phase |-> phase]
    BY <1>1, StageMoves
  <2>2. /\ phase = SystemPhase[s] /\ frame < MaxFrame
        /\ UNCHANGED <<queue, drained, frame, phase>>
    BY <1>1 DEF Stage, MayIssue, scheduleVars
  <2> QED BY <2>1, <2>2
<1>2. CASE Produce
  <2>1. ASSUME NEW b \in BatchGroups, Enqueue(b)
        PROVE  UNCHANGED <<queue, buffers, frame, drained, phase>>
    BY <2>1 DEF Enqueue, scheduleVars
  <2>2. ASSUME NEW cs \in EditChains, Edit(cs)
        PROVE  UNCHANGED <<queue, buffers, frame, drained, phase>>
    BY <2>2 DEF Edit, scheduleVars, waitingVars
  <2> QED BY <1>1, <1>2, <2>1, <2>2 DEF Produce
<1>3. CASE PopBatch
  BY <1>3, PopMoves
<1>4. CASE ApplyCommand \/ EditCall
  BY <1>4, CallMoves
<1>5. CASE EditEnd \/ ApplyEnd \/ PlaybackEnd \/ Playback
  BY <1>5, TurnMoves
<1>6. CASE UNCHANGED pipelineVars
  BY <1>6 DEF pipelineVars, scheduleVars, waitingVars, ghostVars
<1> QED BY <1>2, <1>3, <1>4, <1>5, <1>6 DEF PipelineNext, Run

(* What a schedule leaves in the buffers it does not flush. *)
LEMMA BufferMoves ==
  ASSUME PipelineInv, Origins, EndPhase \/ Recover
  PROVE  /\ In(buffers') \subseteq In(buffers) /\ In(buffers') \cup IdsIn(queue') = In(buffers) \cup IdsIn(queue)
         /\ EndPhase => \A id \in In(buffers') : issued[id].phase # phase
         /\ \A id \in In(buffers) : issued[id].phase \in {"update", "last"}
<1>1. /\ DOMAIN buffers = Range(Systems) /\ In(buffers) \subseteq 1..Len(issued)
      /\ \A s \in DOMAIN buffers : IdsIn(buffers[s]) \subseteq In(buffers)
  BY Whereabouts
<1>2. ASSUME NEW s \in Range(Systems), NEW id \in IdsIn(buffers[s])
      PROVE  issued[id].phase = SystemPhase[s]
  BY <1>1, <1>2 DEF Origins, IsStaged
<1>3. \A id \in In(buffers) : issued[id].phase \in {"update", "last"}
  <2> SUFFICES ASSUME NEW id \in In(buffers) PROVE issued[id].phase \in {"update", "last"}
    OBVIOUS
  <2>1. PICK s \in Range(Systems) : id \in IdsIn(buffers[s])
    BY <1>1 DEF In
  <2> QED BY <1>2, <2>1, PipelineAssumption
<1>4. ASSUME NEW ps \in SUBSET Phases, Flush(ps), ps = {phase} \/ Recover
      PROVE  /\ In(buffers') \subseteq In(buffers) /\ In(buffers') \cup IdsIn(queue') = In(buffers) \cup IdsIn(queue)
             /\ EndPhase => \A id \in In(buffers') : issued[id].phase # phase
  <2>1. issued' = issued
    BY FrameMoves
  <2>2. /\ In(buffers') \subseteq In(buffers) /\ In(buffers') \cup IdsIn(queue') = In(buffers) \cup IdsIn(queue)
        /\ \A id \in In(buffers') : \E s \in Range(Systems) : SystemPhase[s] \notin ps /\ id \in IdsIn(buffers[s])
    BY <1>4, <2>1, FlushMoves
  <2>3. ASSUME EndPhase, NEW id \in In(buffers')
        PROVE  issued[id].phase # phase
    <3>1. PICK s \in Range(Systems) : SystemPhase[s] \notin ps /\ id \in IdsIn(buffers[s])
      BY <2>2
    <3>2. ps = {phase}
      BY <1>4, <2>3 DEF EndPhase, Free, Recover
    <3> QED BY <1>2, <3>1, <3>2
  <2> QED BY <2>2, <2>3
<1>5. CASE Recover /\ UNCHANGED <<queue, buffers>>
  <2>1. In(buffers') = In(buffers) /\ IdsIn(queue') = IdsIn(queue)
    BY <1>5
  <2>2. ~EndPhase
    BY <1>5 DEF EndPhase, Free, Recover
  <2> QED BY <1>3, <2>1, <2>2
<1> QED BY <1>3, <1>4, <1>5, FrameMoves

(* A command leaves its buffer with its schedule, or with a panic. *)
LEMMA BufferedStep ==
  ASSUME OrderInv, Clock, Buffered, [PipelineNext]_pipelineVars
  PROVE  Buffered'
<1>1. /\ PipelineInv /\ Origins /\ Typed /\ phase \in Phases \cup {"panicked"} /\ frame \in Int
      /\ frame <= frame' /\ frame' \in Int /\ interrupted \subseteq interrupted'
      /\ \A id \in 1..Len(issued) : issued'[id] = issued[id]
      /\ In(buffers) \subseteq 1..Len(issued)
  BY ClockStep, IssuedStays, Whereabouts DEF OrderInv, PipelineInv, Typed
<1>2. CASE /\ frame' = frame /\ phase' = phase /\ In(buffers') = In(buffers) \cup {Len(issued) + 1}
           /\ \E s \in Range(Systems) : phase = SystemPhase[s] /\
                issued'[Len(issued) + 1] = [source |-> s, frame |-> frame, phase |-> phase]
  <2> SUFFICES ASSUME NEW id, id = Len(issued) + 1 PROVE Buffered'
    OBVIOUS
  <2>1. issued'[id].frame = frame /\ issued'[id].phase = phase /\ In(buffers') = In(buffers) \cup {id}
    BY <1>2
  <2>2. phase \in {"update", "last"}
    BY <1>2, PipelineAssumption
  <2>3. frame..(frame - 1) = {}
    BY <1>1
  <2> QED BY <1>1, <1>2, <2>1, <2>2, <2>3 DEF Buffered
<1>3. CASE ApplySemanticCommands
  <2>1. UNCHANGED <<buffers, frame, phase>>
    BY <1>1, <1>3, DrainMoves
  <2> QED BY <1>1, <2>1 DEF Buffered
<1>4. CASE UNCHANGED <<queue, buffers, frame>> /\ (phase' = phase \/ phase' = "panicked")
  BY <1>1, <1>4 DEF Buffered
<1>5. CASE EndPhase \/ Recover
  <2>1. /\ In(buffers') \subseteq In(buffers)
        /\ EndPhase => \A id \in In(buffers') : issued[id].phase # phase
        /\ \A id \in In(buffers) : issued[id].phase \in {"update", "last"}
    BY <1>1, <1>5, BufferMoves
  <2>2. CASE EndPhase /\ phase # "last"
    <3>1. frame' = frame /\ phase # "panicked"
      BY <1>1, <2>2, FramesGoOn DEF EndPhase, Free
    <3>2. \A id \in In(buffers') : issued[id].phase # "update"
      BY <2>1, <2>2, <3>1 DEF Buffered
    <3> QED BY <1>1, <2>1, <3>1, <3>2 DEF Buffered
  <2>3. CASE EndPhase /\ phase = "last"
    <3>1. In(buffers') = {}
      BY <2>1, <2>3 DEF Buffered
    <3> QED BY <3>1 DEF Buffered
  <2>4. CASE Recover
    <3>1. phase' = "update" /\ (frame' = frame \/ frame' = frame + 1) /\ frame \in interrupted
      BY <1>1, <2>4 DEF Recover, NextFrame, Clock
    <3>2. \A x \in Int : x..(frame - 1) \subseteq interrupted => x..(frame' - 1) \subseteq interrupted'
      BY <1>1, <3>1
    <3>3. \A id \in In(buffers) : issued[id].frame \in Int
      BY <1>1, DrainFrames
    <3> QED BY <1>1, <2>1, <3>1, <3>2, <3>3 DEF Buffered
  <2> QED BY <1>5, <2>2, <2>3, <2>4
<1> QED BY <1>1, <1>2, <1>3, <1>4, <1>5, WaitMoves

(* Nothing that waits for a drain sees one pass. *)
LEMMA UnmissedStep ==
  ASSUME OrderInv, Clock, Buffered, Unmissed, [PipelineNext]_pipelineVars
  PROVE  Unmissed'
<1>1. /\ PipelineInv /\ Origins /\ Typed /\ phase \in Phases \cup {"panicked"}
      /\ frame \in 0..MaxFrame /\ MaxFrame \in Nat
      /\ frame <= frame' /\ frame' \in Int /\ interrupted \subseteq interrupted' /\ interrupted' \subseteq 0..MaxFrame
      /\ \A id \in 1..Len(issued) : issued'[id] = issued[id]
      /\ In(buffers) \subseteq 1..Len(issued) /\ IdsIn(queue) \subseteq 1..Len(issued)
  BY ClockStep, IssuedStays, Whereabouts, PipelineAssumption DEF OrderInv, PipelineInv, Typed, Sent
<1>2. ASSUME drained' = drained, NEW id \in In(buffers) \cup IdsIn(queue)
      PROVE  (~PassedOver(id, MaxFrame))'
  BY <1>1, <1>2, StaysInTime DEF Unmissed
<1>3. CASE /\ frame' = frame /\ phase' = phase /\ frame < MaxFrame
           /\ UNCHANGED <<queue, drained>> /\ In(buffers') = In(buffers) \cup {Len(issued) + 1}
           /\ \E s \in Range(Systems) : phase = SystemPhase[s] /\
                issued'[Len(issued) + 1] = [source |-> s, frame |-> frame, phase |-> phase]
  <2> SUFFICES ASSUME NEW id, id = Len(issued) + 1 PROVE (~PassedOver(id, MaxFrame))'
    BY <1>2, <1>3 DEF Unmissed
  <2>1. issued'[id].frame = frame /\ issued'[id].phase = phase /\ phase \in {"update", "last"}
    <3>1. PICK s \in Range(Systems) : phase = SystemPhase[s] /\
            issued'[Len(issued) + 1] = [source |-> s, frame |-> frame, phase |-> phase]
      BY <1>3
    <3> QED BY <3>1, PipelineAssumption
  <2> DEFINE m == Min((frame..(MaxFrame + 1)) \ interrupted')
  <2>2. m \in Int /\ m >= frame
    BY <1>1, NotInterrupted
  <2>3. LastDrain(id)' = m + (IF phase = "update" THEN 0 ELSE 1)
    BY <2>1 DEF LastDrain, DrainFor
  <2> HIDE DEF m
  <2>4. LastDrain(id)' \in Int /\ LastDrain(id)' >= frame /\ (phase = "last" => LastDrain(id)' > frame)
    BY <1>1, <2>1, <2>2, <2>3
  <2>5. ASSUME NEW e \in drained', e \in LastDrain(id)'..(MaxFrame - 1) PROVE FALSE
    <3>1. e \in drained /\ drained \subseteq 0..frame
      BY <1>3, <2>5 DEF Clock
    <3>2. e = frame /\ phase = "update"
      BY <1>1, <2>1, <2>4, <2>5, <3>1
    <3> QED BY <1>3, <3>1, <3>2 DEF Clock
  <2> QED BY <2>5 DEF PassedOver
<1>4. CASE ApplySemanticCommands
  <2>1. /\ IdsIn(queue') = {} /\ "apply" \in todo /\ phase # "panicked"
        /\ drained' = drained \cup {frame} /\ UNCHANGED <<buffers, issued, interrupted>>
    BY <1>1, <1>4, DrainMoves
  <2>2. phase = "post"
    BY <2>1 DEF Clock
  <2>3. ASSUME NEW id \in In(buffers) PROVE (~PassedOver(id, MaxFrame))'
    <3>1. issued[id].phase # "update" /\ issued[id].frame..(frame - 1) \subseteq interrupted
      BY <2>2 DEF Buffered
    <3>2. DrainFor(id, frame) <= LastDrain(id) /\ LastDrain(id) \in Int
      BY <1>1, <3>1, DrainFrames
    <3>3. frame < LastDrain(id)
      BY <1>1, <3>1, <3>2 DEF DrainFor
    <3>4. LastDrain(id)' = LastDrain(id)
      BY <2>1 DEF LastDrain, DrainFor
    <3>5. drained \cap (LastDrain(id)..(MaxFrame - 1)) = {}
      BY DEF Unmissed, PassedOver
    <3> QED BY <1>1, <2>1, <3>2, <3>3, <3>4, <3>5 DEF PassedOver
  <2>4. In(buffers') = In(buffers)
    BY <2>1
  <2> QED BY <2>1, <2>3, <2>4 DEF Unmissed
<1>5. CASE EndPhase \/ Recover
  <2>1. In(buffers') \cup IdsIn(queue') = In(buffers) \cup IdsIn(queue) /\ drained' = drained
    BY <1>1, <1>5, BufferMoves, FrameMoves
  <2> QED BY <1>2, <2>1 DEF Unmissed
<1>6. CASE UNCHANGED <<queue, buffers, drained>>
  <2>1. In(buffers') \cup IdsIn(queue') = In(buffers) \cup IdsIn(queue)
    BY <1>6
  <2> QED BY <1>2, <1>6, <2>1 DEF Unmissed
<1> QED BY <1>1, <1>3, <1>4, <1>5, <1>6, WaitMoves

(* Where what is held or was applied was issued. *)
LEMMA HeldIssued ==
  ASSUME PipelineInv
  PROVE  IdsIn(left) \subseteq Sent /\ DoneIds \subseteq Sent /\ Sent \subseteq 1..Len(issued)
BY Whereabouts DEF Sent

(* What a drain holds was not passed over. *)
LEMMA InTimeStep ==
  ASSUME OrderInv, Clock, Unmissed, InTime, [PipelineNext]_pipelineVars
  PROVE  InTime'
<1>1. /\ PipelineInv /\ Typed /\ frame \in 0..MaxFrame /\ MaxFrame \in Nat
      /\ interrupted \subseteq interrupted' /\ interrupted' \subseteq 0..MaxFrame
      /\ \A e \in drained' : e \in drained \/ e = frame
      /\ \A id \in 1..Len(issued) : issued'[id] = issued[id]
      /\ IdsIn(left) \subseteq 1..Len(issued) /\ IdsIn(queue) \subseteq 1..Len(issued)
  BY ClockStep, IssuedStays, Whereabouts, HeldIssued, PipelineAssumption DEF OrderInv, PipelineInv, Typed
<1>2. CASE Produce
  <2>1. worker' # "apply"
    BY <1>2 DEF Produce, Stage, Enqueue, Edit, Begin, Free, workVars
  <2> QED BY <2>1 DEF InTime
<1>3. CASE ApplySemanticCommands
  <2>1. left' = queue /\ frame' = frame
    BY <1>1, <1>3, DrainMoves
  <2>2. ASSUME NEW id \in IdsIn(queue) PROVE (~PassedOver(id, frame))'
    <3>1. ~PassedOver(id, MaxFrame)
      BY DEF Unmissed
    <3>2. ASSUME NEW g, g = frame PROVE (~PassedOver(id, g))'
      <4>1. g \in Int /\ g <= MaxFrame /\ MaxFrame \in Int
        BY <1>1, <3>2
      <4>2. \A e \in drained' : e < g => e \in drained
        BY <1>1, <3>2
      <4> QED BY <1>1, <3>1, <4>1, <4>2, StaysInTime
    <3>3. ~(drained' \cap (LastDrain(id)'..(frame - 1)) # {})
      BY <3>2 DEF PassedOver
    <3> QED BY <2>1, <3>3 DEF PassedOver
  <2> QED BY <2>1, <2>2 DEF InTime
<1>4. CASE ApplyCommand \/ EditCall
  <2>1. /\ left # <<>> /\ left' \in {left, Tail(left), <<>>}
        /\ UNCHANGED <<worker, frame, issued, drained, interrupted>>
    BY <1>1, <1>4, CallMoves
  <2>2. IdsIn(left') \subseteq IdsIn(left)
    <3>1. IdsIn(Tail(left)) \subseteq IdsIn(left)
      BY <1>1, <2>1, HandTyped DEF IdsIn
    <3> QED BY <2>1, <3>1, NothingSorted
  <2> QED BY <2>1, <2>2 DEF InTime, PassedOver, LastDrain, DrainFor
<1>5. CASE PopBatch \/ EditEnd \/ ApplyEnd \/ PlaybackEnd \/ Playback \/ EndPhase \/ Recover
  <2>1. worker' # "apply"
    BY <1>1, <1>5, PopMoves, TurnMoves, FrameMoves
  <2> QED BY <2>1 DEF InTime
<1>6. CASE UNCHANGED pipelineVars
  BY <1>6 DEF pipelineVars, scheduleVars, workVars, ghostVars, InTime, PassedOver, LastDrain, DrainFor
<1> QED BY <1>2, <1>3, <1>4, <1>5, <1>6 DEF PipelineNext, Run

(* A command that is applied is staged and in its drain, or was not staged. *)
LEMMA AppliedInTime ==
  ASSUME OrderInv, Clock, InTime, ApplyCommand \/ EditCall, left # <<>>, IsStaged(Head(left).id)
  PROVE  /\ phase = "post" /\ FirstDrain(Head(left).id) <= frame
         /\ ~PassedOver(Head(left).id, frame)
<1> SUFFICES ASSUME NEW id, id = Head(left).id
             PROVE  phase = "post" /\ FirstDrain(id) <= frame /\ ~PassedOver(id, frame)
  OBVIOUS
<1>1. PipelineInv /\ Origins /\ Typed /\ IsStaged(id)
  BY DEF OrderInv, PipelineInv
<1>2. id \in IdsIn(left)
  BY <1>1, HandTyped DEF IdsIn
<1>3. id \in Sent /\ id \in 1..Len(issued)
  BY <1>1, <1>2, HeldIssued
<1>4. worker = "apply"
  <2>1. worker \in {"apply", "playback", "edit"}
    BY <1>1, CallMoves
  <2>2. issued[id].source \notin {"task", "edit"}
    BY <1>1, PipelineAssumption DEF IsStaged
  <2> QED BY <1>1, <1>2, <2>1, <2>2 DEF Origins
<1>5. phase = "post" /\ ~PassedOver(id, frame)
  BY <1>2, <1>4 DEF Clock, InTime
<1>6. Over(id)
  BY <1>1, <1>3 DEF Origins
<1>7. issued[id].frame \in Int /\ frame \in Int
  BY <1>1, <1>3, DrainFrames
<1>8. FirstDrain(id) <= frame
  BY <1>6, <1>7 DEF Over, FirstDrain, DrainFor
<1> QED BY <1>5, <1>8

(* What was applied was applied in its drain. *)
LEMMA PunctualStep ==
  ASSUME OrderInv, Clock, InTime, Punctual, [PipelineNext]_pipelineVars
  PROVE  Punctual'
<1>1. /\ PipelineInv /\ Typed /\ frame \in Int /\ frame' \in Int /\ frame <= frame'
      /\ interrupted \subseteq interrupted' /\ interrupted' \subseteq 0..MaxFrame
      /\ \A e \in drained' : e \in drained \/ e = frame
      /\ \A id \in 1..Len(issued) : issued'[id] = issued[id]
  BY ClockStep, IssuedStays DEF OrderInv, PipelineInv
<1>2. ASSUME NEW i \in DOMAIN done, done'[i] = done[i], (IsStaged(done[i].id))'
      PROVE  /\ done'[i].phase = "post"
             /\ FirstDrain(done[i].id)' <= done'[i].frame /\ done'[i].frame <= frame'
             /\ (~PassedOver(done[i].id, done[i].frame))'
  <2> SUFFICES ASSUME NEW id, id = done[i].id, NEW g, g = done[i].frame
               PROVE  /\ done'[i].phase = "post"
                      /\ FirstDrain(id)' <= g /\ g <= frame'
                      /\ (~PassedOver(id, g))'
    BY <1>2 DEF PassedOver, LastDrain, FirstDrain, DrainFor
  <2>1. id \in 1..Len(issued) /\ issued'[id] = issued[id] /\ g \in Int
    <3>1. id \in DoneIds
      BY DEF DoneIds
    <3>2. done[i] \in Dones
      BY <1>1 DEF Typed
    <3> QED BY <1>1, <3>1, <3>2, HeldIssued, PipelineAssumption DEF Dones
  <2>2. IsStaged(id)
    BY <1>2, <2>1 DEF IsStaged
  <2>3. done[i].phase = "post" /\ FirstDrain(id) <= g /\ g <= frame /\ ~PassedOver(id, g)
    BY <2>2 DEF Punctual
  <2>4. \A e \in drained' : e < g => e \in drained
    BY <1>1, <2>1, <2>3
  <2>5. (~PassedOver(id, g))'
    BY <1>1, <2>1, <2>3, <2>4, StaysInTime
  <2>6. FirstDrain(id)' = FirstDrain(id)
    BY <2>1 DEF FirstDrain, DrainFor
  <2> QED BY <1>1, <1>2, <2>1, <2>3, <2>5, <2>6
<1>3. CASE done' = done
  BY <1>2, <1>3 DEF Punctual
<1>4. CASE /\ ApplyCommand \/ EditCall
           /\ done' = Append(done, [id |-> Head(left).id, verdict |-> outcome', frame |-> frame, phase |-> phase])
  <2> DEFINE x == [id |-> Head(left).id, verdict |-> outcome', frame |-> frame, phase |-> phase]
  <2>1. left # <<>> /\ UNCHANGED <<frame, issued, drained, interrupted>>
    BY <1>1, <1>4, CallMoves
  <2>2. x.id = Head(left).id /\ x.frame = frame /\ x.phase = phase /\ done' = Append(done, x)
    BY <1>4
  <2> HIDE DEF x
  <2>3. PICK L : DOMAIN done' = DOMAIN done \cup {L} /\ done'[L] = x /\ \A n \in DOMAIN done : done'[n] = done[n]
    <3>1. done \in Seq(Dones)
      BY <1>1 DEF Typed
    <3> HIDE DEF Dones
    <3>2. DOMAIN done = 1..Len(done) /\ Len(done) \in Nat
      BY <3>1
    <3>3. /\ DOMAIN done' = DOMAIN done \cup {Len(done) + 1} /\ done'[Len(done) + 1] = x
          /\ \A n \in DOMAIN done : done'[n] = done[n]
      BY <2>2, <3>1, <3>2
    <3> QED BY <3>3
  <2>4. IsStaged(Head(left).id) =>
          phase = "post" /\ FirstDrain(Head(left).id) <= frame /\ ~PassedOver(Head(left).id, frame)
    BY <1>4, <2>1, AppliedInTime
  <2>5. (IsStaged(done[L].id))' =>
          /\ done'[L].phase = "post"
          /\ FirstDrain(done[L].id)' <= done'[L].frame /\ done'[L].frame <= frame'
          /\ (~PassedOver(done[L].id, done[L].frame))'
    BY <1>1, <2>1, <2>2, <2>3, <2>4 DEF IsStaged, PassedOver, LastDrain, FirstDrain, DrainFor
  <2> QED BY <1>2, <2>3, <2>5 DEF Punctual
<1>5. CASE Produce
  BY <1>3, <1>5 DEF Produce, Stage, Enqueue, Edit, waitingVars
<1>6. CASE UNCHANGED pipelineVars
  BY <1>3, <1>6 DEF pipelineVars, ghostVars
<1>7. CASE ApplyCommand \/ EditCall
  BY <1>1, <1>3, <1>4, <1>7, CallMoves
<1>8. CASE PopBatch \/ ApplySemanticCommands \/ EditEnd \/ ApplyEnd \/ PlaybackEnd \/ Playback \/ EndPhase \/ Recover
  BY <1>1, <1>3, <1>8, PopMoves, DrainMoves, TurnMoves, FrameMoves
<1> QED BY <1>5, <1>6, <1>7, <1>8 DEF PipelineNext, Run

LEMMA DrainStart == ASSUME PipelineInit PROVE DrainInv
<1>1. OrderInv /\ PipelineInv
  BY OrderStart DEF OrderInv
<1>2. /\ frame = 0 /\ phase = "update" /\ todo = Scheduled("update") /\ worker = "none"
      /\ done = <<>> /\ drained = {} /\ interrupted = {} /\ queue = <<>> /\ issued = <<>>
  BY DEF PipelineInit
<1>3. In(buffers) = {} /\ IdsIn(queue) = {}
  <2>1. 1..Len(issued) = {}
    BY <1>2
  <2> QED BY <1>1, <1>2, <2>1, Whereabouts, NothingSorted
<1>4. Clock
  BY <1>2 DEF Clock, Scheduled
<1> QED BY <1>1, <1>2, <1>3, <1>4 DEF DrainInv, Buffered, Unmissed, InTime, Punctual

LEMMA DrainStep == ASSUME DrainInv, [PipelineNext]_pipelineVars PROVE DrainInv'
<1>1. OrderInv /\ Clock /\ Buffered /\ Unmissed /\ InTime /\ Punctual
  BY DEF DrainInv
<1> QED BY <1>1, OrderStep, ClockStep, BufferedStep, UnmissedStep, InTimeStep, PunctualStep DEF DrainInv

(* A command leaves its buffer at the end of its schedule, and the queue in
   the next drain, unless panics kept it.                                  *)
THEOREM DrainInvariance == PipelineSpec => []DrainInv
<1>1. PipelineInit => DrainInv
  BY DrainStart
<1>2. DrainInv /\ [PipelineNext]_pipelineVars => DrainInv'
  BY DrainStep
<1> QED BY <1>1, <1>2, PTL DEF PipelineSpec

(* A staged command is applied by the first drain after its schedule, and no
   drain passes it over: the plugin drains the whole queue once a frame, in
   PostUpdate, and a schedule's buffers are flushed when it ends.          *)
THEOREM StagedMeetsItsDrain == PipelineSpec => []StagedMissNoDrain
<1>1. ASSUME DrainInv PROVE StagedMissNoDrain
  <2>1. PipelineInv /\ Origins /\ Unmissed /\ Punctual
    BY <1>1 DEF DrainInv, OrderInv
  <2>2. ASSUME NEW id \in DOMAIN issued \ Range(Ids(left)), IsStaged(id), Contains(Waiting, id)
        PROVE  ~PassedOver(id, MaxFrame)
    <3>1. id \in Range(Waiting)
      BY <2>2 DEF Contains, Range
    <3>2. Range(Waiting) = In(buffers) \cup IdsIn(queue) \cup In(batches) \cup IdsIn(left)
      BY <2>1, WaitingPlaces
    <3>3. id \notin IdsIn(left)
      <4>1. Range(Ids(left)) = IdsIn(left)
        BY DEF Range, Ids, IdsIn
      <4> QED BY <2>2, <4>1
    <3>4. id \notin In(batches)
      BY <2>1, <2>2, PipelineAssumption DEF Origins, IsStaged
    <3> QED BY <2>1, <3>1, <3>2, <3>3, <3>4 DEF Unmissed
  <2> QED BY <2>1, <2>2 DEF StagedMissNoDrain, Punctual
<1> QED BY <1>1, DrainInvariance, PTL
=============================================================================
