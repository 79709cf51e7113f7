------------------------------ MODULE IsACache ------------------------------
(***************************************************************************)
(* is_a of src/src/snapshot.rs: threads that share snapshots ask whether   *)
(* one kind is another, and a snapshot remembers the ancestors of every    *)
(* subject it was asked about.  The cache is read under its read lock, the *)
(* ancestors are computed under none and inserted under the write lock;    *)
(* taking a lock and using what it guards are steps of their own.  Clones  *)
(* of a snapshot share its cache, which is why a snapshot here is the      *)
(* allocation they share.                                                  *)
(***************************************************************************)
EXTENDS Naturals, FiniteSets

CONSTANTS
  Threads,
  Kinds,
  Snapshots,
  IsA,        \* the is_a links of each snapshot, as pairs
  None,
  MaxCalls    \* bound on the calls of all threads together

ASSUME IsAAssumption ==
  /\ IsFiniteSet(Kinds) /\ None \notin Kinds \cup Threads
  /\ IsA \in [Snapshots -> SUBSET (Kinds \X Kinds)]

VARIABLES
  is_a_cache,  \* snapshot -> subject -> its ancestors, or None
  readers,     \* snapshot -> the threads that hold its cache for reading
  writer,      \* snapshot -> the thread that holds its cache for writing, or None
  pc,          \* "idle", "look", "read", "compute", "lock" or "insert"
  question,    \* [snapshot, subject, target]
  ancestors,   \* what the thread has computed
  told,        \* every question answered so far, with its answer
  calls

vars == <<is_a_cache, readers, writer, pc, question, ancestors, told, calls>>

-----------------------------------------------------------------------------
Parents(s, k) == {p \in Kinds : <<k, p>> \in IsA[s]}

(* reachable(subject, is_a, Outgoing, usize::MAX): the least set that holds
   the parents of the subject and of its members.  The subject is its own
   ancestor where the links form a cycle.                                  *)
Ancestors(s, k) ==
  CHOOSE A \in SUBSET Kinds :
    /\ Parents(s, k) \subseteq A /\ \A a \in A : Parents(s, a) \subseteq A
    /\ \A B \in SUBSET Kinds :
         Parents(s, k) \subseteq B /\ (\A b \in B : Parents(s, b) \subseteq B) => A \subseteq B

Return(t, q, value) ==
  /\ told' = told \cup {[question |-> q, value |-> value]}
  /\ pc' = [pc EXCEPT ![t] = "idle"]
Goto(t, step) == pc' = [pc EXCEPT ![t] = step] /\ UNCHANGED told

(* A kind is itself, whatever the snapshot knows of it. *)
Ask(t, q) ==
  /\ pc[t] = "idle" /\ calls < MaxCalls
  /\ calls' = calls + 1
  /\ IF q.subject = q.target
     THEN Return(t, q, TRUE) /\ UNCHANGED question
     ELSE /\ question' = [question EXCEPT ![t] = q]
          /\ Goto(t, "look")
  /\ UNCHANGED <<is_a_cache, readers, writer, ancestors>>

Cached_AnySnapshot(q) ==
  IF \E s \in Snapshots : is_a_cache[s][q.subject] # None
  THEN is_a_cache[CHOOSE s \in Snapshots : is_a_cache[s][q.subject] # None][q.subject] ELSE None
Cached(q) == is_a_cache[q.snapshot][q.subject]

LockForReading(t) ==
  LET s == question[t].snapshot
  IN /\ pc[t] = "look"
     /\ writer[s] = None
     /\ readers' = [readers EXCEPT ![s] = @ \cup {t}]
     /\ Goto(t, "read")
     /\ UNCHANGED <<is_a_cache, writer, question, ancestors, calls>>

AnswerOrCompute(t, q) ==
  IF Cached(q) # None THEN Return(t, q, q.target \in Cached(q)) ELSE Goto(t, "compute")

Read_MissKeepsGuard(t) ==
  LET q == question[t]
  IN /\ pc[t] = "read"
     /\ AnswerOrCompute(t, q)
     /\ readers' = IF Cached(q) = None THEN readers ELSE [readers EXCEPT ![q.snapshot] = @ \ {t}]
     /\ UNCHANGED <<is_a_cache, writer, question, ancestors, calls>>

(* A hit answers under the read guard; a miss drops it, which lives as long
   as the if let it is a temporary of.                                     *)
Read(t) ==
  LET q == question[t]
  IN /\ pc[t] = "read"
     /\ AnswerOrCompute(t, q)
     /\ readers' = [readers EXCEPT ![q.snapshot] = @ \ {t}]
     /\ UNCHANGED <<is_a_cache, writer, question, ancestors, calls>>

Compute(t) ==
  /\ pc[t] = "compute"
  /\ ancestors' = [ancestors EXCEPT ![t] = Ancestors(question[t].snapshot, question[t].subject)]
  /\ Goto(t, "lock")
  /\ UNCHANGED <<is_a_cache, readers, writer, question, calls>>

LockForWriting(t) ==
  LET s == question[t].snapshot
  IN /\ pc[t] = "lock"
     /\ writer[s] = None /\ readers[s] = {}
     /\ writer' = [writer EXCEPT ![s] = t]
     /\ Goto(t, "insert")
     /\ UNCHANGED <<is_a_cache, readers, question, ancestors, calls>>

(* entry().or_insert(): the first thread to insert wins, and the others
   answer from what it inserted.                                           *)
Insert(t) ==
  LET q == question[t]
      kept == IF Cached(q) # None THEN Cached(q) ELSE ancestors[t]
  IN /\ pc[t] = "insert"
     /\ is_a_cache' = [is_a_cache EXCEPT ![q.snapshot][q.subject] = kept]
     /\ Return(t, q, q.target \in kept)
     /\ writer' = [writer EXCEPT ![q.snapshot] = None]
     /\ UNCHANGED <<readers, question, ancestors, calls>>

Questions == [snapshot : Snapshots, subject : Kinds, target : Kinds]
Step(t) == LockForReading(t) \/ Read(t) \/ Compute(t) \/ LockForWriting(t) \/ Insert(t)

Init ==
  /\ is_a_cache = [s \in Snapshots |-> [k \in Kinds |-> None]]
  /\ readers = [s \in Snapshots |-> {}] /\ writer = [s \in Snapshots |-> None]
  /\ pc = [t \in Threads |-> "idle"]
  /\ question = [t \in Threads |-> None] /\ ancestors = [t \in Threads |-> {}]
  /\ told = {} /\ calls = 0

Next == \E t \in Threads : (\E q \in Questions : Ask(t, q)) \/ Step(t)

Spec == Init /\ [][Next]_vars

(* A thread inside is_a keeps running, and takes a lock that stays free. *)
FairSpec == Spec /\ \A t \in Threads : WF_vars(Step(t))

-----------------------------------------------------------------------------
Yes(s, a, b) == [question |-> [snapshot |-> s, subject |-> a, target |-> b], value |-> TRUE] \in told
No(s, a, b) == [question |-> [snapshot |-> s, subject |-> a, target |-> b], value |-> FALSE] \in told

(* A yes is backed by links: a set closed under parents that contains the
   subject contains the target.  No answer of another snapshot leaks in.   *)
YesIsGrounded ==
  \A s \in Snapshots, a, b \in Kinds :
    Yes(s, a, b) =>
      \A S \in SUBSET Kinds : a \in S /\ (\A link \in IsA[s] : link[1] \in S => link[2] \in S) => b \in S

(* Whatever threads asked in whatever order, answered by the cache or not,
   the answers of one snapshot are those of one preorder over its links: no
   question has two answers, a link is never denied, what follows from two
   answers by transitivity is never denied, and no yes is made up.         *)
AnswersFormPreorder ==
  /\ YesIsGrounded
  /\ \A s \in Snapshots, a, b \in Kinds :
       /\ ~(Yes(s, a, b) /\ No(s, a, b))
       /\ No(s, a, b) => a # b /\ <<a, b>> \notin IsA[s]
       /\ Yes(s, a, b) => \A c \in Kinds : Yes(s, b, c) => ~No(s, a, c)

(* Threads that race for the cache of one snapshot or wait behind each
   other's guards, and their own, never wait for ever: every call returns. *)
CallsReturn == \A t \in Threads : pc[t] # "idle" ~> pc[t] = "idle"
=============================================================================
