--------------------------- MODULE CommandPipeline ---------------------------
(***************************************************************************)
(* How edits reach the registry of a Bevy app (src/src/plugin.rs): staged  *)
(* through Commands and drained by apply_semantic_commands in PostUpdate,  *)
(* enqueued as batches and replayed by SemanticPlaybackQueue::playback, or *)
(* made at once through Semantics and the fluent SemanticEdit chain.  Every *)
(* edit is an action of SemanticRegistry, with its verdict.                *)
(*                                                                         *)
(* A frame runs the schedules of Phases one after the other.  Within one,  *)
(* systems run in any order; those that take ResMut<Semantics> exclude     *)
(* each other, so one call finishes before the next begins (Free).  A      *)
(* system that stages only writes its own buffer, which nobody reads       *)
(* before the schedule ends: it is scheduled between those calls.          *)
(*                                                                         *)
(* Each command gets a number when it is issued; issued, takes, done,      *)
(* drained, interrupted and moved only record what happened.               *)
(***************************************************************************)
EXTENDS SemanticRegistry, SequencesExt

CONSTANTS
  Systems,       \* the systems that stage commands, in the order of their schedule
  SystemPhase,   \* the schedule each runs in
  AppSystems,    \* the phases to which the app added a system calling playback
  Stageable,     \* commands a system may stage
  BatchGroups,   \* batches a task may produce
  EditChains,    \* chains of calls on Semantics; a direct call is a chain of one
  MaxCommands,   \* bound on commands issued
  MaxFrame       \* bound on the frame counter; frames go on, nothing is issued

Phases == {"update", "post", "last"}

(* SemanticCommand, with one-element slices for its single edges, and the
   calls on Semantics that have no command.                                *)
Commands ==
  [op : {"RegisterKind"}, name : Spellings] \cup
  [op : {"RegisterTypedKind"}, type : Types, name : Spellings] \cup
  [op : {"RegisterTypedKind"}, type : Types] \cup
  [op : {"UnregisterNamespace"}, namespace : Namespaces] \cup
  [op : {"UnregisterKind", "TombstoneKind", "ReviveKind"}, kind : Kinds] \cup
  [op : {"AddEdges", "RemoveEdges"}, edges : EdgeGroups]
DirectCalls ==
  {[op |-> "register_const", name |-> d.name, kind |-> d.kind] : d \in UNION {Range(g) : g \in ConstGroups}} \cup
  [op : {"register_consts"}, group : ConstGroups] \cup
  [op : {"register_semantic_type"}, type : StaticTypes]

ASSUME PipelineAssumption ==
  /\ Systems \in Seq(Range(Systems)) /\ IsInjective(Systems)
  /\ {"task", "edit"} \cap Range(Systems) = {}
  /\ SystemPhase \in [Range(Systems) -> {"update", "last"}]
  /\ AppSystems \subseteq Phases
  /\ Stageable \subseteq Commands
  /\ \A c \in Stageable : c.op = "RegisterTypedKind" => "name" \in DOMAIN c
  /\ BatchGroups \subseteq Seq(Commands)
  /\ EditChains \subseteq Seq(Commands \cup DirectCalls)
  /\ MaxCommands \in Nat /\ MaxFrame \in Nat

VARIABLES
  frame, phase,  \* where App::update is; "panicked" when a system unwound
  todo,          \* scheduled calls that have not run in this phase
  buffers,       \* each system's Commands buffer
  queue,         \* SemanticCommandQueue
  batches,       \* SemanticPlaybackQueue
  worker,        \* who holds Semantics: "none", "apply", "playback" or "edit"
  left,          \* commands it has still to apply
  result,        \* "Ok", or the error that stopped it
  changed,       \* playback's flag
  reply,         \* what the last playback or chain returned
  issued,        \* where each command came from
  takes,         \* the commands each drain, popped batch or chain took hold of
  done,          \* the commands applied, in order, with their verdict
  drained,       \* frames whose PostUpdate drained the queue
  interrupted,   \* frames that ended in a panic
  moved          \* whether the registry changed during this playback

scheduleVars == <<frame, phase, todo>>
waitingVars == <<buffers, queue, batches>>
workVars == <<worker, left, result, changed>>
ghostVars == <<issued, takes, done, drained, interrupted, moved>>
pipelineVars == <<vars, scheduleVars, waitingVars, workVars, reply, ghostVars>>

Item(id, c) == [id |-> id, command |-> c]
Ids(items) == [i \in DOMAIN items |-> items[i].id]
Failed(verdict) == verdict \in Errors

-----------------------------------------------------------------------------
(* Commands                                                                *)

(* apply_command *)
Perform(c) ==
  \/ c.op = "RegisterKind" /\ RegisterKind(c.name)
  \/ c.op = "RegisterTypedKind" /\ "name" \in DOMAIN c /\ TypedKindNamed(c.type, c.name)
  \/ c.op = "RegisterTypedKind" /\ "name" \notin DOMAIN c /\ UnnamedTypedKind
  \/ c.op = "UnregisterNamespace" /\ UnregisterNamespace(c.namespace)
  \/ c.op = "UnregisterKind" /\ UnregisterKind(c.kind)
  \/ c.op = "TombstoneKind" /\ TombstoneKind(c.kind)
  \/ c.op = "ReviveKind" /\ ReviveKind(c.kind)
  \/ c.op = "AddEdges" /\ AddEdges(c.edges)
  \/ c.op = "RemoveEdges" /\ RemoveEdges(c.edges)

(* The edits Semantics offers besides; they have no command. *)
PerformDirect(c) ==
  \/ c.op = "register_const" /\ RegisterConst(c.name, c.kind)
  \/ c.op = "register_consts" /\ RegisterConsts(c.group)
  \/ c.op = "register_semantic_type" /\ RegisterSemanticType(c.type)

AppliedChange_Bool == outcome' = "Changed"
(* The bool apply_command returns: an operation's own, or a moved version. *)
AppliedChange == outcome' = "Changed" \/ (outcome' = "Ok" /\ version' # version)

Record(item) ==
  /\ done' = Append(done, [id |-> item.id, verdict |-> outcome', frame |-> frame, phase |-> phase])
  /\ moved' = (moved \/ state' # state)

AfterCommand_KeepsRest == left' = Tail(left) /\ result' = IF Failed(outcome') THEN outcome' ELSE result
(* ? returns at once and drops the vector with the commands that are left. *)
AfterCommand ==
  IF Failed(outcome') THEN left' = <<>> /\ result' = outcome'
  ELSE left' = Tail(left) /\ UNCHANGED result

(* One turn of the loop of apply_commands. *)
ApplyCommand ==
  /\ worker \in {"apply", "playback"} /\ left # <<>> /\ result = "Ok"
  /\ Perform(Head(left).command)
  /\ AfterCommand
  /\ changed' = (changed \/ AppliedChange)
  /\ Record(Head(left))
  /\ UNCHANGED <<scheduleVars, waitingVars, worker, reply, issued, takes, drained, interrupted>>

-----------------------------------------------------------------------------
(* Issuing                                                                 *)

Free == worker = "none" /\ phase # "panicked"
Take(items) == takes' = IF items = <<>> THEN takes ELSE Append(takes, Ids(items))
MayIssue(n) == frame < MaxFrame /\ Len(issued) + n <= MaxCommands
Numbered(cs) == [i \in DOMAIN cs |-> Item(Len(issued) + i, cs[i])]
Issue(source, n) ==
  issued' = issued \o [i \in 1..n |-> [source |-> source, frame |-> frame, phase |-> phase]]

(* CommandsExt: a closure that will push the command waits in the buffer. *)
Stage(s, c) ==
  /\ Free /\ phase = SystemPhase[s] /\ MayIssue(1)
  /\ buffers' = [buffers EXCEPT ![s] = @ \o Numbered(<<c>>)]
  /\ Issue(s, 1)
  /\ UNCHANGED <<vars, scheduleVars, queue, batches, workVars, reply, takes, done, drained, interrupted, moved>>

(* SemanticPlaybackQueue::enqueue *)
Enqueue(b) ==
  /\ Free /\ MayIssue(Len(b))
  /\ batches' = Append(batches, Numbered(b))
  /\ Issue("task", Len(b))
  /\ UNCHANGED <<vars, scheduleVars, buffers, queue, workVars, reply, takes, done, drained, interrupted, moved>>

(* A system unwinds: the rest of the frame is skipped. *)
Panic ==
  /\ phase' = "panicked"
  /\ interrupted' = interrupted \cup {frame}
NoPanic == UNCHANGED <<phase, interrupted>>

Begin(who, items) ==
  /\ worker' = who
  /\ left' = items
  /\ result' = "Ok"
  /\ changed' = FALSE

-----------------------------------------------------------------------------
(* Semantics::edit and the direct calls                                    *)

Edit(cs) ==
  /\ Free /\ MayIssue(Len(cs))
  /\ Begin("edit", Numbered(cs))
  /\ takes' = Append(takes, Ids(Numbered(cs)))
  /\ Issue("edit", Len(cs))
  /\ UNCHANGED <<vars, scheduleVars, waitingVars, reply, done, drained, interrupted, moved>>

Latched_Last == "Ok"
Latched == result

(* A call of the chain runs only while no error is latched.  register_consts
   takes several steps of the registry; the call ends with the last of them. *)
EditCall ==
  /\ worker = "edit" /\ left # <<>>
  /\ \/ /\ Latched # "Ok"
        /\ left' = Tail(left)
        /\ UNCHANGED <<vars, result, done, moved>>
     \/ /\ Latched = "Ok"
        /\ \/ Perform(Head(left).command)
           \/ PerformDirect(Head(left).command)
           \/ RegisterValidatedConst
        /\ IF validated' = <<>>
           THEN /\ left' = Tail(left)
                /\ result' = IF Failed(outcome') THEN outcome' ELSE "Ok"
                /\ Record(Head(left))
           ELSE UNCHANGED <<left, result, done, moved>>
  /\ UNCHANGED <<scheduleVars, waitingVars, worker, changed, reply, issued, takes, drained, interrupted>>

(* finish returns the latched error, expect panics with it. *)
EditEnd ==
  /\ worker = "edit" /\ left = <<>>
  /\ worker' = "none"
  /\ \/ /\ reply' = [by |-> "edit", result |-> result, changed |-> FALSE]
        /\ NoPanic
     \/ /\ result # "Ok"
        /\ Panic
        /\ UNCHANGED reply
  /\ UNCHANGED <<vars, frame, todo, waitingVars, left, result, changed, issued, takes, done,
                 drained, moved>>

-----------------------------------------------------------------------------
(* SemanticPlaybackQueue::playback                                         *)

Playback ==
  /\ Free /\ "playback" \in todo
  /\ todo' = todo \ {"playback"}
  /\ Begin("playback", <<>>)
  /\ moved' = FALSE
  /\ UNCHANGED <<vars, frame, phase, waitingVars, reply, issued, takes, done, drained, interrupted>>

MoreBatches_ButOne == Len(batches) > 1
MoreBatches == batches # <<>>            \* while let Some(batch)

PopBatch_Newest ==
  /\ worker = "playback" /\ left = <<>> /\ result = "Ok" /\ MoreBatches
  /\ left' = Last(batches) /\ batches' = Front(batches)
  /\ Take(Last(batches))
  /\ UNCHANGED <<vars, scheduleVars, buffers, queue, worker, result, changed, reply,
                 issued, done, drained, interrupted, moved>>
(* The batch leaves the queue before any of it is applied. *)
PopBatch ==
  /\ worker = "playback" /\ left = <<>> /\ result = "Ok" /\ MoreBatches
  /\ left' = Head(batches) /\ batches' = Tail(batches)
  /\ Take(Head(batches))
  /\ UNCHANGED <<vars, scheduleVars, buffers, queue, worker, result, changed, reply,
                 issued, done, drained, interrupted, moved>>

AfterPlayback_Clears == batches' = <<>>
AfterPlayback == UNCHANGED batches       \* also when an error ended it

PlaybackEnd ==
  /\ worker = "playback"
  /\ result # "Ok" \/ (left = <<>> /\ ~MoreBatches)
  /\ worker' = "none"
  /\ reply' = [by |-> "playback", result |-> result, changed |-> result = "Ok" /\ changed]
  /\ AfterPlayback
  /\ UNCHANGED <<vars, scheduleVars, buffers, queue, left, result, changed, ghostVars>>

-----------------------------------------------------------------------------
(* apply_semantic_commands                                                 *)

Drained_One == IF queue = <<>> THEN <<>> ELSE <<Head(queue)>>
Drained == queue
Undrained_Kept == queue
Undrained == SubSeq(queue, Len(Drained) + 1, Len(queue))     \* mem::take leaves nothing

ApplySemanticCommands ==
  /\ Free /\ "apply" \in todo
  /\ todo' = todo \ {"apply"}
  /\ Begin("apply", Drained)
  /\ Take(Drained)
  /\ queue' = Undrained
  /\ drained' = drained \cup {frame}
  /\ UNCHANGED <<vars, frame, phase, buffers, batches, reply, issued, done, interrupted, moved>>

ApplyEnd ==
  /\ worker = "apply"
  /\ left = <<>> \/ result # "Ok"
  /\ worker' = "none"
  /\ IF result = "Ok" THEN NoPanic ELSE Panic
  /\ UNCHANGED <<vars, frame, todo, waitingVars, left, result, changed, reply, issued, takes,
                 done, drained, moved>>

-----------------------------------------------------------------------------
(* Schedules                                                               *)

(* SemanticsPlugin::build adds one system; playback is up to the app. *)
Scheduled(p) ==
  (IF p = "post" THEN {"apply"} ELSE {}) \cup (IF p \in AppSystems THEN {"playback"} ELSE {})

(* Bevy applies the buffers of a schedule when it ends, in system order. *)
Flushed(p) ==
  FlattenSeq([i \in DOMAIN Systems |->
                IF SystemPhase[Systems[i]] = p THEN buffers[Systems[i]] ELSE <<>>])

Flush(ps) ==
  /\ queue' = queue \o (IF "update" \in ps THEN Flushed("update") ELSE <<>>)
                    \o (IF "last" \in ps THEN Flushed("last") ELSE <<>>)
  /\ buffers' = [s \in Range(Systems) |-> IF SystemPhase[s] \in ps THEN <<>> ELSE buffers[s]]

NextFrame ==
  /\ phase' = "update" /\ todo' = Scheduled("update")
  /\ frame' = IF frame < MaxFrame THEN frame + 1 ELSE frame

EndPhase ==
  /\ Free /\ todo = {}
  /\ Flush({phase})
  /\ \/ phase = "update" /\ phase' = "post" /\ todo' = Scheduled("post") /\ UNCHANGED frame
     \/ phase = "post" /\ phase' = "last" /\ todo' = Scheduled("last") /\ UNCHANGED frame
     \/ phase = "last" /\ NextFrame
  /\ UNCHANGED <<vars, batches, workVars, reply, ghostVars>>

(* The host caught the panic and updates again.  The rest of the frame is
   skipped; buffers of the interrupted schedule were flushed or are kept,
   depending on the executor.                                              *)
Recover ==
  /\ phase = "panicked"
  /\ NextFrame
  /\ Flush(Phases) \/ UNCHANGED <<queue, buffers>>
  /\ UNCHANGED <<vars, batches, workVars, reply, ghostVars>>

-----------------------------------------------------------------------------
PipelineInit ==
  /\ Init
  /\ frame = 0 /\ phase = "update" /\ todo = Scheduled("update")
  /\ buffers = [s \in Range(Systems) |-> <<>>] /\ queue = <<>> /\ batches = <<>>
  /\ worker = "none" /\ left = <<>> /\ result = "Ok" /\ changed = FALSE
  /\ reply = [by |-> "none", result |-> "Ok", changed |-> FALSE]
  /\ issued = <<>> /\ takes = <<>> /\ done = <<>> /\ drained = {} /\ interrupted = {} /\ moved = FALSE

Produce ==
  \/ \E s \in Range(Systems), c \in Stageable : Stage(s, c)
  \/ \E b \in BatchGroups : Enqueue(b)
  \/ \E cs \in EditChains : Edit(cs)

Run ==
  \/ ApplyCommand \/ EditCall \/ EditEnd
  \/ Playback \/ PopBatch \/ PlaybackEnd
  \/ ApplySemanticCommands \/ ApplyEnd
  \/ EndPhase \/ Recover

PipelineNext == Produce \/ Run
PipelineSpec == PipelineInit /\ [][PipelineNext]_pipelineVars

(* The host keeps calling App::update, so whatever a frame has to do next
   is done; nobody has to issue anything.                                  *)
FairPipelineSpec == PipelineSpec /\ WF_pipelineVars(Run)

-----------------------------------------------------------------------------
(* Properties                                                              *)

Waiting ==
  Ids(FlattenSeq([i \in DOMAIN Systems |-> buffers[Systems[i]]]) \o queue
      \o FlattenSeq(batches) \o left)
Applied == [i \in DOMAIN done |-> done[i].id]
Behind(id) ==   \* behind a command that failed, in the hands of the same taker
  \E t \in Range(takes) : \E i, j \in DOMAIN t : \E d \in Range(done) :
    i < j /\ t[j] = id /\ d.id = t[i] /\ Failed(d.verdict)
IsStaged(id) == issued[id].source \in Range(Systems)
DrainFor(id, f) == f + (IF issued[id].phase = "update" THEN 0 ELSE 1)
FirstDrain(id) == DrainFor(id, issued[id].frame)
(* A panic may keep a buffer until its schedule next ends. *)
LastDrain(id) == DrainFor(id, Min((issued[id].frame..(MaxFrame + 1)) \ interrupted))
PassedOver(id, f) == drained \cap (LastDrain(id)..(f - 1)) # {}     \* by a drain before f

Together(a, b) ==   \* staged in one schedule
  /\ IsStaged(a) /\ IsStaged(b)
  /\ issued[a].frame = issued[b].frame /\ issued[a].phase = issued[b].phase
PlaceOf(s) == CHOOSE n \in DOMAIN Systems : Systems[n] = s
InOrder(a, b) ==
  /\ issued[a].source = issued[b].source => a < b
  /\ Together(a, b) => PlaceOf(issued[a].source) <= PlaceOf(issued[b].source)

(* Commands are where they should be: what is in a worker's hands was taken
   by it, and a worker that has returned holds nothing.                    *)
PipelineTypeOK ==
  /\ frame \in 0..MaxFrame /\ phase \in Phases \cup {"panicked"}
  /\ todo \subseteq {"apply", "playback"}
  /\ worker \in {"none", "apply", "playback", "edit"}
  /\ result \in Errors \cup {"Ok"} /\ {changed, moved} \subseteq BOOLEAN
  /\ Len(issued) <= MaxCommands
  /\ worker = "none" => left = <<>> /\ Idle
  /\ left # <<>> => IsSuffix(Ids(left), Last(takes))

(* Through buffers, queue, batches and the hands of whoever applies them, no
   command is ever duplicated or applied a second time.                    *)
AtMostOnce ==
  LET everywhere == Waiting \o Applied
  IN IsInjective(everywhere) /\ Range(everywhere) \subseteq DOMAIN issued

(* A command is dropped exactly when a command before it failed in the same
   drain, batch or chain: an error never costs another batch or another
   drain anything, and nothing behind it is applied.                       *)
LostBehindFailure ==
  \A id \in DOMAIN issued :
    /\ id \notin Range(Applied) /\ id \notin Range(Waiting) => Behind(id)
    /\ Behind(id) => id \notin Range(Applied)

(* Every command is applied once or lost to a failure in front of it. *)
AppliedOnceOrLost == AtMostOnce /\ LostBehindFailure

(* "command order is deterministic" (spec.md:368): commands of one source
   apply in the order it issued them, and those staged by different systems
   of one schedule run in the order of the systems, whatever order the
   systems ran in.                                                         *)
InIssueOrder == \A i, j \in DOMAIN done : i < j => InOrder(done[i].id, done[j].id)

(* A staged command is applied in PostUpdate, in the first frame whose drain
   comes after the end of the schedule that staged it: one staged in Update
   in its own frame, one staged in Last a frame later.  No later drain passes
   over it, unless a panic interrupted its frame.  (The frame counter stops
   at MaxFrame, so nothing is said of drains from there on.)               *)
StagedMissNoDrain ==
  /\ \A i \in DOMAIN done :
       LET id == done[i].id
       IN IsStaged(id) => /\ done[i].phase = "post" /\ FirstDrain(id) <= done[i].frame
                          /\ ~PassedOver(id, done[i].frame)
  /\ \A id \in DOMAIN issued \ Range(Ids(left)) :
       IsStaged(id) /\ Contains(Waiting, id) => ~PassedOver(id, MaxFrame)

(* playback returns Ok(true) exactly when it changed the registry, over all
   batches and whichever way their commands report a change, and Ok only
   once nothing is waiting.                                                *)
PlaybackReportsChange ==
  worker = "playback" /\ worker' = "none" /\ reply'.result = "Ok" =>
    /\ reply'.changed = moved
    /\ batches' = <<>>

(* A chain returns the error of its first failing call, also when calls
   behind it would have succeeded, and Ok only when every call was applied. *)
EditReportsFirstError ==
  worker = "edit" /\ worker' = "none" /\ phase' # "panicked" =>
    LET chain == Last(takes)
        failures == {i \in DOMAIN done : Contains(chain, done[i].id) /\ Failed(done[i].verdict)}
    IN reply'.result = IF failures = {} THEN "Ok" ELSE done[Min(failures)].verdict

(* What a caller is told of its playback or chain is what happened. *)
RepliesAreTrue == [][PlaybackReportsChange /\ EditReportsFirstError]_pipelineVars

(* "the plugin replays them later" (README.md:375): nothing waits for ever.
   Every command that was staged, enqueued or put in a chain is eventually
   applied or dropped, also across panics the host survives.               *)
EverythingSettles ==
  \A id \in 1..MaxCommands : [](id \in DOMAIN issued => <>(~Contains(Waiting, id)))

=============================================================================
