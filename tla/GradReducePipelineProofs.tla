------------------------ MODULE GradReducePipelineProofs ------------------------
(***************************************************************************)
(* What gradient reduction guarantees for every layout of buckets, every   *)
(* order of gradients and every set of unused parameters, without the      *)
(* fixed pool: no hook raises, a launched collective finds its gradients   *)
(* intact, and every gradient is reduced exactly once.                     *)
(***************************************************************************)
EXTENDS GradReducePipeline, FoldProofs

NoDoubleBuffer == FsdpDoubleBuffer = FALSE

\* No gradient shard is overwritten in place by the next microbatch, and unsharded
\* gradients are reduced at one place: by the hooks of one microbatch, marked or
\* the only one, or without overlap by the optimizer step.
EachReducedOnce ==
  \A s \in Setups :
    IF s.sharded THEN s.inplace => s.microbatches = 1
    ELSE IF s.overlap THEN IF s.auto_sync THEN s.microbatches = 1 ELSE s.marks_last
    ELSE ~s.auto_sync /\ ~s.marks_last

----------------------------------------------------------------------------
(* The invariant.                                                          *)

\* Inside a backward pass.
InPass == pc \in {"backward", "accumulate", "ready", "capacity", "next", "reset"}

\* Parameter p is still to be marked ready in this pass, by its own hook or by
\* the root hook.
Pending(p) ==
  IF pass = "reduce" THEN p \in todo \/ (pc \in {"ready", "capacity"} /\ p = cur)
  ELSE p \in require_handle

GroupMate(p, b) == BucketOf[p] \in Group(b)
Awaited(b) == \E p \in Param : GroupMate(p, b) /\ Pending(p)

\* The gradient of this pass is in the bucket's storage.
Stored(p) ==
  setup.sharded => /\ storage[BucketOf[p]] = Own(BucketOf[p])
                   /\ <<p, microbatch>> \in grad_in[Own(BucketOf[p])]

Queued(b) == b \in Range(grad_reduce_queue)

\* The order of the hooks.
Control ==
  /\ pc = "backward" => pass = "hooks"
  /\ pc = "accumulate" => pass \in {"hooks", "accumulate"} /\ cur \in require_handle
  /\ pc \in {"ready", "capacity"} =>
       Reduces /\ pass \in {"hooks", "reduce"} /\ cur \in require_handle
  /\ pc = "next" => pass = "accumulate" \/ (pass = "reduce" /\ Reduces)
  /\ pc = "reset" => pass = "reduce" /\ todo = {} /\ Reduces
  /\ pass # "hooks" => todo \subseteq require_handle
  /\ pass # "hooks" /\ pc \in {"accumulate", "ready", "capacity"} => cur \notin todo
  /\ pc # "idle" => microbatch > 0
  /\ microbatch <= setup.microbatches

\* What is marked ready is stored, and is not marked again.
ReadySound ==
  \A b \in Bucket : \A p \in ready[b] :
    /\ InPass /\ Reduces /\ BucketOf[p] = b
    /\ Stored(p)
    /\ Pending(p) => pc = "capacity" /\ p = cur

\* What is about to be marked ready is stored.
StoredSound ==
  /\ \A b \in Bucket : storage[b] \in {NoStorage, Own(b)}
  /\ pc = "ready" => Stored(cur)
  /\ pc = "capacity" => GroupReady(BucketOf[cur], ready)
  /\ pass = "accumulate" /\ pc \in {"accumulate", "next"} =>
       \A p \in require_handle \ todo : Stored(p) \/ (pc = "accumulate" /\ p = cur)
  /\ pass = "reduce" /\ pc \in {"next", "ready", "capacity"} =>
       \A p \in Param : Pending(p) => Stored(p)

\* A launched group awaits nothing more in this pass.
QueueSound == \A b \in Bucket : Queued(b) => InPass /\ Reduces /\ ~Awaited(b)

\* A collective still to be executed is queued, and finds its gradients.
StreamSound ==
  \A i \in 1 .. Len(rs_stream) :
    /\ rs_stream[i].microbatch = microbatch
    /\ \A b \in DOMAIN rs_stream[i].from :
         /\ Queued(b)
         /\ setup.sharded => rs_stream[i].from[b] = Own(b) /\ Intact(rs_stream[i], b)

\* A bucket group that awaits a parameter has marked all others; one that does
\* not has been launched, and what is still marked is queued.
GroupsSound ==
  InPass /\ Reduces => \A b \in Bucket :
    IF Awaited(b) THEN \A p \in Param : GroupMate(p, b) => Pending(p) \/ p \in ready[BucketOf[p]]
    ELSE ready[b] # {} => Queued(b)

PipeInv ==
  /\ TypeOK /\ NoError
  /\ Control /\ ReadySound /\ StoredSound /\ QueueSound /\ StreamSound /\ GroupsSound

\* The group of bucket b is still to be launched in this pass.
Open(b) == InPass /\ Awaited(b)
SameOpen == Reduces => \A b \in Bucket : Open(b)' <=> Open(b)

\* The collective of bucket b is still to be executed.
InStream(b) == \E i \in 1 .. Len(rs_stream) : b \in DOMAIN rs_stream[i].from

\* No bucket is in two collectives.
StreamDisjoint ==
  \A i, j \in 1 .. Len(rs_stream) :
    i # j => DOMAIN rs_stream[i].from \cap DOMAIN rs_stream[j].from = {}

\* Sharded main gradients have what has been launched and executed.
ShardedSound ==
  setup.sharded =>
    \A p \in Param, m \in Microbatch :
      main_grad[p][m] =
        IF m < microbatch \/ (m = microbatch /\ ~Open(BucketOf[p]) /\ ~InStream(BucketOf[p]))
        THEN "reduced" ELSE "absent"

\* The gradient of this pass is in the main gradient.
Accumulated(p) ==
  InPass => CASE pass = "hooks" -> p \notin require_handle \/ (p = cur /\ pc \in {"ready", "capacity"})
              [] pass = "accumulate" -> p \notin todo /\ ~(p = cur /\ pc = "accumulate")
              [] OTHER -> TRUE

\* The main gradient of p has been reduced in this cycle.
Summed(p) == \/ Reduces /\ ~Open(BucketOf[p]) /\ ~InStream(BucketOf[p])
             \/ ~setup.overlap /\ pc = "synced"

\* Unsharded main gradients have what has been accumulated, reduced or not.
UnshardedSound ==
  ~setup.sharded =>
    \A p \in Param, m \in Microbatch :
      main_grad[p][m] = IF m > microbatch \/ (m = microbatch /\ ~Accumulated(p)) THEN "absent"
                        ELSE IF Summed(p) THEN "reduced" ELSE "local"

\* The optimizer steps after the marked microbatch.
LoopSound ==
  /\ last => setup.marks_last
  /\ pc \in {"finish", "synced"} => setup.auto_sync \/ (setup.marks_last => last)

GradsSound == StreamDisjoint /\ ShardedSound /\ UnshardedSound /\ LoopSound

----------------------------------------------------------------------------
(* Facts about the layout and the queue.                                   *)

LEMMA Layout ==
  /\ \A b \in Bucket : b \in Group(b) /\ Group(b) \subseteq Bucket /\ ParamsOf(b) # {}
  /\ \A b \in Bucket : \A c \in Group(b) : Group(c) = Group(b) /\ GroupOf[c] = GroupOf[b]
  /\ BucketOf \in [Param -> Bucket] /\ GroupOf \in [Bucket -> Seq(Bucket)]
<1>1. \A b \in Bucket : GroupOf[b] \in Seq(Bucket)
  BY GradAssumption
<1>2. \A b \in Bucket : Group(b) \subseteq Bucket
  BY <1>1, RangeOfSeq DEF Group
<1> QED
  BY <1>2, GradAssumption DEF Group

LEMMA OwnStorage ==
  \A b, c \in Bucket : Own(b) \in Storages /\ Own(b) # NoStorage /\ (Own(b) = Own(c) => b = c)
BY DEF Own, Storages, NoStorage

\* Without the fixed pool a bucket has the storage of its own.
LEMMA AllocatesOwn ==
  ASSUME NoDoubleBuffer, NEW b \in Bucket, storage[b] \in {NoStorage, Own(b)}
  PROVE  Allocated(b) = Own(b)
BY DEF NoDoubleBuffer, Allocated, Pooled

LEMMA QueueHead ==
  ASSUME grad_reduce_queue \in Seq(Bucket), grad_reduce_queue # <<>>
  PROVE  /\ Head(grad_reduce_queue) \in Bucket /\ Queued(Head(grad_reduce_queue))
         /\ Tail(grad_reduce_queue) \in Seq(Bucket)
         /\ \A b : b \in Range(Tail(grad_reduce_queue)) => Queued(b)
         /\ \A b : Queued(b) => \/ b = Head(grad_reduce_queue)
                                \/ b \in Range(Tail(grad_reduce_queue))
<1> DEFINE q == grad_reduce_queue
<1>1. /\ Head(q) \in Bucket /\ Tail(q) \in Seq(Bucket)
      /\ Len(Tail(q)) = Len(q) - 1 /\ Len(q) \in Nat \ {0} /\ Head(q) = q[1]
      /\ \A i \in 1 .. Len(Tail(q)) : Tail(q)[i] = q[i + 1]
  BY HeadTailProperties, EmptySeq, LenProperties
<1>2. Range(q) = {q[i] : i \in 1 .. Len(q)}
  BY RangeEquality
<1>3. Range(Tail(q)) = {Tail(q)[i] : i \in 1 .. Len(Tail(q))}
  BY <1>1, RangeEquality
<1>4. ASSUME NEW b, b \in Range(Tail(q)) PROVE b \in Range(q)
  <2>1. PICK i \in 1 .. Len(Tail(q)) : b = Tail(q)[i]
    BY <1>3, <1>4
  <2>2. i + 1 \in 1 .. Len(q) /\ b = q[i + 1]
    BY <1>1, <2>1
  <2> QED
    BY <1>2, <2>2
<1>5. ASSUME NEW b, b \in Range(q) PROVE b = Head(q) \/ b \in Range(Tail(q))
  <2>1. PICK i \in 1 .. Len(q) : b = q[i]
    BY <1>2, <1>5
  <2>2. CASE i = 1
    BY <1>1, <2>1, <2>2
  <2>3. CASE i # 1
    <3>1. i - 1 \in 1 .. Len(Tail(q)) /\ b = Tail(q)[i - 1]
      BY <1>1, <2>1, <2>3
    <3> QED
      BY <1>3, <3>1
  <2> QED
    BY <2>2, <2>3
<1>6. Head(q) \in Range(q)
  BY <1>1, <1>2
<1> QED
  BY <1>1, <1>4, <1>5, <1>6 DEF Queued

LEMMA QueueEmpty == grad_reduce_queue = <<>> => \A b : ~Queued(b)
BY DEF Queued, Range

\* The collectives of the stream.
LEMMA StreamTypes ==
  ASSUME TypeOK, NEW i \in 1 .. Len(rs_stream)
  PROVE  /\ rs_stream[i].microbatch \in Microbatch
         /\ DOMAIN rs_stream[i].from \subseteq Bucket /\ DOMAIN rs_stream[i].from # {}
<1>1. rs_stream[i] \in Collective
  BY ElementOfSeq DEF TypeOK
<1>2. PICK b \in Bucket : rs_stream[i].from \in [Group(b) -> Storages \cup {NoStorage}]
  BY <1>1 DEF Collective
<1> QED
  BY <1>1, <1>2, Layout DEF Collective

\* Without queued buckets nothing is to be executed.
LEMMA StreamEmpty ==
  ASSUME TypeOK, StreamSound, grad_reduce_queue = <<>>
  PROVE  rs_stream = <<>>
<1>1. rs_stream \in Seq(Collective)
  BY DEF TypeOK
<1>2. \A i \in 1 .. Len(rs_stream) : FALSE
  BY StreamTypes, QueueEmpty DEF StreamSound
<1> QED
  BY <1>1, <1>2, EmptySeq, LenProperties

\* Buckets of one group await the same parameters.
LEMMA AwaitedTogether ==
  \A b \in Bucket : \A c \in Group(b) : Awaited(c) <=> Awaited(b)
BY Layout DEF Awaited, GroupMate

----------------------------------------------------------------------------
(* The invariant holds initially and is kept by each action.               *)

LEMMA SetupTypes ==
  ASSUME TypeOK
  PROVE  /\ setup.sharded \in BOOLEAN /\ setup.inplace \in BOOLEAN /\ setup.overlap \in BOOLEAN
         /\ setup.auto_sync \in BOOLEAN /\ setup.microbatches \in Microbatch
         /\ setup.sharded => Reduces
BY GradAssumption DEF TypeOK, Setup, Reduces

LEMMA PipeInit == Init => PipeInv
<1> SUFFICES ASSUME Init PROVE PipeInv
  OBVIOUS
<1> USE DEF Init
<1>1. TypeOK
  <2>1. 0 \in Param
    BY GradAssumption DEF Param
  <2>2. <<>> \in Seq(Bucket) /\ <<>> \in Seq(Collective) /\ 0 \in 0 .. MaxMicrobatches
    BY GradAssumption
  <2> QED
    BY <2>1, <2>2 DEF TypeOK, Share
<1>2. \A b \in Bucket : ~Queued(b)
  BY QueueEmpty
<1>3. setup.microbatches \in Nat
  BY <1>1, SetupTypes DEF Microbatch
<1> QED
  BY <1>1, <1>2, <1>3, GradAssumption
     DEF PipeInv, NoError, Control, ReadySound, StoredSound, QueueSound, StreamSound, GroupsSound,
         InPass

LEMMA StartBackwardInv ==
  ASSUME PipeInv, NEW receives \in UsedSets, NEW is_last \in BOOLEAN,
         raised = "none", StartBackward(receives, is_last)
  PROVE  PipeInv'
<1> USE DEF PipeInv, StartBackward
<1>1. TypeOK'
  BY GradAssumption, SetupTypes DEF TypeOK, pipelineVars, Microbatch
<1>2. \A b \in Bucket : ready[b] = {} /\ ~Queued(b) /\ ~Queued(b)'
  BY DEF ReadySound, QueueSound, InPass, Queued, pipelineVars, TypeOK
<1>3. rs_stream = <<>> /\ rs_stream' = <<>>
  BY <1>2, StreamTypes, EmptySeq DEF StreamSound, pipelineVars, TypeOK
<1>4. \A p \in Param : Pending(p)'
  BY DEF Pending
<1>5. \A b \in Bucket : Awaited(b)'
  BY <1>4, Layout DEF Awaited, GroupMate, ParamsOf
<1>6. NoError' /\ Control'
  BY SetupTypes, <1>1 DEF NoError, Control, Microbatch, TypeOK
<1>7. ReadySound' /\ QueueSound' /\ StreamSound'
  BY <1>2, <1>3 DEF ReadySound, QueueSound, StreamSound, pipelineVars
<1>8. StoredSound'
  BY DEF StoredSound, pipelineVars
<1>9. GroupsSound'
  BY <1>4, <1>5 DEF GroupsSound
<1> QED
  BY <1>1, <1>6, <1>7, <1>8, <1>9


LEMMA GradientArrivesInv ==
  ASSUME PipeInv, NEW p \in Param, GradientArrives(p)
  PROVE  PipeInv' /\ SameOpen
<1> USE DEF PipeInv, GradientArrives
<1>1. TypeOK' /\ NoError' /\ Control'
  BY DEF TypeOK, NoError, Control, pipelineVars, Coming
<1>2. \A q \in Param : Pending(q)' <=> Pending(q)
  BY DEF Pending, Control
<1>3. \A b \in Bucket : (Awaited(b)' <=> Awaited(b)) /\ (Queued(b)' <=> Queued(b))
  BY <1>2 DEF Awaited, GroupMate, Queued, pipelineVars
<1>4. ReadySound' /\ StoredSound'
  BY <1>2 DEF ReadySound, StoredSound, Stored, TypeOK, InPass, Reduces, pipelineVars, Control
<1>5. QueueSound' /\ StreamSound'
  BY <1>3, StreamTypes DEF QueueSound, StreamSound, InPass, Reduces, pipelineVars, Intact
<1>6. GroupsSound'
  BY <1>2, <1>3 DEF GroupsSound, GroupMate, InPass, Reduces, pipelineVars
<1>7. SameOpen
  BY <1>3 DEF SameOpen, Open, InPass
<1> QED
  BY <1>1, <1>4, <1>5, <1>6, <1>7

LEMMA RootPostBackwardInv ==
  ASSUME PipeInv, RootPostBackward
  PROVE  PipeInv' /\ SameOpen
<1> USE DEF PipeInv, RootPostBackward
<1>1. TypeOK' /\ NoError' /\ Control'
  BY DEF TypeOK, NoError, Control, pipelineVars
<1>2. \A q \in Param : Pending(q)' <=> Pending(q)
  BY DEF Pending, Control
<1>3. \A b \in Bucket : (Awaited(b)' <=> Awaited(b)) /\ (Queued(b)' <=> Queued(b))
  BY <1>2 DEF Awaited, GroupMate, Queued, pipelineVars
<1>4. ReadySound' /\ StoredSound'
  BY <1>2 DEF ReadySound, StoredSound, Stored, TypeOK, InPass, Reduces, pipelineVars, Control
<1>5. QueueSound' /\ StreamSound'
  BY <1>3, StreamTypes DEF QueueSound, StreamSound, InPass, Reduces, pipelineVars, Intact
<1>6. GroupsSound'
  BY <1>2, <1>3 DEF GroupsSound, GroupMate, InPass, Reduces, pipelineVars
<1>7. SameOpen
  BY <1>3 DEF SameOpen, Open, InPass
<1> QED
  BY <1>1, <1>4, <1>5, <1>6, <1>7

LEMMA NextLeftoverInv ==
  ASSUME PipeInv, NextLeftover
  PROVE  PipeInv' /\ SameOpen
<1> USE DEF PipeInv, NextLeftover
<1>1. TypeOK' /\ NoError' /\ Control'
  BY DEF TypeOK, NoError, Control, pipelineVars, Reduces
<1>2. \A q \in Param : Pending(q)' <=> Pending(q)
  BY DEF Pending, Control
<1>3. \A b \in Bucket : (Awaited(b)' <=> Awaited(b)) /\ (Queued(b)' <=> Queued(b))
  BY <1>2 DEF Awaited, GroupMate, Queued, pipelineVars
<1>4. ReadySound' /\ StoredSound'
  BY <1>2 DEF ReadySound, StoredSound, Stored, TypeOK, InPass, Reduces, pipelineVars, Control, Pending
<1>5. QueueSound' /\ StreamSound'
  BY <1>3, StreamTypes DEF QueueSound, StreamSound, InPass, Reduces, pipelineVars, Intact
<1>6. GroupsSound'
  BY <1>2, <1>3 DEF GroupsSound, GroupMate, InPass, Reduces, pipelineVars
<1>7. SameOpen
  BY <1>3 DEF SameOpen, Open, InPass
<1> QED
  BY <1>1, <1>4, <1>5, <1>6, <1>7

LEMMA EndLeftoversInv ==
  ASSUME PipeInv, EndLeftovers
  PROVE  PipeInv' /\ SameOpen
<1> USE DEF PipeInv, EndLeftovers
<1>1. TypeOK' /\ NoError' /\ Control'
  BY DEF TypeOK, NoError, Control, pipelineVars, Reduces
<1>2. Reduces' <=> Reduces
  BY DEF Reduces
<1>3. \A b \in Bucket : Queued(b)' <=> Queued(b)
  BY DEF Queued, pipelineVars
<1>4. CASE ~Reduces
  <2>1. \A b \in Bucket : ready[b] = {} /\ ~Queued(b)
    BY <1>4 DEF ReadySound, QueueSound, TypeOK
  <2>2. \A i \in 1 .. Len(rs_stream) : FALSE
    BY <2>1, StreamTypes DEF StreamSound
  <2>3. ReadySound' /\ StoredSound' /\ QueueSound' /\ StreamSound' /\ GroupsSound'
    BY <1>2, <1>3, <1>4, <2>1, <2>2 DEF ReadySound, StoredSound, QueueSound, StreamSound, GroupsSound, pipelineVars
  <2> QED
    BY <1>1, <1>4, <2>3 DEF SameOpen
<1>5. CASE Reduces
  <2>1. \A q \in Param : Pending(q)' <=> Pending(q)
    BY <1>5 DEF Pending, Control
  <2>2. \A b \in Bucket : Awaited(b)' <=> Awaited(b)
    BY <2>1 DEF Awaited, GroupMate
  <2>3. ReadySound' /\ StoredSound'
    BY <2>1, <1>5 DEF ReadySound, StoredSound, Stored, TypeOK, InPass, Reduces, pipelineVars, Control, Pending
  <2>4. QueueSound' /\ StreamSound'
    BY <1>3, <1>5, <2>2, StreamTypes DEF QueueSound, StreamSound, InPass, Reduces, pipelineVars, Intact
  <2>5. GroupsSound'
    BY <2>1, <2>2, <1>3 DEF GroupsSound, GroupMate, InPass, Reduces, pipelineVars
  <2>6. SameOpen
    BY <2>2, <1>5 DEF SameOpen, Open, InPass
  <2> QED
    BY <1>1, <2>3, <2>4, <2>5, <2>6
<1> QED
  BY <1>4, <1>5

\* Between passes nothing is marked, queued or to be executed.
LEMMA Quiet ==
  ASSUME PipeInv, ~InPass
  PROVE  /\ \A b \in Bucket : ready[b] = {} /\ ~Queued(b)
         /\ \A i \in 1 .. Len(rs_stream) : FALSE
<1>1. \A b \in Bucket : ready[b] = {} /\ ~Queued(b)
  BY DEF PipeInv, ReadySound, QueueSound, TypeOK
<1> QED
  BY <1>1, StreamTypes DEF PipeInv, StreamSound

LEMMA BetweenPassesInv ==
  ASSUME PipeInv, raised = "none", EndBackward \/ BeginStep \/ ReduceAll \/ StepAndZeroGrad
  PROVE  PipeInv' /\ SameOpen
<1>1. ~InPass /\ ~InPass'
  BY DEF EndBackward, BeginStep, ReduceAll, StepAndZeroGrad, InPass, Goto
<1>2. /\ TypeOK' /\ NoError' /\ Control'
      /\ UNCHANGED <<ready, storage, grad_reduce_queue, rs_stream>>
  <2>1. main_grad' \in [Param -> [Microbatch -> Share]]
    BY DEF PipeInv, TypeOK, EndBackward, BeginStep, ReduceAll, StepAndZeroGrad, SumOver, Share,
           pipelineVars
  <2>2. CASE EndBackward
    BY <2>1, <2>2 DEF PipeInv, TypeOK, NoError, Control, EndBackward, pipelineVars, loopVars
  <2>3. CASE BeginStep
    BY <2>1, <2>3 DEF PipeInv, TypeOK, NoError, Control, BeginStep, pipelineVars, loopVars
  <2>4. CASE ReduceAll
    BY <2>1, <2>4 DEF PipeInv, TypeOK, NoError, Control, ReduceAll, Goto, pipelineVars, loopVars
  <2>5. CASE StepAndZeroGrad
    <3>1. setup.microbatches \in Nat /\ 0 \in 0 .. MaxMicrobatches
      BY SetupTypes, GradAssumption DEF PipeInv, Microbatch
    <3>2. TypeOK' /\ NoError'
      BY <2>1, <2>5, <3>1 DEF PipeInv, TypeOK, NoError, StepAndZeroGrad
    <3>3. Control'
      BY <2>5, <3>1 DEF PipeInv, Control, StepAndZeroGrad
    <3> QED
      BY <2>5, <3>2, <3>3 DEF StepAndZeroGrad
  <2> QED
    BY <2>2, <2>3, <2>4, <2>5
<1>3. ReadySound' /\ StoredSound' /\ QueueSound' /\ StreamSound' /\ GroupsSound'
  BY <1>1, <1>2, Quiet
     DEF PipeInv, ReadySound, StoredSound, QueueSound, StreamSound, GroupsSound, InPass, Queued, Control
<1> QED
  BY <1>1, <1>2, <1>3 DEF PipeInv, SameOpen, Open


\* Writing a gradient stores it, and leaves the others of its pass stored.
LEMMA WriteStores ==
  ASSUME PipeInv, NEW p \in Param, microbatch \in Microbatch,
         storage' = [storage EXCEPT ![BucketOf[p]] = Own(BucketOf[p])],
         grad_in' = Write(p, Own(BucketOf[p])),
         UNCHANGED <<setup, microbatch>>
  PROVE  /\ Stored(p)'
         /\ \A q \in Param : Stored(q) => Stored(q)'
         /\ \A q \in Param : <<q, microbatch>> \in grad_in[Own(BucketOf[q])]
                               => <<q, microbatch>> \in grad_in'[Own(BucketOf[q])]
         /\ storage' \in [Bucket -> Storages \cup {NoStorage}]
         /\ grad_in' \in [Storages -> SUBSET (Param \X Microbatch)]
<1>1. BucketOf[p] \in Bucket /\ Own(BucketOf[p]) \in Storages
  BY Layout, OwnStorage
<1>2. ASSUME NEW q \in Param, <<q, microbatch>> \in grad_in[Own(BucketOf[q])]
      PROVE  <<q, microbatch>> \in grad_in'[Own(BucketOf[q])]
  <2>1. CASE BucketOf[q] = BucketOf[p]
    BY <1>1, <1>2, <2>1 DEF Write, PipeInv, TypeOK
  <2>2. CASE BucketOf[q] # BucketOf[p]
    <3>1. Own(BucketOf[q]) # Own(BucketOf[p]) /\ Own(BucketOf[q]) \in Storages
      BY <2>2, Layout, OwnStorage
    <3> QED
      BY <1>1, <1>2, <3>1 DEF Write, PipeInv, TypeOK
  <2> QED
    BY <2>1, <2>2
<1>3. <<p, microbatch>> \in grad_in'[Own(BucketOf[p])]
  BY <1>1 DEF Write, PipeInv, TypeOK
<1>4. \A q \in Param : storage[BucketOf[q]] = Own(BucketOf[q])
                         => storage'[BucketOf[q]] = Own(BucketOf[q])
  BY Layout DEF PipeInv, TypeOK
<1>5. storage'[BucketOf[p]] = Own(BucketOf[p])
  BY <1>1 DEF PipeInv, TypeOK
<1>6. storage' \in [Bucket -> Storages \cup {NoStorage}]
  BY <1>1 DEF PipeInv, TypeOK
<1>7. grad_in' \in [Storages -> SUBSET (Param \X Microbatch)]
  BY <1>1 DEF Write, PipeInv, TypeOK
<1> QED
  BY <1>2, <1>3, <1>4, <1>5, <1>6, <1>7 DEF Stored

LEMMA AccumulateInv ==
  ASSUME PipeInv, raised = "none", NoDoubleBuffer, Accumulate
  PROVE  PipeInv' /\ SameOpen
<1> DEFINE b == BucketOf[cur]
<1>1. cur \in Param /\ b \in Bucket /\ Allocated(b) = Own(b) /\ Own(b) # NoStorage
  BY Layout, AllocatesOwn, OwnStorage DEF PipeInv, TypeOK, StoredSound
<1>2. pc = "accumulate" /\ pass \in {"hooks", "accumulate"} /\ cur \in require_handle
  BY DEF PipeInv, Control, Accumulate
<1>3. microbatch \in Microbatch
  BY <1>2 DEF PipeInv, Control, TypeOK, Microbatch
<1>4. /\ Stored(cur)' /\ \A q \in Param : Stored(q) => Stored(q)'
      /\ \A q \in Param : setup.sharded /\ <<q, microbatch>> \in grad_in[Own(BucketOf[q])]
                            => <<q, microbatch>> \in grad_in'[Own(BucketOf[q])]
      /\ storage' \in [Bucket -> Storages \cup {NoStorage}]
      /\ grad_in' \in [Storages -> SUBSET (Param \X Microbatch)]
      /\ \A c \in Bucket : storage'[c] \in {NoStorage, Own(c)}
      /\ main_grad' \in [Param -> [Microbatch -> Share]]
      /\ UNCHANGED <<setup, microbatch, last, used, cur, pass, todo, raised, ready,
                     grad_reduce_queue, rs_stream>>
  <2>1. UNCHANGED <<setup, microbatch, last, used, cur, pass, todo, raised, ready,
                    grad_reduce_queue, rs_stream>>
    BY <1>1 DEF Accumulate, Goto, Return, loopVars, Raise
  <2>2. CASE setup.sharded
    <3>1. /\ storage' = [storage EXCEPT ![b] = Own(b)]
          /\ grad_in' = Write(cur, Own(b)) /\ UNCHANGED main_grad
      BY <1>1, <2>2 DEF Accumulate
    <3>2. /\ Stored(cur)' /\ \A q \in Param : Stored(q) => Stored(q)'
          /\ \A q \in Param : <<q, microbatch>> \in grad_in[Own(BucketOf[q])]
                               => <<q, microbatch>> \in grad_in'[Own(BucketOf[q])]
          /\ storage' \in [Bucket -> Storages \cup {NoStorage}]
          /\ grad_in' \in [Storages -> SUBSET (Param \X Microbatch)]
      BY <1>1, <1>3, <2>1, <3>1, WriteStores
    <3>3. \A c \in Bucket : storage'[c] \in {NoStorage, Own(c)}
      BY <1>1, <3>1 DEF PipeInv, TypeOK, StoredSound
    <3> QED
      BY <2>1, <3>1, <3>2, <3>3 DEF PipeInv, TypeOK
  <2>3. CASE ~setup.sharded
    <3>1. /\ main_grad' = [main_grad EXCEPT ![cur][microbatch] = "local"]
          /\ UNCHANGED <<storage, grad_in>>
      BY <2>3 DEF Accumulate
    <3> QED
      BY <1>1, <1>3, <2>1, <2>3, <3>1 DEF PipeInv, TypeOK, Share, Stored, StoredSound
  <2> QED
    BY <2>2, <2>3
<1>5. \/ pass = "hooks" /\ Reduces /\ pc' = "ready" /\ UNCHANGED require_handle
      \/ pass = "hooks" /\ ~Reduces /\ pc' = "backward" /\ require_handle' = require_handle \ {cur}
      \/ pass = "accumulate" /\ pc' = "next" /\ UNCHANGED require_handle
  BY <1>1, <1>2, SetupTypes DEF Accumulate, Goto, Return, Raise, loopVars, PipeInv
<1>6. TypeOK' /\ NoError' /\ Control' /\ (Reduces' <=> Reduces) /\ InPass' /\ InPass
  <2>1. TypeOK'
    BY <1>2, <1>4, <1>5 DEF PipeInv, TypeOK
  <2> QED
    BY <1>2, <1>4, <1>5, <2>1 DEF PipeInv, NoError, Control, Reduces, InPass
<1>7. \A q \in Param : Reduces => (Pending(q)' <=> Pending(q))
  BY <1>2, <1>4, <1>5 DEF Pending
<1>8. \A c \in Bucket : /\ Reduces => (Awaited(c)' <=> Awaited(c))
                        /\ Queued(c)' <=> Queued(c)
  BY <1>4, <1>7 DEF Awaited, GroupMate, Queued
<1>9. ReadySound'
  BY <1>2, <1>4, <1>6, <1>7 DEF PipeInv, ReadySound, TypeOK
<1>10. StoredSound'
  BY <1>2, <1>4, <1>5 DEF PipeInv, StoredSound, TypeOK
<1>11. QueueSound'
  BY <1>6, <1>8 DEF PipeInv, QueueSound
<1>12. StreamSound'
  <2> SUFFICES ASSUME NEW i \in 1 .. Len(rs_stream)
               PROVE  /\ rs_stream[i].microbatch = microbatch
                      /\ \A c \in DOMAIN rs_stream[i].from :
                           /\ Queued(c)'
                           /\ setup.sharded => rs_stream[i].from[c] = Own(c) /\ Intact(rs_stream[i], c)'
    BY <1>4 DEF StreamSound, Intact
  <2>1. /\ rs_stream[i].microbatch = microbatch
        /\ \A c \in DOMAIN rs_stream[i].from :
             /\ c \in Bucket /\ Queued(c)
             /\ setup.sharded => rs_stream[i].from[c] = Own(c) /\ Intact(rs_stream[i], c)
    BY StreamTypes DEF PipeInv, StreamSound
  <2> QED
    BY <1>4, <1>8, <2>1 DEF Intact, ParamsOf
<1>13. GroupsSound'
  BY <1>4, <1>6, <1>7, <1>8 DEF PipeInv, GroupsSound, GroupMate
<1>14. SameOpen
  BY <1>6, <1>8 DEF SameOpen, Open
<1> QED
  BY <1>6, <1>9, <1>10, <1>11, <1>12, <1>13, <1>14 DEF PipeInv


LEMMA MarkReadyInv ==
  ASSUME PipeInv, MarkReady
  PROVE  PipeInv' /\ SameOpen
<1> DEFINE b == BucketOf[cur]
<1>1. cur \in Param /\ b \in Bucket /\ cur \in require_handle /\ Reduces
      /\ pass \in {"hooks", "reduce"} /\ Pending(cur) /\ Stored(cur) /\ pc = "ready"
      /\ (pass = "reduce" => cur \notin todo)
  BY Layout DEF PipeInv, TypeOK, Control, StoredSound, MarkReady, Pending
<1>2. /\ ready' = [ready EXCEPT ![b] = @ \cup {cur}]
      /\ UNCHANGED <<grad_reduce_queue, storage, grad_in, rs_stream, main_grad, setup, used, microbatch,
                     last, cur, pass, todo, raised>>
  BY DEF MarkReady, Goto, Return, loopVars
<1>3. \/ GroupReady(b, ready') /\ pc' = "capacity" /\ UNCHANGED require_handle
      \/ ~GroupReady(b, ready') /\ pass = "hooks" /\ pc' = "backward" /\ require_handle' = require_handle \ {cur}
      \/ ~GroupReady(b, ready') /\ pass = "reduce" /\ pc' = "next" /\ UNCHANGED require_handle
  BY <1>1 DEF MarkReady, Goto, Return, loopVars
<1>4. TypeOK' /\ NoError' /\ Control' /\ (Reduces' <=> Reduces) /\ InPass' /\ InPass
  <2>1. TypeOK'
    BY <1>1, <1>2, <1>3 DEF PipeInv, TypeOK
  <2> QED
    BY <1>1, <1>2, <1>3, <2>1 DEF PipeInv, NoError, Control, Reduces, InPass
<1>5. \A q \in Param : Pending(q)' <=> Pending(q) /\ (pc' = "capacity" \/ q # cur)
  BY <1>1, <1>2, <1>3 DEF Pending
<1>6. \A q \in Param : Stored(q)' <=> Stored(q)
  BY <1>2 DEF Stored
<1>7. \A c \in Bucket : (Queued(c)' <=> Queued(c)) /\ (Awaited(c)' => Awaited(c))
  BY <1>2, <1>5 DEF Queued, Awaited, GroupMate
<1>8. \A c \in Bucket : ready'[c] = IF c = b THEN ready[c] \cup {cur} ELSE ready[c]
  BY <1>1, <1>2 DEF PipeInv, TypeOK
<1>9. ReadySound'
  <2> SUFFICES ASSUME NEW c \in Bucket, NEW p \in ready'[c]
               PROVE  BucketOf[p] = c /\ Stored(p)' /\ (Pending(p)' => pc' = "capacity" /\ p = cur)
    BY <1>1, <1>2, <1>4 DEF ReadySound
  <2>1. p \in Param
    BY <1>4 DEF TypeOK
  <2>2. CASE p \in ready[c]
    BY <1>1, <1>5, <1>6, <2>1, <2>2 DEF PipeInv, ReadySound
  <2>3. CASE p = cur /\ c = b
    BY <1>1, <1>5, <1>6, <2>3
  <2> QED
    BY <1>8, <2>2, <2>3
<1>10. StoredSound'
  BY <1>1, <1>2, <1>3, <1>5, <1>6 DEF PipeInv, StoredSound, TypeOK
<1>11. QueueSound'
  BY <1>4, <1>7 DEF PipeInv, QueueSound
<1>12. StreamSound'
  BY <1>2, <1>7, StreamTypes DEF PipeInv, StreamSound, Intact
\* if cur is not the last of its group, the group awaits another
<1>13. ASSUME NEW c \in Bucket, Awaited(c) PROVE Awaited(c)'
  <2> SUFFICES ASSUME ~Awaited(c)' PROVE FALSE
    OBVIOUS
  <2>1. pc' # "capacity" /\ ~GroupReady(b, ready') /\ GroupMate(cur, c)
    BY <1>3, <1>5, <1>13 DEF Awaited, GroupMate
  <2>2. PICK d \in Group(b) : ready'[d] # ParamsOf(d)
    BY <2>1 DEF GroupReady
  <2>3. d \in Bucket /\ d \in Group(c)
    BY <1>1, <2>1, <2>2, Layout DEF GroupMate
  <2>4. ready'[d] \subseteq ParamsOf(d)
    BY <1>4, <1>9, <2>3 DEF ReadySound, ParamsOf, TypeOK
  <2>5. PICK p \in ParamsOf(d) : p \notin ready'[d]
    BY <2>2, <2>4
  <2>6. p \in Param /\ GroupMate(p, c) /\ BucketOf[p] = d
    BY <2>3, <2>5 DEF ParamsOf, GroupMate
  <2>7. Pending(p) /\ p # cur
    BY <1>1, <1>4, <1>8, <1>13, <2>3, <2>5, <2>6 DEF PipeInv, GroupsSound
  <2> QED
    BY <1>5, <2>6, <2>7 DEF Awaited, GroupMate
<1>14. GroupsSound'
  <2> SUFFICES ASSUME NEW c \in Bucket
               PROVE  IF Awaited(c)
                      THEN \A p \in Param : GroupMate(p, c) => Pending(p)' \/ p \in ready'[BucketOf[p]]
                      ELSE ready'[c] # {} => Queued(c)
    BY <1>7, <1>13 DEF GroupsSound, GroupMate
  <2>1. IF Awaited(c)
        THEN \A p \in Param : GroupMate(p, c) => Pending(p) \/ p \in ready[BucketOf[p]]
        ELSE ready[c] # {} => Queued(c)
    BY <1>1, <1>4 DEF PipeInv, GroupsSound
  <2>2. CASE Awaited(c)
    BY <1>5, <1>8, <2>1, <2>2, Layout
  <2>3. CASE ~Awaited(c)
    <3>1. c # b
      BY <1>1, <2>3, Layout DEF Awaited, GroupMate
    <3> QED
      BY <1>8, <2>1, <2>3, <3>1
  <2> QED
    BY <2>2, <2>3
<1>15. SameOpen
  BY <1>4, <1>7, <1>13 DEF SameOpen, Open
<1> QED
  BY <1>4, <1>9, <1>10, <1>11, <1>12, <1>14, <1>15 DEF PipeInv

LEMMA LaunchInv ==
  ASSUME PipeInv, Launch
  PROVE  /\ PipeInv'
         /\ \A d \in Bucket : /\ Open(d)' <=> Open(d) /\ d \notin Group(BucketOf[cur])
                              /\ d \in Group(BucketOf[cur]) => Open(d)
<1> DEFINE b == BucketOf[cur]
           c == [microbatch |-> microbatch, from |-> [d \in Group(b) |-> storage[d]]]
<1>1. cur \in Param /\ b \in Bucket /\ cur \in require_handle /\ Reduces
      /\ pass \in {"hooks", "reduce"} /\ Pending(cur) /\ GroupReady(b, ready) /\ pc = "capacity"
      /\ (pass = "reduce" => cur \notin todo)
  BY Layout DEF PipeInv, TypeOK, Control, StoredSound, Launch, Pending
<1>2. /\ rs_stream' = Append(rs_stream, c)
      /\ grad_reduce_queue' = grad_reduce_queue \o GroupOf[b]
      /\ UNCHANGED <<ready, storage, grad_in, main_grad, setup, used, microbatch,
                     last, cur, pass, todo, raised>>
  BY DEF Launch, Return
<1>3. \/ pass = "hooks" /\ pc' = "backward" /\ require_handle' = require_handle \ {cur}
      \/ pass = "reduce" /\ pc' = "next" /\ UNCHANGED require_handle
  BY <1>1 DEF Launch, Return
<1>4. c \in Collective /\ rs_stream \in Seq(Collective)
  <2>1. microbatch \in Microbatch
    BY <1>1 DEF PipeInv, TypeOK, Control, Microbatch
  <2>2. c.from \in [Group(b) -> Storages \cup {NoStorage}]
    BY <1>1, Layout DEF PipeInv, TypeOK
  <2> QED
    BY <1>1, <2>1, <2>2 DEF PipeInv, TypeOK, Collective
<1>5. /\ rs_stream' \in Seq(Collective) /\ Len(rs_stream') = Len(rs_stream) + 1
      /\ \A i \in 1 .. Len(rs_stream) : rs_stream'[i] = rs_stream[i]
      /\ rs_stream'[Len(rs_stream) + 1] = c /\ Len(rs_stream) \in Nat
  <2> HIDE DEF c
  <2> QED
    BY <1>2, <1>4, AppendProperties, LenProperties
<1>6. /\ grad_reduce_queue' \in Seq(Bucket)
      /\ \A d : Queued(d)' <=> Queued(d) \/ d \in Group(b)
  <2>1. grad_reduce_queue \in Seq(Bucket) /\ GroupOf[b] \in Seq(Bucket)
    BY <1>1, Layout DEF PipeInv, TypeOK
  <2> QED
    BY <1>2, <2>1, ConcatProperties, RangeConcatenation DEF Queued, Group
<1>7. TypeOK' /\ NoError' /\ Control' /\ (Reduces' <=> Reduces) /\ InPass' /\ InPass
  <2> HIDE DEF c
  <2>1. TypeOK'
    BY <1>1, <1>2, <1>3, <1>5, <1>6 DEF PipeInv, TypeOK
  <2> QED
    BY <1>1, <1>2, <1>3, <2>1 DEF PipeInv, NoError, Control, Reduces, InPass
<1> HIDE DEF c
<1>8. \A q \in Param : Pending(q)' <=> Pending(q) /\ q # cur
  BY <1>1, <1>2, <1>3 DEF Pending
<1>9. \A q \in Param : Stored(q)' <=> Stored(q)
  BY <1>2 DEF Stored
\* all of the group is marked, so it awaited cur only
<1>10. \A q \in Param : GroupMate(q, b) => ~Pending(q)' /\ Stored(q)
  <2> SUFFICES ASSUME NEW q \in Param, GroupMate(q, b) PROVE ~Pending(q)' /\ Stored(q)
    OBVIOUS
  <2>1. q \in ready[BucketOf[q]] /\ BucketOf[q] \in Bucket
    BY <1>1, Layout DEF GroupMate, GroupReady, ParamsOf
  <2> QED
    BY <1>8, <2>1 DEF PipeInv, ReadySound
<1>11. \A d \in Bucket : /\ Awaited(d)' <=> Awaited(d) /\ d \notin Group(b)
                         /\ d \in Group(b) => Awaited(d)
  <2> SUFFICES ASSUME NEW d \in Bucket
               PROVE  /\ Awaited(d)' <=> Awaited(d) /\ d \notin Group(b)
                      /\ d \in Group(b) => Awaited(d)
    OBVIOUS
  <2>1. CASE d \in Group(b)
    <3>1. Group(d) = Group(b)
      BY <1>1, <2>1, Layout
    <3> QED
      BY <1>1, <1>10, <2>1, <3>1, Layout DEF Awaited, GroupMate
  <2>2. CASE d \notin Group(b)
    <3>1. ~GroupMate(cur, d)
      BY <1>1, <2>2, Layout DEF GroupMate
    <3> QED
      BY <1>8, <2>2, <3>1 DEF Awaited, GroupMate
  <2> QED
    BY <2>1, <2>2
<1>12. ReadySound'
  BY <1>1, <1>2, <1>7, <1>8, <1>9 DEF PipeInv, ReadySound, TypeOK
<1>13. StoredSound'
  BY <1>1, <1>2, <1>3, <1>8, <1>9 DEF PipeInv, StoredSound, TypeOK
<1>14. QueueSound'
  BY <1>1, <1>6, <1>7, <1>11 DEF PipeInv, QueueSound
<1>15. StreamSound'
  <2> SUFFICES ASSUME NEW i \in 1 .. Len(rs_stream) + 1
               PROVE  /\ rs_stream'[i].microbatch = microbatch
                      /\ \A d \in DOMAIN rs_stream'[i].from :
                           /\ Queued(d)'
                           /\ setup.sharded => rs_stream'[i].from[d] = Own(d) /\ Intact(rs_stream'[i], d)
    BY <1>2, <1>5 DEF StreamSound, Intact
  <2>1. CASE i \in 1 .. Len(rs_stream)
    BY <1>5, <1>6, <2>1 DEF PipeInv, StreamSound
  <2>2. CASE i = Len(rs_stream) + 1
    <3>1. rs_stream'[i] = c /\ c.microbatch = microbatch /\ DOMAIN c.from = Group(b)
          /\ \A d \in Group(b) : c.from[d] = storage[d]
      BY <1>5, <2>2 DEF c
    <3>2. ASSUME NEW d \in Group(b), setup.sharded PROVE storage[d] = Own(d) /\ Intact(c, d)
      <4>1. d \in Bucket /\ \A q \in ParamsOf(d) : q \in Param /\ BucketOf[q] = d /\ Stored(q)
        BY <1>1, <1>10, Layout DEF ParamsOf, GroupMate
      <4>2. storage[d] = Own(d)
        BY <3>2, <4>1, Layout DEF Stored
      <4>3. Own(d) # NoStorage /\ \A q \in ParamsOf(d) : <<q, microbatch>> \in grad_in[Own(d)]
        BY <3>2, <4>1, OwnStorage DEF Stored
      <4> QED
        BY <3>1, <4>2, <4>3 DEF Intact
    <3> QED
      BY <1>6, <3>1, <3>2
  <2> QED
    BY <1>5, <2>1, <2>2
<1>16. GroupsSound'
  <2> SUFFICES ASSUME NEW d \in Bucket
               PROVE  IF Awaited(d)'
                      THEN \A p \in Param : GroupMate(p, d) => Pending(p)' \/ p \in ready[BucketOf[p]]
                      ELSE ready[d] # {} => Queued(d)'
    BY <1>2 DEF GroupsSound, GroupMate
  <2>1. IF Awaited(d)
        THEN \A p \in Param : GroupMate(p, d) => Pending(p) \/ p \in ready[BucketOf[p]]
        ELSE ready[d] # {} => Queued(d)
    BY <1>1, <1>7 DEF PipeInv, GroupsSound
  <2>2. CASE d \in Group(b)
    BY <1>6, <1>11, <2>2
  <2>3. CASE d \notin Group(b)
    <3>1. ~GroupMate(cur, d)
      BY <1>1, <2>3, Layout DEF GroupMate
    <3> QED
      BY <1>6, <1>8, <1>11, <2>1, <2>3, <3>1
  <2> QED
    BY <2>2, <2>3
<1> QED
  BY <1>7, <1>11, <1>12, <1>13, <1>14, <1>15, <1>16 DEF PipeInv, Open


\* A bucket is freed after its collective has been executed.
LEMMA PopInv ==
  ASSUME PipeInv, Pop(FALSE)
  PROVE  PipeInv' /\ SameOpen
<1> DEFINE h == Head(grad_reduce_queue)
<1>1. /\ h \in Bucket /\ Queued(h) /\ Completed(h)
      /\ grad_reduce_queue' \in Seq(Bucket)
      /\ \A b : Queued(b)' => Queued(b)
      /\ \A b : Queued(b) => b = h \/ Queued(b)'
  BY QueueHead DEF Pop, PipeInv, TypeOK, Queued
<1>2. /\ ready' = [b \in Bucket |-> IF b = h THEN {} ELSE ready[b]]
      /\ storage' = [b \in Bucket |-> IF b = h THEN NoStorage ELSE storage[b]]
      /\ \A b \in Bucket : b # h => grad_in'[Own(b)] = grad_in[Own(b)]
      /\ grad_in' \in [Storages -> SUBSET (Param \X Microbatch)]
      /\ UNCHANGED <<main_grad, rs_stream, loopVars, pc, raised>>
  BY <1>1, OwnStorage DEF Pop, FreeUp, PipeInv, TypeOK
<1> HIDE DEF h
<1>3. InPass /\ Reduces /\ ~Awaited(h)
  BY <1>1 DEF PipeInv, QueueSound
<1>4. TypeOK' /\ NoError' /\ (InPass' <=> InPass) /\ (Reduces' <=> Reduces) /\ Control'
  <2>1. TypeOK'
    BY <1>1, <1>2 DEF PipeInv, TypeOK, loopVars
  <2> QED
    BY <1>2, <2>1 DEF PipeInv, NoError, InPass, Reduces, Control, loopVars
<1>5. \A p \in Param : Pending(p)' <=> Pending(p)
  BY <1>2 DEF Pending, loopVars
<1>6. \A b \in Bucket : Awaited(b)' <=> Awaited(b)
  BY <1>5 DEF Awaited, GroupMate
<1>7. \A p \in Param : BucketOf[p] # h /\ Stored(p) => Stored(p)'
  BY <1>2, Layout DEF Stored, loopVars
<1>8. \A p \in Param : BucketOf[p] = h => ~Pending(p)
  BY <1>1, <1>3, Layout DEF Awaited, GroupMate
<1>9. ReadySound'
  <2> SUFFICES ASSUME NEW b \in Bucket, NEW p \in ready'[b]
               PROVE  /\ BucketOf[p] = b /\ Stored(p)'
                      /\ Pending(p)' => pc' = "capacity" /\ p = cur'
    BY <1>3, <1>4 DEF ReadySound
  <2>1. b # h /\ p \in ready[b] /\ p \in Param
    BY <1>2, <1>4 DEF TypeOK
  <2> QED
    BY <1>2, <1>5, <1>7, <2>1 DEF PipeInv, ReadySound, loopVars
<1>10. StoredSound'
  <2>1. \A b \in Bucket : storage'[b] \in {NoStorage, Own(b)}
    BY <1>2 DEF PipeInv, StoredSound
  <2>2. pc' = "ready" => Stored(cur)'
    BY <1>2, <1>7, <1>8 DEF PipeInv, StoredSound, Control, Pending, TypeOK, loopVars
  <2>3. pc' = "capacity" => GroupReady(BucketOf[cur], ready)'
    <3> SUFFICES ASSUME pc = "capacity" PROVE GroupReady(BucketOf[cur], ready')
      BY <1>2 DEF GroupReady, loopVars
    <3>1. cur \in Param /\ Pending(cur) /\ GroupReady(BucketOf[cur], ready)
      BY DEF PipeInv, Control, Pending, TypeOK, StoredSound
    <3>2. h \notin Group(BucketOf[cur])
      BY <1>3, <3>1, Layout DEF Awaited, GroupMate
    <3> QED
      BY <1>2, <3>1, <3>2, Layout DEF GroupReady
  <2>4. pass' = "accumulate" /\ pc' \in {"accumulate", "next"} =>
          \A p \in require_handle' \ todo' : Stored(p)' \/ (pc' = "accumulate" /\ p = cur')
    BY <1>2, <1>7, <1>8 DEF PipeInv, StoredSound, Pending, TypeOK, loopVars
  <2>5. pass' = "reduce" /\ pc' \in {"next", "ready", "capacity"} =>
          \A p \in Param : Pending(p)' => Stored(p)'
    BY <1>2, <1>5, <1>7, <1>8 DEF PipeInv, StoredSound, loopVars
  <2> QED
    BY <2>1, <2>2, <2>3, <2>4, <2>5 DEF StoredSound
<1>11. QueueSound'
  BY <1>1, <1>4, <1>6 DEF PipeInv, QueueSound
<1>12. StreamSound'
  <2> SUFFICES ASSUME NEW i \in 1 .. Len(rs_stream)
               PROVE  /\ rs_stream[i].microbatch = microbatch
                      /\ \A b \in DOMAIN rs_stream[i].from :
                           /\ Queued(b)'
                           /\ setup.sharded => rs_stream[i].from[b] = Own(b) /\ Intact(rs_stream[i], b)'
    BY <1>2 DEF StreamSound, Intact, loopVars
  <2>1. h \notin DOMAIN rs_stream[i].from /\ DOMAIN rs_stream[i].from \subseteq Bucket
    BY <1>1, StreamTypes DEF Completed, PipeInv
  <2> QED
    BY <1>1, <1>2, <2>1 DEF PipeInv, StreamSound, Intact
<1>13. GroupsSound'
  <2> SUFFICES ASSUME NEW b \in Bucket
               PROVE  IF Awaited(b)
                      THEN \A p \in Param : GroupMate(p, b) => Pending(p) \/ p \in ready'[BucketOf[p]]
                      ELSE ready'[b] # {} => Queued(b)'
    BY <1>5, <1>6 DEF GroupsSound, GroupMate
  <2>1. IF Awaited(b)
        THEN \A p \in Param : GroupMate(p, b) => Pending(p) \/ p \in ready[BucketOf[p]]
        ELSE ready[b] # {} => Queued(b)
    BY <1>3 DEF PipeInv, GroupsSound
  <2>2. CASE Awaited(b)
    <3>1. h \notin Group(b)
      BY <1>3, <2>2, AwaitedTogether
    <3> QED
      BY <1>2, <2>1, <2>2, <3>1, Layout DEF GroupMate
  <2>3. CASE ~Awaited(b)
    BY <1>1, <1>2, <2>1, <2>3
  <2> QED
    BY <2>2, <2>3
<1>14. SameOpen
  BY <1>4, <1>6 DEF SameOpen, Open
<1> QED
  BY <1>4, <1>9, <1>10, <1>11, <1>12, <1>13, <1>14 DEF PipeInv

LEMMA ResetInv ==
  ASSUME PipeInv, Reset
  PROVE  PipeInv' /\ SameOpen
<1>1. \A b \in Bucket : ready[b] = {} /\ ~Queued(b)
  <2>1. \A b \in Bucket : ~Queued(b)
    BY QueueEmpty DEF Reset
  <2>2. CASE pc = "finish"
    BY <2>1, <2>2, Quiet DEF InPass
  <2>3. CASE pc = "reset"
    <3>1. Reduces /\ InPass /\ \A p \in Param : ~Pending(p)
      BY <2>3 DEF PipeInv, Control, Pending, InPass
    <3> QED
      BY <2>1, <3>1 DEF PipeInv, GroupsSound, Awaited
  <2> QED
    BY <2>2, <2>3 DEF Reset
<1>2. rs_stream = <<>> /\ grad_reduce_queue = <<>>
  BY StreamEmpty DEF PipeInv, Reset
<1>3. /\ ready' = [b \in Bucket |-> {}]
      /\ storage' = [b \in Bucket |-> NoStorage]
      /\ grad_in' \in [Storages -> SUBSET (Param \X Microbatch)]
      /\ UNCHANGED <<grad_reduce_queue, rs_stream, main_grad, loopVars, raised>>
      /\ pc' \in {"end", "synced"}
  BY <1>1 DEF Reset, FreeUp, Goto, Raise, PipeInv, TypeOK
<1>4. TypeOK' /\ NoError' /\ Control'
  <2>1. TypeOK'
    BY <1>3 DEF PipeInv, TypeOK, loopVars
  <2> QED
    BY <1>3, <2>1 DEF PipeInv, NoError, Control, loopVars, Reset
<1>5. ~InPass'
  BY <1>3 DEF InPass
<1>6. \A b \in Bucket : ~Queued(b)'
  BY <1>1, <1>3 DEF Queued
<1>7. SameOpen
  BY <1>5 DEF SameOpen, Open, InPass, Awaited, Pending, Control, PipeInv, Reset
<1> QED
  BY <1>2, <1>3, <1>4, <1>5, <1>6, <1>7
     DEF PipeInv, ReadySound, StoredSound, QueueSound, StreamSound, GroupsSound, InPass


LEMMA ExecutedTypes ==
  ASSUME TypeOK, NEW c \in Collective
  PROVE  Executed(main_grad, c) \in [Param -> [Microbatch -> Share]]
<1> SUFFICES ASSUME NEW p \in Param
             PROVE  Executed(main_grad, c)[p] \in [Microbatch -> Share]
  BY DEF Executed
<1>1. main_grad[p] \in [Microbatch -> Share] /\ \A s : SumOver(s) \in Share
  BY DEF TypeOK, SumOver, Share
<1> QED
  BY <1>1 DEF Executed, Share

\* The stream executes its oldest collective.
LEMMA StreamHead ==
  ASSUME TypeOK, rs_stream # <<>>
  PROVE  /\ Head(rs_stream) = rs_stream[1] /\ Head(rs_stream) \in Collective
         /\ Tail(rs_stream) \in Seq(Collective)
         /\ Len(rs_stream) \in Nat \ {0} /\ Len(Tail(rs_stream)) = Len(rs_stream) - 1
         /\ \A i \in 1 .. Len(Tail(rs_stream)) :
              Tail(rs_stream)[i] = rs_stream[i + 1] /\ i + 1 \in 1 .. Len(rs_stream)
BY HeadTailProperties, EmptySeq, LenProperties DEF TypeOK

LEMMA StreamStepInv ==
  ASSUME PipeInv, StreamStep
  PROVE  PipeInv' /\ SameOpen
<1>1. UNCHANGED <<grad_reduce_queue, ready, storage, grad_in, loopVars, pc, raised>>
  BY DEF StreamStep
<1>2. TypeOK'
  BY <1>1, StreamHead, ExecutedTypes DEF PipeInv, StreamStep, TypeOK, loopVars
<1>3. StreamSound'
  BY <1>1, StreamHead DEF PipeInv, StreamStep, StreamSound, Intact, Queued, loopVars
<1>4. NoError' /\ Control' /\ ReadySound' /\ StoredSound' /\ QueueSound' /\ GroupsSound'
  BY <1>1 DEF PipeInv, NoError, Control, ReadySound, StoredSound, QueueSound, GroupsSound, InPass,
              Reduces, Pending, Awaited, GroupMate, Stored, Queued, GroupReady, loopVars
<1>5. SameOpen
  BY <1>1 DEF SameOpen, Open, InPass, Awaited, GroupMate, Pending, loopVars
<1> QED
  BY <1>2, <1>3, <1>4, <1>5 DEF PipeInv

LEMMA PipeNext ==
  ASSUME PipeInv, NoDoubleBuffer, [Next]_vars
  PROVE  PipeInv'
<1>1. ASSUME NEW p \in Param, GradientArrives(p) PROVE PipeInv'
  BY <1>1, GradientArrivesInv
<1>2. CASE Accumulate
  BY <1>2, AccumulateInv DEF PipeInv, NoError
<1>3. CASE MarkReady
  BY <1>3, MarkReadyInv
<1>4. CASE LimitAccumulate \/ LimitLaunch
  BY <1>4 DEF LimitAccumulate, LimitLaunch, OverLimit, NoDoubleBuffer
<1>5. CASE LimitCapacity \/ Drain
  BY <1>5, PopInv DEF LimitCapacity, Drain
<1>6. CASE Launch
  BY <1>6, LaunchInv
<1>7. CASE RootPostBackward \/ NextLeftover \/ EndLeftovers
  BY <1>7, RootPostBackwardInv, NextLeftoverInv, EndLeftoversInv
<1>8. CASE Reset
  BY <1>8, ResetInv
<1>9. CASE EndBackward \/ BeginStep \/ ReduceAll \/ StepAndZeroGrad
  BY <1>9, BetweenPassesInv DEF PipeInv, NoError
<1>10. ASSUME NEW receives \in UsedSets, NEW is_last \in BOOLEAN, StartBackward(receives, is_last)
       PROVE  PipeInv'
  BY <1>10, StartBackwardInv DEF PipeInv, NoError
<1>11. CASE StreamStep
  BY <1>11, StreamStepInv
<1>12. CASE UNCHANGED vars
  <2>1. UNCHANGED <<grad_reduce_queue, ready, storage, grad_in, rs_stream, main_grad, setup,
                    require_handle, used, microbatch, last, cur, pass, todo, pc, raised>>
    BY <1>12 DEF vars, pipelineVars, loopVars
  <2>2. TypeOK' /\ NoError' /\ Control'
    BY <2>1 DEF PipeInv, TypeOK, NoError, Control, Reduces
  <2>3. ReadySound' /\ StoredSound'
    BY <2>1 DEF PipeInv, ReadySound, StoredSound, InPass, Reduces, Pending, Stored, GroupReady
  <2>4. QueueSound' /\ GroupsSound'
    BY <2>1 DEF PipeInv, QueueSound, GroupsSound, InPass, Reduces, Pending, Awaited, GroupMate, Queued
  <2>5. StreamSound'
    BY <2>1 DEF PipeInv, StreamSound, Queued, Intact
  <2> QED
    BY <2>2, <2>3, <2>4, <2>5 DEF PipeInv
<1> QED
  BY <1>1, <1>2, <1>3, <1>4, <1>5, <1>6, <1>7, <1>8, <1>9, <1>10, <1>11, <1>12
     DEF Next, Host, TrainingLoop

LEMMA PipeInvariant == NoDoubleBuffer /\ Spec => []PipeInv
<1> SUFFICES ASSUME NoDoubleBuffer PROVE Spec => []PipeInv
  OBVIOUS
<1>1. Init => PipeInv
  BY PipeInit
<1>2. PipeInv /\ [Next]_vars => PipeInv'
  BY PipeNext
<1> QED
  BY <1>1, <1>2, PTL DEF Spec

----------------------------------------------------------------------------
(* Every gradient is reduced once.                                         *)

\* A step that launches, executes and accumulates nothing.
LEMMA GradsKept ==
  ASSUME PipeInv, GradsSound, SameOpen, LoopSound',
         UNCHANGED <<setup, last, main_grad, rs_stream, microbatch>>,
         \A p \in Param : Accumulated(p)' <=> Accumulated(p),
         ~setup.overlap => (pc' = "synced" <=> pc = "synced")
  PROVE  GradsSound'
<1>1. \A p \in Param : Reduces => (Open(BucketOf[p])' <=> Open(BucketOf[p]))
  BY Layout DEF SameOpen
<1>2. (Reduces' <=> Reduces) /\ \A b : InStream(b)' <=> InStream(b)
  BY DEF Reduces, InStream
<1>3. StreamDisjoint'
  BY DEF GradsSound, StreamDisjoint
<1>4. ShardedSound'
  BY <1>1, <1>2, SetupTypes DEF PipeInv, GradsSound, ShardedSound
<1>5. \A p \in Param : Summed(p)' <=> Summed(p)
  BY <1>1, <1>2 DEF Summed
<1>6. UnshardedSound'
  BY <1>5 DEF GradsSound, UnshardedSound
<1> QED
  BY <1>3, <1>4, <1>6 DEF GradsSound

\* What a launched bucket has in its main gradient was accumulated.
LEMMA LaunchedAccumulated ==
  ASSUME PipeInv, Reduces, NEW p \in Param, ~Open(BucketOf[p])
  PROVE  Accumulated(p)
<1>1. InPass => ~Pending(p)
  BY Layout DEF Open, Awaited, GroupMate
<1> QED
  BY <1>1 DEF Accumulated, Pending, PipeInv, Control, TypeOK, InPass

LEMMA GradsLaunched ==
  ASSUME PipeInv, GradsSound, Launch
  PROVE  GradsSound'
<1> DEFINE b == BucketOf[cur]
           c == [microbatch |-> microbatch, from |-> [d \in Group(b) |-> storage[d]]]
<1>1. /\ b \in Bucket /\ DOMAIN c.from = Group(b)
      /\ rs_stream' = Append(rs_stream, c) /\ UNCHANGED <<main_grad, microbatch>>
  BY Layout DEF PipeInv, TypeOK, Launch, Return
<1>2. /\ \A d \in Bucket : Open(d)' <=> Open(d) /\ d \notin Group(b)
      /\ \A d \in Group(b) : d \in Bucket /\ Open(d)
  BY <1>1, LaunchInv, Layout
<1> HIDE DEF c
<1>3. /\ Len(rs_stream) \in Nat /\ Len(rs_stream') = Len(rs_stream) + 1
      /\ \A i \in 1 .. Len(rs_stream) : rs_stream'[i] = rs_stream[i]
      /\ rs_stream'[Len(rs_stream) + 1] = c
  BY <1>1, LenProperties DEF PipeInv, TypeOK
<1>4. \A i \in 1 .. Len(rs_stream) : Group(b) \cap DOMAIN rs_stream[i].from = {}
  BY <1>2 DEF PipeInv, StreamSound, QueueSound, Open
<1>5. \A d : InStream(d)' <=> InStream(d) \/ d \in Group(b)
  BY <1>1, <1>3 DEF InStream
<1>6. \A i, j \in 1 .. Len(rs_stream') :
        i # j => DOMAIN rs_stream'[i].from \cap DOMAIN rs_stream'[j].from = {}
  <2> SUFFICES ASSUME NEW i \in 1 .. Len(rs_stream'), NEW j \in 1 .. Len(rs_stream'), i < j
               PROVE  DOMAIN rs_stream'[i].from \cap DOMAIN rs_stream'[j].from = {}
    BY <1>3
  <2>1. CASE j = Len(rs_stream) + 1
    BY <1>1, <1>3, <1>4, <2>1
  <2>2. CASE j # Len(rs_stream) + 1
    BY <1>3, <2>2 DEF GradsSound, StreamDisjoint
  <2> QED
    BY <2>1, <2>2
<1>7. UNCHANGED <<setup, last, pass, todo, cur>> /\ pc = "capacity" /\ pc' # "synced"
  BY DEF Launch, Return
<1>8. \A p \in Param : Open(BucketOf[p])' \/ InStream(BucketOf[p])'
                         <=> Open(BucketOf[p]) \/ InStream(BucketOf[p])
  BY <1>2, <1>5, Layout
<1>9. ShardedSound'
  BY <1>1, <1>7, <1>8 DEF GradsSound, ShardedSound
<1>10. UnshardedSound'
  <2>1. \A p \in Param : Accumulated(p)' <=> Accumulated(p)
    BY <1>7 DEF Accumulated, InPass, Launch, Return, PipeInv, Control
  <2>2. \A p \in Param : Summed(p)' <=> Summed(p)
    BY <1>7, <1>8 DEF Summed, Reduces
  <2> QED
    BY <1>1, <1>7, <2>1, <2>2 DEF GradsSound, UnshardedSound
<1>11. LoopSound'
  BY <1>7 DEF GradsSound, LoopSound, Launch, Return
<1> QED
  BY <1>6, <1>9, <1>10, <1>11 DEF GradsSound, StreamDisjoint

LEMMA GradsExecuted ==
  ASSUME PipeInv, GradsSound, EachReducedOnce, StreamStep
  PROVE  GradsSound'
<1> DEFINE c == Head(rs_stream)
<1>1. /\ main_grad' = Executed(main_grad, c) /\ rs_stream' = Tail(rs_stream) /\ rs_stream # <<>>
      /\ UNCHANGED <<grad_in, microbatch, setup, last, pass, todo, cur, require_handle, pc>>
  BY DEF StreamStep, loopVars
<1>2. /\ c = rs_stream[1] /\ c \in Collective /\ 1 \in 1 .. Len(rs_stream)
      /\ Len(rs_stream) \in Nat \ {0} /\ Len(rs_stream') = Len(rs_stream) - 1
      /\ \A i \in 1 .. Len(rs_stream') : rs_stream'[i] = rs_stream[i + 1] /\ i + 1 \in 1 .. Len(rs_stream)
  BY <1>1, StreamHead DEF PipeInv
<1> HIDE DEF c
<1>3. /\ c.microbatch = microbatch /\ DOMAIN c.from \subseteq Bucket /\ DOMAIN c.from # {}
      /\ \A b \in DOMAIN c.from : (setup.sharded => Intact(c, b)) /\ ~Open(b) /\ Reduces /\ InPass
  BY <1>2, StreamTypes DEF PipeInv, StreamSound, QueueSound, Open
<1>4. /\ setup.sharded \in BOOLEAN /\ setup.inplace \in BOOLEAN /\ Reduces /\ InPass
      /\ setup.sharded /\ setup.inplace => setup.microbatches = 1
  BY <1>3, SetupTypes DEF PipeInv, TypeOK, EachReducedOnce
<1>5. \A b : InStream(b) <=> InStream(b)' \/ b \in DOMAIN c.from
  <2>1. ASSUME NEW i \in 1 .. Len(rs_stream), i # 1
        PROVE  i - 1 \in 1 .. Len(rs_stream') /\ rs_stream[i] = rs_stream'[i - 1]
    BY <1>2, <2>1
  <2> QED
    BY <1>2, <2>1 DEF InStream
<1>6. \A b \in DOMAIN c.from : ~InStream(b)'
  BY <1>2 DEF InStream, GradsSound, StreamDisjoint
<1>7. StreamDisjoint'
  <2> SUFFICES ASSUME NEW i \in 1 .. Len(rs_stream'), NEW j \in 1 .. Len(rs_stream'), i # j
               PROVE  DOMAIN rs_stream'[i].from \cap DOMAIN rs_stream'[j].from = {}
    BY DEF StreamDisjoint
  <2>1. /\ rs_stream'[i] = rs_stream[i + 1] /\ rs_stream'[j] = rs_stream[j + 1]
        /\ i + 1 \in 1 .. Len(rs_stream) /\ j + 1 \in 1 .. Len(rs_stream) /\ i + 1 # j + 1
    BY <1>2
  <2> QED
    BY <2>1 DEF GradsSound, StreamDisjoint
<1>8. \A b \in Bucket : Open(b)' <=> Open(b)
  BY <1>4, StreamStepInv DEF SameOpen
<1>9. /\ microbatch \in Nat /\ microbatch <= setup.microbatches /\ setup.microbatches \in Nat
      /\ microbatch \in Microbatch /\ \A m \in Microbatch : m \in Nat /\ m > 0
  BY <1>4, SetupTypes DEF PipeInv, TypeOK, Control, Microbatch, InPass
<1>10. \A p \in Param : BucketOf[p] \notin DOMAIN c.from => main_grad'[p] = main_grad[p]
  BY <1>1 DEF Executed
<1>11. ASSUME setup.sharded, NEW p \in Param, NEW m \in Microbatch
       PROVE  main_grad'[p][m] =
                IF m < microbatch \/ /\ m = microbatch
                                     /\ ~Open(BucketOf[p]) /\ ~InStream(BucketOf[p])'
                THEN "reduced" ELSE "absent"
  <2>1. CASE BucketOf[p] \notin DOMAIN c.from
    BY <1>5, <1>10, <1>11, <2>1 DEF GradsSound, ShardedSound
  <2>2. CASE BucketOf[p] \in DOMAIN c.from
    <3>1. InStream(BucketOf[p]) /\ ~InStream(BucketOf[p])' /\ ~Open(BucketOf[p]) /\ Intact(c, BucketOf[p])
      BY <1>3, <1>5, <1>6, <1>11, <2>2
    <3>2. main_grad[p][m] = IF m < microbatch THEN "reduced" ELSE "absent"
      BY <1>11, <3>1 DEF GradsSound, ShardedSound
    <3>3. main_grad[p] \in [Microbatch -> Share]
      BY DEF PipeInv, TypeOK
    <3>4. CASE setup.inplace
      <4>1. main_grad'[p][m] = IF m = microbatch THEN "reduced" ELSE "absent"
        BY <1>1, <1>3, <1>11, <2>2, <3>1, <3>4 DEF Executed
      <4>2. microbatch > 0 /\ m > 0 /\ m \in Nat
        BY <1>9
      <4>3. microbatch = 1
        BY <1>4, <1>9, <1>11, <3>4, <4>2
      <4> QED
        BY <3>1, <4>1, <4>2, <4>3
    <3>5. CASE ~setup.inplace
      <4>1. main_grad'[p] = [main_grad[p] EXCEPT ![microbatch] = IF @ = "absent" THEN "reduced" ELSE "wrong"]
        BY <1>1, <1>3, <1>11, <2>2, <3>1, <3>5 DEF Executed
      <4>2. main_grad'[p][m] = IF m = microbatch THEN "reduced" ELSE main_grad[p][m]
        <5>1. main_grad[p][microbatch] = "absent"
          BY <1>9, <1>11, <3>1 DEF GradsSound, ShardedSound
        <5> QED
          BY <1>9, <3>3, <4>1, <5>1
      <4> QED
        BY <1>9, <3>1, <3>2, <4>2
    <3> QED
      BY <1>4, <3>4, <3>5
  <2> QED
    BY <2>1, <2>2
<1>12. ASSUME ~setup.sharded, NEW p \in Param, NEW m \in Microbatch
       PROVE  main_grad'[p][m] = IF m > microbatch \/ (m = microbatch /\ ~Accumulated(p)) THEN "absent"
                                 ELSE IF Summed(p)' THEN "reduced" ELSE "local"
  <2>1. pc # "synced"
    BY <1>4 DEF InPass
  <2>2. Summed(p)' <=> ~Open(BucketOf[p]) /\ ~InStream(BucketOf[p])'
    BY <1>1, <1>4, <1>8, <2>1, Layout DEF Summed, Reduces
  <2>3. Summed(p) <=> ~Open(BucketOf[p]) /\ ~InStream(BucketOf[p])
    BY <1>4, <2>1 DEF Summed
  <2>4. CASE BucketOf[p] \notin DOMAIN c.from
    BY <1>5, <1>10, <1>12, <2>2, <2>3, <2>4 DEF GradsSound, UnshardedSound
  <2>5. CASE BucketOf[p] \in DOMAIN c.from
    <3>1. ~Open(BucketOf[p]) /\ Accumulated(p) /\ ~Summed(p) /\ Summed(p)'
      BY <1>3, <1>5, <1>6, <2>2, <2>3, <2>5, LaunchedAccumulated
    <3>2. main_grad[p][m] = IF m > microbatch THEN "absent" ELSE "local"
      BY <1>12, <3>1 DEF GradsSound, UnshardedSound
    <3>3. main_grad'[p][m] = SumOver(main_grad[p][m])
      BY <1>1, <1>12, <2>5 DEF Executed
    <3> QED
      BY <1>9, <3>1, <3>2, <3>3 DEF SumOver
  <2> QED
    BY <2>4, <2>5
<1>13. ShardedSound'
  BY <1>1, <1>8, <1>11, Layout DEF ShardedSound
<1>14. UnshardedSound'
  <2>1. \A p \in Param : Accumulated(p)' <=> Accumulated(p)
    BY <1>1 DEF Accumulated, InPass
  <2> QED
    BY <1>1, <1>12, <2>1 DEF UnshardedSound
<1>15. LoopSound'
  BY <1>1 DEF GradsSound, LoopSound
<1> QED
  BY <1>7, <1>13, <1>14, <1>15 DEF GradsSound

LEMMA GradsBegun ==
  ASSUME PipeInv, GradsSound, EachReducedOnce, NEW receives \in UsedSets, NEW is_last \in BOOLEAN,
         StartBackward(receives, is_last)
  PROVE  GradsSound'
<1>1. /\ UNCHANGED <<main_grad, rs_stream, setup>> /\ microbatch' = microbatch + 1
      /\ microbatch \in Nat /\ microbatch' \in Nat
  BY DEF StartBackward, pipelineVars, PipeInv, TypeOK
<1>2. ~InPass /\ InPass' /\ pc' # "synced"
  BY DEF StartBackward, InPass
<1>3. \A i \in 1 .. Len(rs_stream) : FALSE
  BY <1>2, Quiet
<1>4. \A p \in Param : Open(BucketOf[p])'
  <2>1. \A p \in Param : GroupMate(p, BucketOf[p])
    BY Layout DEF GroupMate
  <2>2. \A p \in Param : Pending(p)'
    BY DEF StartBackward, Pending
  <2> QED
    BY <1>2, <2>1, <2>2 DEF Open, Awaited, GroupMate
<1>5. \A b : ~InStream(b) /\ ~InStream(b)' /\ ~Open(b)
  BY <1>1, <1>2, <1>3 DEF InStream, Open
<1>6. ASSUME NEW m \in Microbatch PROVE m \in Nat /\ m > 0
  BY DEF Microbatch
<1>7. ShardedSound'
  <2> SUFFICES ASSUME setup.sharded, NEW p \in Param, NEW m \in Microbatch
               PROVE  main_grad[p][m] = IF m < microbatch + 1 THEN "reduced" ELSE "absent"
    BY <1>1, <1>4 DEF ShardedSound
  <2>1. main_grad[p][m] = IF m < microbatch \/ m = microbatch THEN "reduced" ELSE "absent"
    BY <1>5 DEF GradsSound, ShardedSound
  <2> QED
    BY <1>1, <1>6, <2>1
<1>8. UnshardedSound'
  <2> SUFFICES ASSUME ~setup.sharded, NEW p \in Param, NEW m \in Microbatch
               PROVE  main_grad[p][m] = IF m > microbatch THEN "absent" ELSE "local"
    <3>1. \A p \in Param : ~Accumulated(p)' /\ ~Summed(p)'
      BY <1>2, <1>4 DEF StartBackward, Accumulated, Summed
    <3>2. \A m \in Microbatch : m > microbatch' \/ m = microbatch' <=> m > microbatch
      BY <1>1, <1>6
    <3> QED
      BY <1>1, <3>1, <3>2 DEF UnshardedSound
  <2>1. main_grad[p][m] = IF m > microbatch THEN "absent" ELSE IF Summed(p) THEN "reduced" ELSE "local"
    BY <1>2 DEF GradsSound, UnshardedSound, Accumulated
  <2>2. microbatch > 0 => ~Summed(p)
    <3>1. microbatch > 0 => ~setup.auto_sync
      BY <1>1, SetupTypes DEF EachReducedOnce, StartBackward, PipeInv, TypeOK
    <3> QED
      BY <3>1 DEF Summed, Reduces, StartBackward
  <2> QED
    BY <1>1, <1>6, <2>1, <2>2
<1>9. StreamDisjoint' /\ LoopSound'
  BY <1>1, <1>3 DEF StreamDisjoint, LoopSound, StartBackward
<1> QED
  BY <1>7, <1>8, <1>9 DEF GradsSound

LEMMA GradsAccumulated ==
  ASSUME PipeInv, GradsSound, NoDoubleBuffer, Accumulate
  PROVE  GradsSound'
<1>1. PipeInv' /\ SameOpen
  BY AccumulateInv DEF PipeInv, NoError
<1>2. /\ UNCHANGED <<setup, last, rs_stream, microbatch, pass, todo, cur>>
      /\ pc = "accumulate" /\ pc' \in {"ready", "backward", "next"}
      /\ pass = "hooks" => \/ pc' = "ready" /\ UNCHANGED require_handle
                           \/ pc' = "backward" /\ require_handle' = require_handle \ {cur}
      /\ pass = "accumulate" => pc' = "next" /\ UNCHANGED require_handle
      /\ pass \in {"hooks", "accumulate"} /\ cur \in require_handle
      /\ pass = "accumulate" => cur \notin todo
      /\ setup.sharded => UNCHANGED main_grad
      /\ ~setup.sharded => main_grad' = [main_grad EXCEPT ![cur][microbatch] = "local"]
  BY <1>1 DEF PipeInv, NoError, Control, Accumulate, Goto, Return, Raise, loopVars, pipelineVars
<1>3. CASE setup.sharded
  <2>1. LoopSound'
    BY <1>2 DEF GradsSound, LoopSound
  <2>2. StreamDisjoint'
    BY <1>2 DEF GradsSound, StreamDisjoint
  <2>3. ShardedSound'
    BY <1>1, <1>2, <1>3, Layout, SetupTypes
       DEF PipeInv, GradsSound, ShardedSound, SameOpen, InStream
  <2>4. UnshardedSound'
    BY <1>2, <1>3 DEF UnshardedSound
  <2> QED
    BY <2>1, <2>2, <2>3, <2>4 DEF GradsSound
<1>4. CASE ~setup.sharded
  <2>1. \A p \in Param : Accumulated(p)' <=> Accumulated(p) \/ p = cur
    BY <1>2 DEF Accumulated, InPass
  <2>2. ~Accumulated(cur) /\ cur \in Param /\ microbatch \in Microbatch
    BY <1>2 DEF Accumulated, InPass, PipeInv, TypeOK, Control, Microbatch
  <2>3. \A p \in Param : Summed(p)' <=> Summed(p)
    <3>1. \A p \in Param : Reduces => (Open(BucketOf[p])' <=> Open(BucketOf[p]))
      BY <1>1, Layout DEF SameOpen
    <3> QED
      BY <1>2, <3>1 DEF Summed, Reduces, InStream
  <2>4. ~Summed(cur)
    <3>1. Pending(cur) /\ GroupMate(cur, BucketOf[cur])
      BY <1>2, <2>2, Layout DEF Pending, GroupMate
    <3> QED
      BY <1>2, <2>2, <3>1 DEF Summed, Open, Awaited, InPass
  <2>5. \A p \in Param, m \in Microbatch :
          main_grad'[p][m] = IF p = cur /\ m = microbatch THEN "local" ELSE main_grad[p][m]
    BY <1>2, <1>4, <2>2 DEF PipeInv, TypeOK
  <2>6. UnshardedSound'
    <3> SUFFICES ASSUME NEW p \in Param, NEW m \in Microbatch
                 PROVE  main_grad'[p][m] = IF m > microbatch \/ (m = microbatch /\ ~Accumulated(p)')
                                           THEN "absent" ELSE IF Summed(p) THEN "reduced" ELSE "local"
      BY <1>2, <2>3 DEF UnshardedSound
    <3>1. main_grad[p][m] = IF m > microbatch \/ (m = microbatch /\ ~Accumulated(p)) THEN "absent"
                            ELSE IF Summed(p) THEN "reduced" ELSE "local"
      BY <1>4 DEF GradsSound, UnshardedSound
    <3>2. ~(microbatch > microbatch)
      BY <2>2 DEF Microbatch
    <3> QED
      BY <2>1, <2>2, <2>4, <2>5, <3>1, <3>2
  <2>7. LoopSound' /\ StreamDisjoint' /\ ShardedSound'
    BY <1>2, <1>4 DEF GradsSound, LoopSound, StreamDisjoint, ShardedSound
  <2> QED
    BY <2>6, <2>7 DEF GradsSound
<1> QED
  BY <1>3, <1>4

\* The steps of the host that only move on.
LEMMA GradsSteady ==
  ASSUME PipeInv, GradsSound,
         \/ \E p \in Param : GradientArrives(p)
         \/ MarkReady \/ RootPostBackward \/ NextLeftover \/ EndLeftovers
         \/ Pop(FALSE) \/ Reset \/ EndBackward \/ BeginStep
  PROVE  GradsSound'
<1>1. SameOpen
  BY GradientArrivesInv, MarkReadyInv, RootPostBackwardInv, NextLeftoverInv, EndLeftoversInv, PopInv,
     ResetInv, BetweenPassesInv DEF PipeInv, NoError
<1>2. UNCHANGED <<setup, last, main_grad, rs_stream, microbatch>>
  BY DEF GradientArrives, MarkReady, RootPostBackward, NextLeftover, EndLeftovers, Pop, Reset,
         EndBackward, BeginStep, Goto, Return, Raise, pipelineVars, loopVars
<1>3. ~setup.overlap => (pc' = "synced" <=> pc = "synced")
  BY DEF GradientArrives, MarkReady, RootPostBackward, NextLeftover, EndLeftovers, Pop, Reset,
         EndBackward, BeginStep, Goto, Return, Raise, pipelineVars, loopVars
<1>4. LoopSound'
  BY <1>2 DEF GradsSound, LoopSound, GradientArrives, MarkReady, RootPostBackward, NextLeftover,
              EndLeftovers, Pop, Reset, EndBackward, BeginStep, Goto, Return, Raise, pipelineVars, loopVars
<1>5. \A p \in Param : Accumulated(p)' <=> Accumulated(p)
  <2>1. CASE \E p \in Param : GradientArrives(p)
    BY <2>1 DEF PipeInv, Control, Accumulated, InPass, GradientArrives
  <2>2. CASE MarkReady
    BY <2>2 DEF PipeInv, Control, Accumulated, InPass, MarkReady, Goto, Return, loopVars
  <2>3. CASE RootPostBackward
    BY <2>3 DEF PipeInv, Control, Accumulated, InPass, RootPostBackward
  <2>4. CASE NextLeftover
    BY <2>4 DEF PipeInv, Control, Accumulated, InPass, NextLeftover
  <2>5. CASE EndLeftovers
    BY <2>5 DEF PipeInv, Control, Accumulated, InPass, EndLeftovers, loopVars
  <2>6. CASE Pop(FALSE)
    BY <2>6 DEF Accumulated, InPass, Pop, loopVars
  <2>7. CASE Reset
    BY <2>7 DEF PipeInv, Control, Accumulated, InPass, Reset, Goto, Raise, loopVars
  <2>8. CASE EndBackward \/ BeginStep
    BY <2>8 DEF Accumulated, InPass, EndBackward, BeginStep
  <2> QED
    BY <2>1, <2>2, <2>3, <2>4, <2>5, <2>6, <2>7, <2>8
<1> QED
  BY <1>1, <1>2, <1>3, <1>4, <1>5, GradsKept

\* Synchronisation without overlap, and the optimizer step.
LEMMA GradsStep ==
  ASSUME PipeInv, GradsSound, EachReducedOnce, ReduceAll \/ StepAndZeroGrad
  PROVE  GradsSound'
<1>1. ~InPass /\ ~InPass' /\ rs_stream' = rs_stream /\ setup' = setup
  BY DEF ReduceAll, StepAndZeroGrad, InPass, Goto, loopVars
<1>2. \A i \in 1 .. Len(rs_stream) : FALSE
  BY <1>1, Quiet
<1>3. StreamDisjoint' /\ \A b : ~InStream(b)' /\ ~Open(b)'
  BY <1>1, <1>2 DEF StreamDisjoint, InStream, Open
<1>4. ASSUME NEW m \in Microbatch PROVE m \in Nat /\ m > 0
  BY DEF Microbatch
<1>5. CASE ReduceAll
  <2>1. /\ ~setup.sharded /\ ~setup.auto_sync /\ ~setup.marks_last /\ ~setup.overlap
        /\ UNCHANGED <<microbatch, last>> /\ pc = "finish" /\ pc' = "synced"
        /\ main_grad' = [p \in Param |-> [m \in Microbatch |-> SumOver(main_grad[p][m])]]
    BY <1>5, GradAssumption DEF ReduceAll, Goto, loopVars, EachReducedOnce, PipeInv, TypeOK
  <2>2. ~Reduces
    BY <2>1 DEF Reduces, GradsSound, LoopSound
  <2>3. ASSUME NEW p \in Param, NEW m \in Microbatch
        PROVE  main_grad'[p][m] = IF m > microbatch THEN "absent" ELSE "reduced"
    <3>1. main_grad[p][m] = IF m > microbatch THEN "absent" ELSE "local"
      BY <1>1, <2>1, <2>2 DEF GradsSound, UnshardedSound, Accumulated, Summed
    <3> QED
      BY <2>1, <3>1 DEF SumOver
  <2>4. UnshardedSound'
    BY <1>1, <2>1, <2>3 DEF UnshardedSound, Accumulated, Summed
  <2>5. ShardedSound' /\ LoopSound'
    BY <1>1, <2>1 DEF GradsSound, ShardedSound, LoopSound
  <2> QED
    BY <1>3, <2>4, <2>5 DEF GradsSound
<1>6. CASE StepAndZeroGrad
  <2>1. /\ microbatch' = 0 /\ last' = FALSE /\ pc' = "idle"
        /\ \A p \in Param, m \in Microbatch : main_grad'[p][m] = "absent"
    BY <1>6 DEF StepAndZeroGrad
  <2>2. ShardedSound' /\ UnshardedSound' /\ LoopSound'
    BY <1>4, <2>1 DEF ShardedSound, UnshardedSound, LoopSound
  <2> QED
    BY <1>3, <2>2 DEF GradsSound
<1> QED
  BY <1>5, <1>6

LEMMA GradsNext ==
  ASSUME PipeInv, NoDoubleBuffer, EachReducedOnce, GradsSound, [Next]_vars
  PROVE  GradsSound'
<1>1. CASE \/ \E p \in Param : GradientArrives(p)
           \/ MarkReady \/ LimitCapacity \/ RootPostBackward \/ NextLeftover \/ EndLeftovers
           \/ Drain \/ Reset \/ EndBackward \/ BeginStep
  BY <1>1, GradsSteady DEF LimitCapacity, Drain
<1>2. CASE Accumulate
  BY <1>2, GradsAccumulated
<1>3. CASE LimitAccumulate \/ LimitLaunch
  BY <1>3 DEF LimitAccumulate, LimitLaunch, OverLimit, NoDoubleBuffer
<1>4. CASE Launch
  BY <1>4, GradsLaunched
<1>5. CASE ReduceAll \/ StepAndZeroGrad
  BY <1>5, GradsStep
<1>6. ASSUME NEW receives \in UsedSets, NEW is_last \in BOOLEAN, StartBackward(receives, is_last)
      PROVE  GradsSound'
  BY <1>6, GradsBegun
<1>7. CASE StreamStep
  BY <1>7, GradsExecuted
<1>8. CASE UNCHANGED vars
  <2>1. UNCHANGED <<setup, last, main_grad, rs_stream, microbatch, pc, cur, pass, todo, require_handle>>
    BY <1>8 DEF vars, pipelineVars, loopVars
  <2>2. SameOpen /\ LoopSound' /\ \A p \in Param : Accumulated(p)' <=> Accumulated(p)
    BY <2>1 DEF SameOpen, Open, InPass, Awaited, GroupMate, Pending, GradsSound, LoopSound, Accumulated
  <2> QED
    BY <2>1, <2>2, GradsKept
<1> QED
  BY <1>1, <1>2, <1>3, <1>4, <1>5, <1>6, <1>7, <1>8 DEF Next, Host, TrainingLoop

----------------------------------------------------------------------------
(* Theorems.                                                               *)

\* No hook raises, for any order of gradients and any unused parameters: at the
\* reset no gradient waits for the rest of its group.
THEOREM NoReductionRaises == NoDoubleBuffer /\ Spec => []NoError
<1>1. PipeInv => NoError
  BY DEF PipeInv
<1> QED
  BY <1>1, PipeInvariant, PTL

\* The variables of the reduction pipeline keep their types.
THEOREM ReductionTypeCorrect == NoDoubleBuffer /\ Spec => []TypeOK
<1>1. PipeInv => TypeOK
  BY DEF PipeInv
<1> QED
  BY <1>1, PipeInvariant, PTL

\* However far the stream lags, a collective finds in its storage the gradients
\* it was launched for.
THEOREM CollectivesReadIntact == NoDoubleBuffer /\ Spec => []ReadsIntact
<1>1. PipeInv => ReadsIntact
  BY DEF PipeInv, StreamSound, ReadsIntact
<1> QED
  BY <1>1, PipeInvariant, PTL

\* When the optimizer steps, every gradient of every microbatch is in its main
\* gradient once, in whatever order gradients came and whichever parameters
\* were unused.
THEOREM GradientsReducedOnce == NoDoubleBuffer /\ EachReducedOnce /\ Spec => []ReducedOnce
<1> SUFFICES ASSUME NoDoubleBuffer, EachReducedOnce PROVE Spec => []ReducedOnce
  OBVIOUS
<1>1. Init => GradsSound
  <2> SUFFICES ASSUME Init PROVE GradsSound
    OBVIOUS
  <2>1. \A m \in Microbatch : m \in Nat /\ m > 0
    BY DEF Microbatch
  <2> QED
    BY <2>1 DEF Init, GradsSound, StreamDisjoint, ShardedSound, UnshardedSound, LoopSound
<1>2. PipeInv /\ GradsSound /\ [Next]_vars => GradsSound'
  BY GradsNext
<1>3. PipeInv /\ GradsSound => ReducedOnce
  <2> SUFFICES ASSUME PipeInv, GradsSound, pc = "synced",
                      NEW p \in Param, NEW m \in 1 .. microbatch
               PROVE  main_grad[p][m] = "reduced"
    BY DEF ReducedOnce
  <2>1. ~InPass
    BY DEF InPass
  <2>2. ~Open(BucketOf[p]) /\ ~InStream(BucketOf[p]) /\ Accumulated(p)
    BY <2>1, Quiet DEF Open, InStream, Accumulated
  <2>3. microbatch \in Nat /\ m \in Microbatch /\ m <= microbatch
    BY GradAssumption DEF PipeInv, TypeOK, Microbatch
  <2>4. CASE setup.sharded
    BY <2>2, <2>3, <2>4 DEF GradsSound, ShardedSound
  <2>5. CASE ~setup.sharded
    <3>1. setup.overlap => Reduces
      BY <2>5 DEF EachReducedOnce, PipeInv, TypeOK, GradsSound, LoopSound, Reduces
    <3>2. Summed(p)
      BY <2>2, <3>1 DEF Summed
    <3> QED
      BY <2>2, <2>3, <2>5, <3>2 DEF GradsSound, UnshardedSound
  <2> QED
    BY <2>4, <2>5
<1> QED
  BY <1>1, <1>2, <1>3, PipeInvariant, PTL DEF Spec

----------------------------------------------------------------------------
(* The memory of launched buckets, with the fixed pool or without.         *)

\* What is at hand names parameters, and the queue is within its capacity and
\* the group that was launched last.
QueueInv ==
  /\ grad_reduce_queue \in Seq(Bucket)
  /\ cur \in Param /\ todo \subseteq Param /\ require_handle \subseteq Param
  /\ QueueBounded

LEMMA SizeIsSum == ASSUME NEW q PROVE SizeOf(q) = SeqSum(BucketSize, q)
BY Zenon DEF SizeOf, SeqSum

LEMMA LastOfTail ==
  ASSUME NEW D, NEW q \in Seq(D), Tail(q) # <<>>, q # <<>> PROVE Last(Tail(q)) = Last(q)
<1>1. Tail(q) \in Seq(D) /\ Len(Tail(q)) = Len(q) - 1 /\ Len(Tail(q)) \in Nat \ {0}
  BY HeadTailProperties, EmptySeq
<1>2. Tail(q)[Len(Tail(q))] = q[Len(Tail(q)) + 1]
  BY <1>1, HeadTailProperties
<1>3. Len(q) \in Nat
  OBVIOUS
<1> QED
  BY <1>1, <1>2, <1>3 DEF Last

LEMMA LastOfConcat ==
  ASSUME NEW D, NEW q \in Seq(D), NEW r \in Seq(D), r # <<>>
  PROVE  Last(q \o r) = Last(r) /\ Last(r) \in Range(r)
<1>1. Len(r) \in Nat \ {0} /\ Len(q) \in Nat
  BY EmptySeq
<1>2. /\ Len(q \o r) = Len(q) + Len(r)
      /\ (q \o r)[Len(q) + Len(r)] = r[Len(r)]
  BY <1>1, ConcatProperties
<1>3. Len(r) \in DOMAIN r
  BY <1>1
<1> QED
  BY <1>2, <1>3 DEF Last, Range

LEMMA PopQueue == ASSUME QueueInv, NEW way, Pop(way) PROVE QueueInv'
<1>1. BucketSize \in [Bucket -> Nat]
  BY GradAssumption
<1>2. /\ grad_reduce_queue \in Seq(Bucket) /\ grad_reduce_queue # <<>>
      /\ grad_reduce_queue' = Tail(grad_reduce_queue)
      /\ UNCHANGED <<cur, todo, require_handle>>
  BY DEF QueueInv, Pop, loopVars
<1>3. grad_reduce_queue' \in Seq(Bucket)
  BY <1>2
<1>4. SizeOf(Tail(grad_reduce_queue)) <= SizeOf(grad_reduce_queue)
  BY <1>1, <1>2, SizeIsSum, SeqSumTail
<1>5. /\ SizeOf(Tail(grad_reduce_queue)) \in Nat /\ SizeOf(grad_reduce_queue) \in Nat
      /\ QueueCapacity \in Nat
  BY <1>1, <1>2, <1>3, SizeIsSum, SeqSumType, GradAssumption
<1>6. ASSUME grad_reduce_queue' # <<>>
      PROVE  QueuedSize' <= QueueCapacity + SizeOf(GroupOf[Last(grad_reduce_queue)])'
  <2>1. Last(grad_reduce_queue') = Last(grad_reduce_queue)
    BY <1>2, <1>6, LastOfTail
  <2> DEFINE most == QueueCapacity + SizeOf(GroupOf[Last(grad_reduce_queue)])
  <2>2. SizeOf(grad_reduce_queue) <= most
    BY <1>2 DEF QueueInv, QueueBounded, QueuedSize
  <2>3. Last(grad_reduce_queue) \in Bucket
    BY <1>2, EmptySeq DEF Last
  <2>4. most \in Nat
    <3> DEFINE group == GroupOf[Last(grad_reduce_queue)]
    <3>1. group \in Seq(Bucket)
      BY <2>3, GradAssumption
    <3> HIDE DEF group
    <3>2. SizeOf(group) \in Nat
      BY <1>1, <3>1, SizeIsSum, SeqSumType
    <3> QED
      BY <1>5, <3>2 DEF group
  <2>5. SizeOf(grad_reduce_queue') <= most
    <3> HIDE DEF most
    <3> QED
      BY <1>2, <1>4, <1>5, <2>2, <2>4
  <2> QED
    BY <2>1, <2>5 DEF QueuedSize
<1> QED
  BY <1>2, <1>3, <1>6 DEF QueueInv, QueueBounded

LEMMA LaunchQueue == ASSUME QueueInv, Launch PROVE QueueInv'
<1>1. BucketSize \in [Bucket -> Nat] /\ QueueCapacity \in Nat
  BY GradAssumption
<1> DEFINE group == GroupOf[BucketOf[cur]]
<1>2. BucketOf[cur] \in Bucket /\ group \in Seq(Bucket)
  BY GradAssumption DEF QueueInv
<1>3. group # <<>> /\ \A c \in Range(group) : GroupOf[c] = group
  <2>1. BucketOf[cur] \in Range(group) /\ \A c \in Range(group) : GroupOf[c] = group
    BY <1>2, GradAssumption DEF Group
  <2>2. Range(<<>>) = {}
    BY DEF Range
  <2> QED
    BY <2>1, <2>2
<1>4. /\ grad_reduce_queue \in Seq(Bucket) /\ SizeOf(grad_reduce_queue) \in Nat
      /\ SizeOf(grad_reduce_queue) <= QueueCapacity
      /\ grad_reduce_queue' = grad_reduce_queue \o group
  <2>1. SizeOf(grad_reduce_queue) \in Nat
    BY <1>1, SizeIsSum, SeqSumType DEF QueueInv
  <2> QED
    BY <1>1, <2>1 DEF QueueInv, Launch, OverCapacity, QueuedSize
<1>5. cur' = cur /\ todo' = todo /\ require_handle' \subseteq require_handle
  BY DEF Launch, Return
<1> HIDE DEF group
<1>6. SizeOf(grad_reduce_queue \o group) = SizeOf(grad_reduce_queue) + SizeOf(group)
  BY <1>1, <1>2, <1>4, SizeIsSum, SeqSumConcat
<1>7. SizeOf(group) \in Nat
  BY <1>1, <1>2, SizeIsSum, SeqSumType
<1>8. Last(grad_reduce_queue \o group) \in Range(group)
  BY <1>2, <1>3, <1>4, LastOfConcat
<1>9. GroupOf[Last(grad_reduce_queue')] = group
  BY <1>3, <1>4, <1>8
<1>10. SizeOf(grad_reduce_queue') <= QueueCapacity + SizeOf(group)
  BY <1>1, <1>4, <1>6, <1>7
<1>11. QueueBounded'
  BY <1>9, <1>10 DEF QueueBounded, QueuedSize
<1>12. grad_reduce_queue' \in Seq(Bucket)
  BY <1>2, <1>4
<1> QED
  BY <1>5, <1>11, <1>12 DEF QueueInv

LEMMA QueueNext == ASSUME QueueInv, [Next]_vars PROVE QueueInv'
<1> USE DEF QueueInv
<1> DEFINE Steady == /\ UNCHANGED grad_reduce_queue
                     /\ cur' \in Param /\ todo' \subseteq Param /\ require_handle' \subseteq Param
<1>1. Steady => QueueInv'
  BY DEF QueueBounded, QueuedSize
<1>2. CASE UNCHANGED vars
  BY <1>1, <1>2 DEF vars, pipelineVars, loopVars
<1>3. ASSUME NEW p \in Param, GradientArrives(p) PROVE QueueInv'
  BY <1>1, <1>3 DEF GradientArrives, pipelineVars
<1>4. CASE LimitAccumulate \/ LimitCapacity \/ LimitLaunch \/ Drain
  BY <1>4, PopQueue DEF LimitAccumulate, LimitCapacity, LimitLaunch, Drain
<1>5. CASE Accumulate
  BY <1>1, <1>5 DEF Accumulate, Raise, Goto, Return, pipelineVars, loopVars
<1>6. CASE MarkReady
  BY <1>1, <1>6 DEF MarkReady, Goto, Return, loopVars
<1>7. CASE Launch
  BY <1>7, LaunchQueue
<1>8. CASE RootPostBackward
  BY <1>1, <1>8 DEF RootPostBackward, pipelineVars
<1>9. CASE NextLeftover
  BY <1>1, <1>9 DEF NextLeftover, pipelineVars
<1>10. CASE EndLeftovers
  BY <1>1, <1>10 DEF EndLeftovers, pipelineVars
<1>11. CASE Reset
  BY <1>1, <1>11 DEF Reset, Raise, Goto, pipelineVars, loopVars
<1>12. CASE EndBackward \/ BeginStep
  BY <1>1, <1>12 DEF EndBackward, BeginStep, pipelineVars, loopVars
<1>13. CASE ReduceAll
  BY <1>1, <1>13 DEF ReduceAll, Goto, loopVars
<1>14. ASSUME NEW receives \in UsedSets, NEW is_last \in BOOLEAN, StartBackward(receives, is_last)
       PROVE  QueueInv'
  BY <1>1, <1>14 DEF StartBackward, pipelineVars
<1>15. CASE StepAndZeroGrad
  BY <1>1, <1>15 DEF StepAndZeroGrad
<1>16. CASE StreamStep
  BY <1>1, <1>16 DEF StreamStep, loopVars
<1> QED
  BY <1>2, <1>3, <1>4, <1>5, <1>6, <1>7, <1>8, <1>9, <1>10, <1>11, <1>12, <1>13, <1>14,
     <1>15, <1>16 DEF Next, Host, TrainingLoop

\* With the fixed pool or without, for every size of buckets and every way they
\* are grouped: the gradients held by launched buckets never take more than
\* the queue's capacity and the group launched last.
THEOREM QueueIsBounded == Spec => []QueueBounded
<1>1. Init => QueueInv
  <2>1. 0 \in Param
    BY GradAssumption DEF Param
  <2> QED
    BY <2>1 DEF Init, QueueInv, QueueBounded
<1>2. QueueInv /\ [Next]_vars => QueueInv'
  BY QueueNext
<1>3. QueueInv => QueueBounded
  BY DEF QueueInv
<1> QED
  BY <1>1, <1>2, <1>3, PTL DEF Spec
=============================================================================
