------------------------- MODULE GradReducePipeline -------------------------
(***************************************************************************)
(* Gradient accumulation and reduction on one rank: the post-backward      *)
(* hooks of GroveFSDP (grove_fsdp.py) driving GradReducePipeline           *)
(* (param_and_grad_buffer.py).                                             *)
(*                                                                         *)
(* Two actors: the host, which runs the hooks, and the reduce-scatter      *)
(* stream, which executes a launched collective at any later time.  A      *)
(* gradient is known by its provenance only: the parameter, the            *)
(* microbatch, and whether it has been summed over the ranks.              *)
(*                                                                         *)
(* Autograd and the training loop are external: autograd runs the hook of  *)
(* each parameter that received a gradient once per backward pass.         *)
(***************************************************************************)
EXTENDS Integers, Sequences, FiniteSets, Functions, FiniteSetsExt, SequencesExt

CONSTANTS
  NumBuckets, NumParams,
  BucketOf,         \* parameter -> bucket, in the order of the parameters
  GroupOf,          \* bucket -> list of the buckets with gradients of its bucket group
  UnitOf,           \* bucket -> its FSDP unit, or NoUnit
  NoUnit,           \* fsdp_unit_id is None
  BucketSize,       \* bucket -> elements
  Shared,           \* parameters with _is_shared
  QueueCapacity,    \* suggested_RS_queue_capacity
  FsdpDoubleBuffer, \* ddp_config.fsdp_double_buffer
  DoubleBufUnits,   \* units served by the fixed pool
  PoolSize,         \* UB_BUFFER_NUM, buffer groups of the fixed pool
  Setups,           \* the ways of training that are considered, see setup
  UsedSets,         \* sets of parameters that may receive gradients in a pass
  After,            \* parameter -> parameters whose hooks run before its own
  MaxMicrobatches   \* bound on backward passes between two zero_grad calls

Bucket == 0 .. NumBuckets - 1
Param  == 0 .. NumParams - 1
Microbatch == 1 .. MaxMicrobatches
ParamsOf(b) == {p \in Param : BucketOf[p] = b}
Group(b) == Range(GroupOf[b])

\* One way of training.  Gradient sharding forces overlap; the caller marks the
\* last microbatch (is_last_microbatch) or synchronises after each.
Setup == [sharded : BOOLEAN,     \* optim_grads or optim_grads_params
          inplace : BOOLEAN,     \* grove_fsdp_inplace_reduce_scatter
          overlap : BOOLEAN,     \* overlap_grad_reduce
          auto_sync : BOOLEAN,   \* model_auto_sync
          marks_last : BOOLEAN,
          microbatches : Microbatch]  \* backward passes per optimizer step at most

ASSUME GradAssumption ==
  /\ NumBuckets \in Nat \ {0} /\ NumParams \in Nat \ {0}
  /\ BucketOf \in [Param -> Bucket]
  /\ \A b \in Bucket : ParamsOf(b) # {}
  /\ \A p, q \in Param : p < q => BucketOf[p] <= BucketOf[q]
  /\ GroupOf \in [Bucket -> Seq(Bucket)]
  /\ \A b \in Bucket : b \in Group(b) /\ \A c \in Group(b) :
                         GroupOf[c] = GroupOf[b] /\ UnitOf[c] = UnitOf[b]
  /\ BucketSize \in [Bucket -> Nat]
  /\ Shared \subseteq Param
  /\ QueueCapacity \in Nat
  /\ FsdpDoubleBuffer \in BOOLEAN
  /\ NoUnit \notin DoubleBufUnits
  /\ PoolSize \in Nat
  /\ Setups \subseteq Setup
  /\ \A s \in Setups : s.sharded => s.overlap
  /\ UsedSets \subseteq SUBSET Param
  /\ After \in [Param -> SUBSET Param]
  /\ MaxMicrobatches \in Nat \ {0}

VARIABLES
  setup,             \* the way of training, chosen once
  grad_reduce_queue, \* launched buckets whose closure has not run
  ready,             \* bucket_grad_ready_params
  storage,           \* bucket -> the communication storage it holds
  grad_in,           \* storage -> intact gradients <<parameter, microbatch>>
  rs_stream,         \* collectives launched and not yet executed
  main_grad,         \* parameter -> microbatch -> share of it in main_grad_buffer
  require_handle,    \* _params_require_handle_grad
  used,              \* parameters that receive a gradient in this pass
  microbatch,        \* backward passes begun since the last zero_grad
  last,              \* is_last_microbatch
  pc, cur, pass,     \* host: position, parameter at hand, loop it is in
  todo,              \* host: parameters the loop has still to visit
  raised             \* the exception that ended the run, if any

pipelineVars == <<grad_reduce_queue, ready, storage, grad_in, rs_stream, main_grad>>
loopVars == <<setup, require_handle, used, microbatch, last, cur, pass, todo>>
vars == <<pipelineVars, loopVars, pc, raised>>

\* What of a microbatch's gradient a main gradient contains.
Share == {"absent", "local", "reduced", "wrong"}

----------------------------------------------------------------------------
(* Storage of the unsharded gradient buckets.                              *)

NoStorage == <<>>
Own(b) == <<-1, b>>  \* dynamic allocation
Pooled(b) == FsdpDoubleBuffer /\ UnitOf[b] \in DoubleBufUnits
Offset(b) == Cardinality({c \in 0 .. b - 1 : UnitOf[c] = UnitOf[b]})
Storages == {Own(b) : b \in Bucket} \cup {<<i, Offset(b)>> : i \in 0 .. PoolSize - 1, b \in Bucket}

\* FixedPoolAllocator.allocate takes the first idle buffer at the bucket's
\* offset; a bucket that has its storage keeps it.
Idle(b) == {i \in 0 .. PoolSize - 1 : \A c \in Bucket : storage[c] # <<i, Offset(b)>>}
Allocated(b) ==
  IF storage[b] # NoStorage THEN storage[b]
  ELSE IF ~Pooled(b) THEN Own(b)
  ELSE IF Idle(b) = {} THEN NoStorage
  ELSE <<Min(Idle(b)), Offset(b)>>

\* Writing a gradient leaves nothing intact of another bucket's.
Write(p, s) ==
  [grad_in EXCEPT ![s] = {g \in @ : BucketOf[g[1]] = BucketOf[p] /\ g[1] # p}
                         \cup {<<p, microbatch>>}]

----------------------------------------------------------------------------
(* The reduce-scatter stream.                                              *)

Intact(c, b) ==
  /\ c.from[b] # NoStorage
  /\ \A p \in ParamsOf(b) : <<p, c.microbatch>> \in grad_in[c.from[b]]

SumOver(share) == CASE share = "local" -> "reduced"
                    [] share = "absent" -> "absent"
                    [] OTHER -> "wrong"

\* What executing collective c leaves in the main gradients mg.  A sharded
\* buffer is added to, or overwritten in place; an unsharded one is reduced
\* as a whole.
Executed(mg, c) ==
  [p \in Param |->
     IF BucketOf[p] \notin DOMAIN c.from THEN mg[p]
     ELSE IF ~setup.sharded THEN [m \in Microbatch |-> SumOver(mg[p][m])]
     ELSE IF ~Intact(c, BucketOf[p]) THEN [m \in Microbatch |-> "wrong"]
     ELSE IF setup.inplace
     THEN [m \in Microbatch |-> IF m = c.microbatch THEN "reduced" ELSE "absent"]
     ELSE [mg[p] EXCEPT ![c.microbatch] = IF @ = "absent" THEN "reduced" ELSE "wrong"]]

StreamStep ==
  /\ rs_stream # <<>>
  /\ main_grad' = Executed(main_grad, Head(rs_stream))
  /\ rs_stream' = Tail(rs_stream)
  /\ UNCHANGED <<grad_reduce_queue, ready, storage, grad_in, loopVars, pc, raised>>

\* Completed_Mutant and the like: a faulty version of the definition that
\* follows, which the properties detect.
Completed_Mutant(b) == TRUE

\* The event recorded after the collective of bucket b has been reached.
Completed(b) == \A i \in 1 .. Len(rs_stream) : b \notin DOMAIN rs_stream[i].from

----------------------------------------------------------------------------
(* The pipeline's queue.                                                   *)

SizeOf(buckets) == FoldLeft(LAMBDA n, b : n + BucketSize[b], 0, buckets)
QueuedSize == SizeOf(grad_reduce_queue)
OverCapacity_Mutant == Len(grad_reduce_queue) > QueueCapacity
OverCapacity == QueuedSize > QueueCapacity

\* free_up_grad_bucket: dynamic storage goes back to the device allocator, a
\* pool buffer keeps what is in it until the next bucket writes.
FreeUp_Mutant(bs) ==
  /\ ready' = [b \in Bucket |-> IF b \in bs THEN {} ELSE ready[b]]
  /\ UNCHANGED <<storage, grad_in>>
FreeUp(bs) ==
  /\ ready' = [b \in Bucket |-> IF b \in bs THEN {} ELSE ready[b]]
  /\ storage' = [b \in Bucket |-> IF b \in bs THEN NoStorage ELSE storage[b]]
  /\ grad_in' = [s \in Storages |-> IF \E b \in bs : s = Own(b) THEN {} ELSE grad_in[s]]

\* One iteration of wait_for_previous_grad_reduce.  The event is waited for by
\* the stream that is current: the one the hooks run on, whose next steps come
\* after the collective, or rs_stream itself, which then makes nobody wait.
Pop(on_rs_stream) ==
  /\ grad_reduce_queue # <<>>
  /\ on_rs_stream \/ Completed(Head(grad_reduce_queue))
  /\ FreeUp({Head(grad_reduce_queue)})
  /\ grad_reduce_queue' = Tail(grad_reduce_queue)
  /\ UNCHANGED <<main_grad, rs_stream, loopVars, pc, raised>>

\* _enforce_double_buffer_limit: how much of the queue's end may stay when
\* bucket b is about to be used, so that it holds no second unit.
KeepN(b) ==
  LET unit == {UnitOf[b]} \cap DoubleBufUnits
      from(i) == unit \cup {UnitOf[grad_reduce_queue[j]] : j \in i .. Len(grad_reduce_queue)}
      keep == {i \in 1 .. Len(grad_reduce_queue) : Cardinality(from(i)) <= 1}
  IN  Min({Cardinality(keep), NumBuckets - 1})

OverLimit_Mutant(b) == FALSE
OverLimit(b) == FsdpDoubleBuffer /\ Len(grad_reduce_queue) > KeepN(b)

\* get_ready_bucket_group_for_reduction
GroupReady(b, marked) == \A c \in Group(b) : marked[c] = ParamsOf(c)

----------------------------------------------------------------------------
(* The hooks.                                                              *)

Reduces_Mutant == last \/ setup.auto_sync
Reduces == setup.sharded \/ last \/ setup.auto_sync

Raise(error) == raised' = error /\ UNCHANGED <<pipelineVars, loopVars, pc>>

Goto(next) == pc' = next /\ UNCHANGED <<loopVars, raised>>

\* Back to the loop that handed over the parameter at hand.
Return ==
  /\ IF pass = "hooks"
     THEN pc' = "backward" /\ require_handle' = require_handle \ {cur}
     ELSE pc' = "next" /\ UNCHANGED require_handle
  /\ UNCHANGED <<setup, used, microbatch, last, cur, pass, todo, raised>>

\* _root_pre_backward, once the training loop has started a backward pass.
StartBackward(receives, is_last) ==
  /\ pc = "idle" \/ (pc = "synced" /\ setup.auto_sync)
  /\ microbatch < setup.microbatches /\ ~last
  /\ is_last => setup.marks_last
  /\ setup.marks_last /\ microbatch + 1 = setup.microbatches => is_last
  /\ microbatch' = microbatch + 1
  /\ last' = is_last
  /\ used' = receives
  /\ require_handle' = Param
  /\ pc' = "backward" /\ pass' = "hooks"
  /\ UNCHANGED <<pipelineVars, setup, cur, todo, raised>>

\* The hooks still to run in this pass: _process_post_backward_gradients is
\* skipped for shared parameters.
Coming == (used \cap require_handle) \ Shared

GradientArrives(p) ==
  /\ pc = "backward" /\ p \in Coming /\ After[p] \cap Coming = {}
  /\ cur' = p /\ pc' = "accumulate"
  /\ UNCHANGED <<pipelineVars, setup, require_handle, used, microbatch, last, pass, todo, raised>>

\* _grad_acc
LimitAccumulate ==
  /\ pc = "accumulate" /\ setup.sharded /\ OverLimit(BucketOf[cur])
  /\ Pop(TRUE)

Accumulate ==
  /\ pc = "accumulate" /\ ~(setup.sharded /\ OverLimit(BucketOf[cur]))
  /\ LET b == BucketOf[cur]
     IN  \/ /\ setup.sharded /\ Allocated(b) = NoStorage
            /\ Raise("AssertionError")
         \/ /\ setup.sharded /\ Allocated(b) # NoStorage
            /\ storage' = [storage EXCEPT ![b] = Allocated(b)]
            /\ grad_in' = Write(cur, Allocated(b))
            /\ UNCHANGED <<grad_reduce_queue, ready, rs_stream, main_grad>>
            /\ IF pass = "hooks" THEN Goto("ready") ELSE Return
         \/ /\ ~setup.sharded
            /\ main_grad' = [main_grad EXCEPT ![cur][microbatch] = "local"]
            /\ UNCHANGED <<grad_reduce_queue, ready, storage, grad_in, rs_stream>>
            /\ IF pass = "hooks" /\ Reduces THEN Goto("ready") ELSE Return

\* reduce_gradients, for the parameter at hand.
MarkReady ==
  /\ pc = "ready"
  /\ ready' = [ready EXCEPT ![BucketOf[cur]] = @ \cup {cur}]
  /\ IF GroupReady(BucketOf[cur], ready') THEN Goto("capacity") ELSE Return
  /\ UNCHANGED <<grad_reduce_queue, storage, grad_in, rs_stream, main_grad>>

LimitCapacity ==
  /\ pc = "capacity" /\ OverCapacity
  /\ Pop(FALSE)

LimitLaunch ==
  /\ pc = "capacity" /\ ~OverCapacity /\ OverLimit(BucketOf[cur])
  /\ Pop(TRUE)

Launch_Mutant ==
  /\ pc = "capacity" /\ ~OverCapacity /\ ~OverLimit(BucketOf[cur])
  /\ LET bucket == BucketOf[cur]
     IN  /\ rs_stream' = Append(rs_stream, [microbatch |-> microbatch,
                                            from |-> [b \in {bucket} |-> storage[b]]])
         /\ grad_reduce_queue' = Append(grad_reduce_queue, bucket)
  /\ UNCHANGED <<ready, storage, grad_in, main_grad>>
  /\ Return

\* _bucket_group_gradient_reduce: the collective reads the storage the bucket
\* has now, when it is executed.
Launch ==
  /\ pc = "capacity" /\ ~OverCapacity /\ ~OverLimit(BucketOf[cur])
  /\ rs_stream' = Append(rs_stream, [microbatch |-> microbatch,
                                     from |-> [b \in Group(BucketOf[cur]) |-> storage[b]]])
  /\ grad_reduce_queue' = grad_reduce_queue \o GroupOf[BucketOf[cur]]
  /\ UNCHANGED <<ready, storage, grad_in, main_grad>>
  /\ Return

\* _root_post_backward: the parameters no hook has handled are accumulated in
\* the order of their names, then reduced in the order of their buckets.
RootPostBackward ==
  /\ pc = "backward" /\ Coming = {}
  /\ pass' = "accumulate" /\ todo' = require_handle /\ pc' = "next"
  /\ UNCHANGED <<pipelineVars, setup, require_handle, used, microbatch, last, cur, raised>>

NextLeftover ==
  /\ pc = "next"
  /\ \E first \in todo :
       /\ \A p \in todo : first <= p
       /\ cur' = first /\ todo' = todo \ {first}
  /\ pc' = IF pass = "accumulate" THEN "accumulate" ELSE "ready"
  /\ UNCHANGED <<pipelineVars, setup, require_handle, used, microbatch, last, pass, raised>>

EndLeftovers_Mutant ==
  /\ pc = "next" /\ todo = {}
  /\ pc' = IF Reduces THEN "reset" ELSE "end"
  /\ UNCHANGED <<pipelineVars, loopVars, raised>>
EndLeftovers ==
  /\ pc = "next" /\ todo = {}
  /\ IF pass = "accumulate" /\ Reduces
     THEN pass' = "reduce" /\ todo' = require_handle /\ UNCHANGED pc
     ELSE /\ pc' = IF Reduces THEN "reset" ELSE "end"
          /\ UNCHANGED <<pass, todo>>
  /\ UNCHANGED <<pipelineVars, setup, require_handle, used, microbatch, last, cur, raised>>

\* GradReducePipeline.reset, at the end of a backward pass and in finish_grad_sync.
Drain ==
  /\ pc \in {"reset", "finish"} /\ (pc = "finish" => setup.overlap)
  /\ Pop(FALSE)

Reset ==
  /\ pc \in {"reset", "finish"} /\ (pc = "finish" => setup.overlap)
  /\ grad_reduce_queue = <<>>
  /\ \/ /\ \E b \in Bucket : ready[b] # {}
        /\ Raise("AssertionError")
     \/ /\ \A b \in Bucket : ready[b] = {}
        /\ FreeUp(Bucket)
        /\ UNCHANGED <<grad_reduce_queue, rs_stream, main_grad>>
        /\ Goto(IF pc = "reset" THEN "end" ELSE "synced")

EndBackward ==
  /\ pc = "end"
  /\ pc' = IF setup.auto_sync THEN "finish" ELSE "idle"
  /\ UNCHANGED <<pipelineVars, loopVars, raised>>

\* optimizer.step() synchronises first, unless each backward pass has done so.
BeginStep ==
  /\ pc = "idle" /\ microbatch > 0 /\ ~setup.auto_sync
  /\ setup.marks_last => last
  /\ pc' = "finish"
  /\ UNCHANGED <<pipelineVars, loopVars, raised>>

\* start_grad_sync without overlap: every main gradient is reduced in place.
ReduceAll ==
  /\ pc = "finish" /\ ~setup.overlap
  /\ main_grad' = [p \in Param |-> [m \in Microbatch |-> SumOver(main_grad[p][m])]]
  /\ UNCHANGED <<grad_reduce_queue, ready, storage, grad_in, rs_stream>>
  /\ Goto("synced")

\* The base optimizer step, then zero_grad.
StepAndZeroGrad ==
  /\ pc = "synced"
  /\ main_grad' = [p \in Param |-> [m \in Microbatch |-> "absent"]]
  /\ microbatch' = 0 /\ last' = FALSE /\ pc' = "idle"
  /\ UNCHANGED <<grad_reduce_queue, ready, storage, grad_in, rs_stream,
                 setup, require_handle, used, cur, pass, todo, raised>>

----------------------------------------------------------------------------
Init ==
  /\ setup \in Setups
  /\ grad_reduce_queue = <<>>
  /\ ready = [b \in Bucket |-> {}]
  /\ storage = [b \in Bucket |-> NoStorage]
  /\ grad_in = [s \in Storages |-> {}]
  /\ rs_stream = <<>>
  /\ main_grad = [p \in Param |-> [m \in Microbatch |-> "absent"]]
  /\ require_handle = {} /\ used = {} /\ todo = {}
  /\ microbatch = 0 /\ last = FALSE
  /\ pc = "idle" /\ cur = 0 /\ pass = "hooks"
  /\ raised = "none"

\* The host inside a backward pass or a synchronisation.
Host ==
  \/ \E p \in Param : GradientArrives(p)
  \/ LimitAccumulate \/ Accumulate
  \/ MarkReady \/ LimitCapacity \/ LimitLaunch \/ Launch
  \/ RootPostBackward \/ NextLeftover \/ EndLeftovers
  \/ Drain \/ Reset \/ EndBackward \/ ReduceAll

TrainingLoop ==
  \/ \E receives \in UsedSets, is_last \in BOOLEAN : StartBackward(receives, is_last)
  \/ BeginStep \/ StepAndZeroGrad

Next == raised = "none" /\ (Host \/ TrainingLoop \/ StreamStep)

\* Autograd runs to the end of the pass it has begun, and the stream executes
\* what is launched.  Nothing is assumed of the training loop.
Fairness == WF_vars(raised = "none" /\ Host) /\ WF_vars(raised = "none" /\ StreamStep)

Spec == Init /\ [][Next]_vars /\ Fairness
----------------------------------------------------------------------------
(* Properties.                                                             *)

Collective ==
  [microbatch : Microbatch,
   from : UNION {[Group(b) -> Storages \cup {NoStorage}] : b \in Bucket}]

TypeOK ==
  /\ setup \in Setups
  /\ grad_reduce_queue \in Seq(Bucket)
  /\ ready \in [Bucket -> SUBSET Param]
  /\ storage \in [Bucket -> Storages \cup {NoStorage}]
  /\ grad_in \in [Storages -> SUBSET (Param \X Microbatch)]
  /\ rs_stream \in Seq(Collective)
  /\ main_grad \in [Param -> [Microbatch -> Share]]
  /\ require_handle \subseteq Param /\ used \subseteq Param /\ todo \subseteq Param
  /\ microbatch \in 0 .. MaxMicrobatches /\ last \in BOOLEAN
  /\ pc \in {"idle", "backward", "accumulate", "ready", "capacity", "next", "reset",
             "end", "finish", "synced"}
  /\ cur \in Param /\ pass \in {"hooks", "accumulate", "reduce"}
  /\ raised \in {"none", "AssertionError"}

\* A collective still to be executed finds in its bucket's storage every
\* gradient it was launched for: the storage was neither freed nor taken by
\* another bucket while the stream has yet to read it.
ReadsIntact ==
  setup.sharded => \A i \in 1 .. Len(rs_stream) :
                     \A b \in DOMAIN rs_stream[i].from : Intact(rs_stream[i], b)

\* When the optimizer steps, each main gradient contains every microbatch
\* since zero_grad, summed over the ranks once: none is lost or reduced twice
\* across the two places that reduce and the two that accumulate.
ReducedOnce ==
  pc = "synced" =>
    \A p \in Param, m \in 1 .. microbatch : main_grad[p][m] = "reduced"

\* No hook raises: the pipeline is never reset while a gradient waits for the
\* rest of its bucket group, and every bucket finds a buffer in the pool.
NoError == raised = "none"

\* The memory held by launched buckets: the queue exceeds its capacity by one
\* bucket group at most.
QueueBounded ==
  grad_reduce_queue # <<>> =>
    QueuedSize <= QueueCapacity + SizeOf(GroupOf[Last(grad_reduce_queue)])

\* A backward pass that has begun ends with every gradient reduced that it had
\* to reduce, and all communication storage given back.
BackwardCompletes ==
  pc = "backward" ~> /\ pc \in {"idle", "synced"}
                     /\ grad_reduce_queue = <<>>
                     /\ \A b \in Bucket : storage[b] = NoStorage
============================================================================
