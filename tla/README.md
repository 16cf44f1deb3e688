# A verification development for grove-fsdp

TLA+ specifications of the core of grove-fsdp, a ZeRO-3 ("fully sharded data
parallel") wrapper for PyTorch with RaggedShard layouts. The modules are
model-checked with TLC on small instances, and the theorems about them are
checked with TLAPS for every value of the constants. References of the form
`file:line` are to `src/grove_fsdp/` unless a longer path is given;
`buffer.py` abbreviates `param_and_grad_buffer.py`.

Contents: 1 the system, 2 modules and code, 3 runs, 4 bounds, 5 fairness,
6 proofs, 7 disagreements with comments and tests, 8 further observations,
9 what is not modelled, 10 what could follow.

## 1. The system

Training code wraps a model with `fully_shard` (`fully_shard.py`), which builds
a `GroveFSDP` module (`grove_fsdp.py`) and wraps the optimizer. Parameters are
grouped into *buckets*; a bucket is the unit of communication. Modules of the
classes in `fsdp_unit_modules` are *FSDP units*: their buckets are gathered
shortly before use and released shortly after. All other modules' buckets (the
embedding and the head, say) belong to no unit and stay gathered for the step.

| Component | State | Operations | Correct means |
|---|---|---|---|
| **Planner** (`dbuffer.py:301-597`) | none, a pure function | `plan_dbuffer_layout` and the search below it | no two tensors overlap, each element is on one rank, no block is cut, the shard is as small as possible |
| **Buffers** (`DistributedBuffer`, `DataParallelBuffer`; `dbuffer.py:141-300`, `buffer.py:943-1424`) | shard or whole bucket of weights, main weights, gradients | set/get item, slices in shard, gather into, reduce from, shard from bucket | every buffer of a group means the same elements, nothing is lost between shard and bucket |
| **All-gather pipeline** (`buffer.py:4064-4492`) | `bucket_status`, `bucket_can_be_released`, `param_gather_event_map`, bucket storage | `all_gather_params`, `wait_bucket_ready`, `release_bucket`, `recycle_unused_buckets`, `reset` | a bucket that is in use is never freed, overwritten or read early; memory is bounded |
| **Module hooks** (`grove_fsdp.py:456-1040`, 1230-1345) | `training_state` of each module, `_params_require_handle_grad` | pre/post forward, pre/post backward, root pre/post backward, synchronisation | weights are gathered and current whenever a module computes |
| **Gradient reduction** (`buffer.py:3597-4049`, hooks at `grove_fsdp.py:589-860`) | `grad_reduce_queue`, `bucket_grad_ready_params`, bucket storage, main gradients | accumulate, mark ready, launch, wait, drain, reset, finish | every gradient is reduced exactly once, storage lives until it is read, the queue is bounded, ranks launch in one order |
| **Bucket allocators** (`buffer.py:522-940`) | live and idle buffers | allocate, free | a live bucket has one buffer to itself |
| **Optimizer wrapper** (`fully_shard.py`) | the optimizer's state on each rank | `step`, `zero_grad`, `state_dict` | gradients are complete before the step, weights are installed after it, the ranks describe the same state |
| **Parameter groups** (`buffer.py:1425-1719`) | groups, buckets, bucket groups | `_get_parameter_groups` | every parameter in one bucket, a bucket in one unit |
| **Buffers of a model** (`ParamAndGradBuffer`, `buffer.py:1722-3470`) | weight, main weight and gradient buffers of all groups | construction, parameter reset, gradients and weights in and out | all gradients side by side in one allocation; weights current and gradients complete through whole cycles |
| **Mixed precision** (`mixed_precision.py`) | FP8 weights and transposes | quantise, synchronise scales | numerics of another library |
| **Hybrid sharding** (`buffer.py:3470-3580`, branches in both pipelines) | helper buffers, outer groups | outer all-gather and reduction | the same on two levels |
| **Distributed index** (`utils.py:489-779`) | meshes and process groups | groups and logical ranks | rank order, shards and groups agree |
| **Uneven DTensors** (`uneven_dtensor.py`, `make_fsdp_dtensor`) | chunk metadata of each DTensor | compute, validate, gather, split | chunks tile the tensor and name the elements the rank has |
| **RaggedShard** (`src/veScale`) | placements and local tensors | distribute, redistribute, dispatch, save, load | every rank has exactly the elements its placements promise |

How they interact. Autograd and activation checkpointing call the hooks; the
hooks call the two pipelines; the pipelines launch collectives on side CUDA
streams and allocate and free bucket storage; the buffers say which bytes of a
bucket belong to which rank; the optimizer wrapper calls the hooks' module to
finish gradients and to install weights. One host thread runs everything, but
what it launches is executed later, and the order of hooks is autograd's.

What is hard:

* recomputation runs forward hooks of a stretch of modules *inside* their
  backward pass, and may stop before the last post-forward hook;
* lazy release: a bucket is marked and recycled by *another* module's gather;
* prefetch gathers what nobody has asked for yet, and must fit a fixed pool;
* a resident bucket is not gathered again, so residency across an optimizer
  step means stale weights;
* gradients of a bucket group arrive in any order, or not at all, and there are
  two places that accumulate and three that reduce;
* storage is given back by the host while a stream may still have to read it;
* layout arithmetic: items that begin and end anywhere relative to a shard;
* two numberings of the ranks (outer group first, inner group first) that the
  collectives of both levels, the views of helper buffers and the chunk metadata
  must use alike;
* ranks hold empty shards of many parameters, and take part in collectives
  about them all the same.

The hazards list in `PROJECT.json` gives the line where each of these bites and
the properties that cover it.

## 2. Modules and code

```
AllGatherPipeline        calls of the pipeline, as actions
  PipelineClient         any client, with the contract ("held")
    FsdpHooks            the module hooks as one such client
      FsdpHooksProofs      theorems about any client, and about the hooks
GradReducePipeline       accumulation and reduction, host and stream
  GradReducePipelineProofs theorems
ReductionOrder           the launches of several ranks, and who waits for whom
  ReductionOrderProofs     theorems
BucketStore              what an allocator of buckets promises
  BucketAllocators       the allocators, each implementing it
    BucketAllocatorsProofs theorems, the refinement among them
DBufferLayout            the planner, as operators
  DBufferLayoutProofs      what it returns, for every input
  DataParallelBuffer     buffers of one parameter group on several ranks
    DataParallelBufferProofs theorems (also extends DBufferLayoutProofs)
  UnevenDTensor          DTensors of the shards, their chunk metadata
DistributedIndex         process groups of a mesh
ParameterGroups          from parameters to buckets
  ParamAndGradBuffer     all buffers of a model, on all ranks, for whole cycles
                         (with DBufferLayout, DistributedIndex, UnevenDTensor)
    ParamAndGradBufferProofs theorems (also extends DBufferLayoutProofs)
FoldProofs               lemmas: induction over numbers and finite sets, sums over
                         sets and sequences, functions defined along a set
RaggedShard              placements and boxes of veScale, as operators
  RaggedTensor           a DTensor through what is done to it
MC*                      instances for TLC
```

**AllGatherPipeline.** The variables have the code's names. A key is a pair of a
bucket and whether it is the transposed weight buffer. `contents` is an
abstraction of the storage: the *version* of the weights in it, or `NoData`;
`shard_version` is the version of the persistent shard, and `raised` the
exception that ended the run. `AllGatherParams` is the whole of
`all_gather_params` (`buffer.py:4154`): refusal of too many units, requests that
take back a lazy release, prefetch group by group in either order, skipping
what is resident, recycling, launch. `WaitBucketsReady`, `MarkReleasable`,
`ReleaseBuckets`, `Reset` are the other calls; `MarkUnitsReleasable`,
`GatherEverything` and `InstallWeights` are what `_root_pre_backward`,
`start_param_sync(force_sync=True)` and `install_optimized_model_weights` do to
the pipeline. The fixed pool enters as the condition `FitsPool`: allocation
raises when a third unit would need a buffer at one offset. Collectives are
taken to have been executed when they have been waited for.

**PipelineClient** states what any client may rely on. `held` collects the keys a
client has asked for and not let go of; the contract is that it waits only for
held keys. Its next-state relation makes any call at any time.

**FsdpHooks** composes the same actions. A model is a chain of modules
`1 .. NumModules`; `fwd` and `bwd` are the positions of the forward and the
backward pass, with the stage inside the hook, so that a hook is split where it
waits. A forward pass inside a backward pass is a recomputation. `setup` fixes a
way of training: which stretches are recomputed, whether re-entrantly, which
modules have an input that requires grad, auto-synchronisation, how many forward
passes may be in flight, whether evaluation passes occur, whether forced weight
synchronisation is used. Autograd is external: its order is that in which the
hooks are registered to fire (pre-backward on outputs, post-backward on inputs
that require grad, root hooks around the pass). That `UsesPipelineByContract`
holds makes FsdpHooks a refinement of PipelineClient, with the identity mapping
on the pipeline's variables.

**GradReducePipeline.** Host and reduce-scatter stream. The host walks through
the hooks with a program counter; `StreamStep` executes the oldest collective at
any later moment. A gradient is a pair of parameter and microbatch;
`main_grad` records for each pair whether it is absent, local, reduced or wrong,
and `grad_in` which gradients are intact in a storage. `Accumulate` is
`_grad_acc`, `MarkReady` and `Launch` are `reduce_gradients` and
`_bucket_group_gradient_reduce`, `Pop` an iteration of
`wait_for_previous_grad_reduce`, `RootPostBackward` to `EndBackward` the root
hook, `BeginStep`, `ReduceAll` and `StepAndZeroGrad` the optimizer wrapper. An
event waited for while `rs_stream` is current makes nobody wait: that is the
parameter of `Pop`; otherwise what follows comes after the collective, so `Pop`
is blocked until the stream has executed it (`Completed`). `GroupOf` has the
lists of `bucket_to_bucket_group`; the buckets of a group are launched in one
collective, in the order of the list.

**ReductionOrder** puts several such ranks side by side, with their queues and
streams but without storage and main gradients. The hooks of all ranks fire in
one order, each rank's for the parameters it used only; the root hook hands over
the rest by bucket. A collective is executed when all ranks of its process group
have it at the head of their streams; experts have groups of their own, but
share the stream.

**DBufferLayout** has one operator per function of the planner:
`NextValidTensorStart`, `CheckValidShardSize`, `MinimalFeasibleShardSize`,
`Alignments` and `Algorithm1ShardSize`, `OrderedItemVariants`, and
`PlanDBufferLayout` in two parts, the search among orders and the layout. Loops over shards become the least shard with a
place; the bisection is a function of the record of its bounds. Its last section
is the reference: `CanBePlaced` says that *some* placement exists.

**DataParallelBuffer** takes one parameter group through a training step on all
ranks: plan, set up buffers, gather, reduce gradients, optimizer step, copy main
to model weights, gather again. Ranks move on their own and meet at collectives.
A cell is identified by the tensor and position it comes from and the ranks
whose gradients are in it, so that a cell out of place is seen wherever it goes.

**BucketAllocators** has the five allocator classes of `buffer.py:522-940` side by
side, the pool in both its variants; `kind` says which one a behaviour is about.
A client allocates, fills and frees buckets in any order. Memory is a set of
named buffers, so that the question is which buffer a bucket is handed. The
abstract `BucketStore` knows no buffers at all: a bucket has contents until it is
freed. `Contents` is the refinement mapping, and `ActsAsStore` the claim.

**ParameterGroups** translates `_get_parameter_groups` step by step, and
**DistributedIndex** the groups of ranks. A mesh is a record: outer groups, ranks
that shard, expert parallelism, hybrid or not.

**ParamAndGradBuffer** composes both with the planner. It builds the buffers of
every group in the code's order (plan, count, initialise weights with the resets
of modules on the meta device, hand out slices of the gradient allocation,
register DTensors, wrap the optimizer) and then runs cycles of microbatches:
gather, outer gather, accumulation, scaling, inner and outer reduction, optimizer
step, state dict. Ranks run the same program, so one action is a step of all of them;
interleavings within a cycle are the business of the two pipelines' modules. A
weight cell names its element, owner, initialisation and step; a gradient cell
has the exact amount of every rank's and microbatch's gradient in it, so a
missing, repeated or twice-scaled contribution is visible.

**UnevenDTensor** has one operator per function of `uneven_dtensor.py`, and
`make_fsdp_dtensor`. `StateDict` in ParamAndGradBuffer lets the ranks walk through
their state dicts: what a rank takes for the sizes of its peers are the sizes of
whatever entry they are at.

**RaggedShard**, **RaggedTensor.** The operators compute, for a shape, a mesh and
placements, which elements a rank has. The module's actions are
`distribute_tensor`, `DTensor.from_local`, `redistribute` and its backward pass,
pointwise and in-place operators, reductions, norms, saving and loading; cells
are marked with the element and the contributions they hold.

Definitions named `..._Mutant` are faulty versions of the definition after them
(a dropped wait, an off-by-one, a missing flag); each property of a passing run
is violated by one of them.

Abstracted throughout: numbers in tensors, dtypes and conversions, devices,
logging, and the choice of collective backend.

## 3. Runs

| Run | Module | Shows |
|---|---|---|
| `pipeline_client` | MCPipelineClient | Under *any* sequence of calls: events are recorded for exactly the gathers in flight (`EventIffCommunicating`), storage exists for exactly the non-empty buckets (`StorageIffNotEmpty`), what is held is never recycled (`HeldResident`), no call overwrites a resident bucket (`NoOverwrite`). The type invariant is proved (`TypeCorrect`). |
| `hooks` | MCFsdpHooks | All ways of training in `AllSetups`: every computation reads gathered (`InUseReady`) and current (`InUseFresh`) weights, no hook raises, at most two units or one recomputed stretch are in memory (`UnitsInMemory`), units are released after use (`UnitsReleasedAfterUse`), the contract is kept. |
| `hooks_double_buffer` | MCFsdpHooks | The fixed pool with two buffer groups, transposed weights, a unit of two buckets: the pool is never exhausted by stretches of at most two units, and the transposed key is ready in time. |
| `grad_reduce` | MCGradReducePipeline | Any order of gradients, tied and unused parameters, up to two microbatches, all strategies: each gradient is in its main gradient once (`ReducedOnce`), storage lives until it is read (`ReadsIntact`), the queue exceeds its capacity by the group launched last at most (`QueueBounded`), no assertion fails, every pass ends with all storage returned (`BackwardCompletes`, liveness). |
| `grad_double_buffer` | MCGradReducePipeline | The double-buffer limit keeps the gradient pool from running out. |
| `reduction_order` | MCReductionOrder | Four ranks whose unused parameters differ within a bucket launch their collectives in one order (`SameOrder`) and never wait for each other in a circle (`NoCircularWait`, and the deadlock check). |
| `data_parallel_buffer` | MCDataParallelBuffer | The layout is sound and minimal (`LayoutSound`, `SmallestShard`), the planner accepts its own plans (`NoError`), each rank's slice has the size its placement announces (`ShardsMatchPlacement`), gathered weights are whole (`GatheredWhole`) and every rank's share has every rank's gradient (`ShareUpdated`). |
| `bucket_allocators` | MCBucketAllocators | Every allocator acts as a store in which a bucket has memory of its own (`ActsAsStore`, a refinement); the pool fails only on a client that overfills it (`PoolSuffices`); no allocator keeps more memory than its strategy needs (`Footprint`). |
| `param_and_grad_buffer` | MCParamAndGradBuffer | Buckets are sound (`GroupsSound`); all gradient slices fit their allocation (`GradSlices`); a module computes with the weights of the last step on both levels of sharding (`WeightsCurrent`); the optimizer sees every gradient once, at the right scale (`GradientComplete`); parameters and optimizer state are described as they lie, and gathered and split right (`ShardsDescribed`). |
| `ragged_tensor` | MCRaggedTensor | Ranks hold what placements promise after any sequence of operations (`Denotes`); operands meet element by element (`PointwiseAligned`); norms count every element once (`NormExact`); checkpoints hold every element once (`SavedOnce`); exchanges agree on their sizes (`NoError`). |

Two runs end in a counterexample on purpose; section 7 explains them.

`grad_reduce`, `grad_double_buffer` and `reduction_order` check for deadlock. The
other runs switch that off: the number of optimizer steps is bounded, a raised
exception ends the program, and a training program may stop.

## 4. Bounds, and why they are enough

* *Pipeline.* A bucket of no unit and three units of one bucket each, the first
  also transposed, prefetch limit 2, pool of one: prefetch in both orders
  crosses unit boundaries, is cut by the limit and by the double buffer, and the
  pool is exhausted by some calls. Groups of two buckets are in
  `hooks_double_buffer`. One optimizer
  step (`MaxVersion`) distinguishes old from new.
* *Hooks.* Five modules: embedding and head share a bucket of no unit, three
  units between them. Three units are the least with a unit that is neither the
  first nor the last recomputed, and with one unit more than the double buffer
  holds. Stretches of one, two and three units; two passes in flight; two
  optimizer steps, so that weights may be stale in either.
* *Gradients.* Five buckets, seven parameters: a unit of two buckets reduced as
  a group, buckets of two parameters (a group can be half ready), a tied
  parameter outside all units, capacity of two elements (reached by any two
  buckets), two microbatches (accumulation over one that was reduced).
  `AnyOrder` leaves the order of hooks open; with the pool, which is about
  units following each other, `UnitOrder` runs the units in reverse.
* *Buffers.* One to three ranks and up to three tensors: items before, in,
  after and across the shards of a rank, spanning two boundaries, with blocks
  that do and do not divide the share. Row-wise jobs are limited to tensors no
  larger than a rank's share, because larger ones may overrun (section 8).
  Exception: `Wide`, which spans three shards and fits.

* *Allocators.* Five buckets: two units of two buckets each that are alike but
  for padding, and one outside of units; a pool of one, so that a second unit
  exhausts it; one idle workspace kept and three ever created; two values.
* *Models.* One, two and four ranks: the least with an inner and an outer group,
  and with experts sharded inside both. Three models of four to six
  parameters - frozen, tied, shared, expert, FP8, a unit in a unit - under every
  strategy, flat and hybrid, averaged or summed, created on the meta device or
  not; two cycles of two microbatches that may leave parameters out. Gradients
  are multiples of the square of the number of ranks, so that averages are whole
  numbers. Hybrid models have vectors only, as matrices cannot be wrapped there
  (section 8).
* *Order of ranks.* Four ranks, the least with two process groups of experts
  inside the whole; a unit of two dense buckets in one group with an expert
  bucket between them, so that the groups interleave. Every assignment of two
  ways of use to two passes, which repeat for ever. Ranks agree on which
  *buckets* have an unused parameter. That is needed: if they agree on bucket
  *groups* only, one rank launches the dense group before the experts' bucket and
  another after it, and they deadlock (section 8).
* *RaggedShard.* Lines of three ranks and squares of two by two, shapes of up
  to three dimensions, shares of no rows among them. `Ways` leaves out three
  uses that go wrong (section 8).

## 5. Fairness

Only `BackwardCompletes` needs fairness. `WF_vars(raised = "none" /\ Host)`:
autograd runs to the end of a pass that it has begun, as the engine does unless
a hook raises. `WF_vars(raised = "none" /\ StreamStep)`: the device executes what
has been launched, sooner or later; whoever waits is blocked until then, so
without it a wait could last for ever. Weak fairness is enough as neither is
disabled by the other once enabled. Nothing is assumed of the training loop,
which may stop between passes.

## 6. Proofs

*Pipeline* (first part of `FsdpHooksProofs`). The four invariants of PipelineClient are
inductive together, `IInv == TypeOK /\ EventIffCommunicating /\
StorageIffNotEmpty /\ HeldResident`; none of the last three is by itself (that
freeing a key drops the right event needs the status to agree with the event
map). There is one lemma for each kind of call. `HeldStaysResident` is the result that
matters: what a client holds survives any interleaving of gathers, prefetches,
releases and recycling. `ResidentKeepsContents` follows from `IInv` for each
step. Assumption: `PipelineAssumption`.

*Hooks* (the rest of `FsdpHooksProofs`). Five layers.

1. `ControlInv` is about the order of the passes alone: types, `Control` (a
   forward pass in a backward pass recomputes up to the module at hand; the
   training loop acts between passes) and `MarkedForBackward` (modules whose
   backward is still to run are in `PRE_BACKWARD`, which is what makes their
   recomputed forward release lazily).
2. `ContractInv == IInv /\ ControlInv /\ WaitsHeld`: whatever a hook is about to
   wait for is held. It yields `ContractKept`, that the hooks refine the general
   client, `HooksTypeCorrect` (proved, and so no invariant of a run), and, without
   the fixed pool, `NoHookRaises`.
3. `HInv == ContractInv /\ Kept`: what is computed with is held and ready.
   `ReadyStays` lifts `IInv` (a key held before and after a call stays ready),
   so each action owes only that it releases other keys than those in use:
   units share no parameter with other modules, so releases miss them; and a
   module that is recomputed for its own backward is released lazily, after
   which nothing is gathered until that backward is done (this is why
   `BackwardKept` requires the hold only until then). `NonUnitsKept` carries the
   buckets of non-units through the step. It yields `ComputesOnReady`. With
   `Fresh` (what is gathered is current; nothing is gathered while weights are
   installed) it yields `ComputesOnFresh`.

4. `LeftQuiet`: what a backward pass has left behind is not ready, or is marked
   for the next recycling (`Quiet`), and so it stays until the last pass has
   ended. `UnitsReleased` follows, from `UnitsDisjoint`: between passes no unit
   whose input has a gradient is gathered and unmarked. A prefetch cannot undo it:
   what has been gathered in advance becomes ready when it is waited for.
5. `RoomInv`: which units may be in memory. A gather recycles what is marked, so
   what is in memory after one is what was kept before it, what it asks for and what
   it fetches ahead. `Ahead`, `Behind` and `Leads` say how far the last goes, for every
   size of the buckets: from a unit to the next in the direction of the pass, from
   what is no unit to the first two units. What is kept is within `Room`, a set of
   units that moves with the pass: the unit at hand and the next one, and in a backward
   pass the one that is recomputed besides. Every gather finds the units of `Room`, with
   what it adds, to be two, or some of one recomputed stretch (`Few`). This yields
   `FewUnitsInMemory` and, since two units have two buckets at each offset of the
   pool at most (`TwoUnitsFit`), `PoolNeverExhausted`: no hook raises with the double
   buffer either. The transposed weights need a part of their own (`TransposedRoom`),
   because a unit's forward and backward buckets are released one after the other.

The last layer is about a chain of units. `UnitsInOrder`: units follow each other, their
buckets in the same order after those of other modules, which is how the grouping
numbers them if the first parameter of the model is of no unit. `OneUnitAhead`: buckets are no smaller than the prefetch limit, or the double
buffer serves all units; with smaller buckets the search goes on until the limit is
reached, and there are more units in memory than two. `UnitsReturned`: every unit but the
first has an input with a gradient, and one that has none no transposed weights,
which nothing would release. `PoolNeverExhausted` needs `PoolServes` too: two
buffers, no more than two units recomputed together, and no forced synchronisation,
each of which the pool has no buffers for otherwise. TLC finds them to hold of the
instances of `hooks` and `hooks_double_buffer` (`HooksProved`).

The hypotheses of `ComputesOnReady` and `ComputesOnFresh` are about the model and
the training loop, and each is needed:

* `UnitsDisjoint`: no unit shares a parameter with another module;
* `OnePassWhenAutoSync`: with `model_auto_sync` one forward pass is in flight
  (otherwise the reset at the end of one backward pass frees the non-unit
  buckets of the other pass, section 8);
* `NoEvalWhenAutoSync`, for freshness: with `model_auto_sync` no pass without a
  backward pass precedes the optimizer step (otherwise weights are stale:
  section 8).

The instance of run `hooks` satisfies all three.

*Allocators* (`BucketAllocatorsProofs`). `Sound` says, allocator by allocator,
where a live bucket's buffer can come from (`Placed`), that live buckets have
different buffers of the size they asked for, and that idle numbers are distinct
and belong to no live bucket. That two live buckets have different buffers is
not inductive by itself: a number is reused, so it must be known that a number
is either idle, once, or used, by one bucket. `StoreStep` lifts each kind of
change (handed out, returned, written, nothing) to a step of the store.
`AllocatorsImplementStore` is the refinement: initial states map to initial
states, steps to steps or stutters. For memory, `Lean` says of every buffer that
has storage why it is needed, and counts: idle and live buffers together are no
more than were ever live at once. It yields `StorageBounded`, and, since a pool's
buffer is refused only when other units have all of its groups,
`PoolIsLargeEnough`. Assumptions: `AllocatorAssumption`, and that a
workspace in use is not asked for again with another size nor the planned size
changed once workspaces exist (`Ways = {}`), both of which the code gets wrong
(section 8) and no caller does.

*Gradient reduction* (`GradReducePipelineProofs`). `ReducedOnce` needs to know, at
the optimizer step, what became of every gradient of every pass. The inductive
invariant has two parts.

1. `PipeInv` is about one pass. `Control` is the order of hooks and of the two
   loops over what they left. `ReadySound`: what is marked ready is stored, and
   is not marked again. `StoredSound`: what is about to be marked is stored.
   `QueueSound`: a launched group awaits nothing more. `StreamSound`: a collective
   still to be executed is queued and finds its gradients, because storage is
   freed only by a `Pop`, which waits for it. `GroupsSound` is the heart: a
   bucket group either awaits a parameter, and has marked all others, or was
   launched. At the reset nothing is awaited, hence nothing is left
   (`NoReductionRaises`); also `ReductionTypeCorrect` and `CollectivesReadIntact`.
2. `GradsSound` says what the main gradients contain in terms of what is still to
   be launched (`Open`) and to be executed (`InStream`), for sharded and for
   unsharded gradients, and that no bucket is in two collectives. It yields
   `GradientsReducedOnce`.

The hypotheses are `GradAssumption`, `NoDoubleBuffer` (with the fixed pool, waits on
`rs_stream` hold nobody back and buffers may be overwritten, section 8) and, for
the last theorem, `EachReducedOnce`: no in-place reduction of more than one
microbatch (section 7), and unsharded gradients are reduced at one place only
(section 8). All ways of training of run `grad_reduce` satisfy them. Everything
else is arbitrary: buckets, groups, tied and unused parameters, the order of
hooks, the capacity, and how far the stream lags.

`QueueIsBounded` has an invariant of its own, `QueueInv`, and needs neither
hypothesis: with the fixed pool or without, the launched buckets' gradients take no
more than the capacity and the group launched last. A group is
appended to a queue that fits, and a loop of `Pop`s shortens it from the
other end. Sizes are sums over sequences, which `FoldProofs` handles.

*Order of ranks* (`ReductionOrderProofs`). Each rank hands its parameters over in an
order of its own (`Earlier`: those it used as their hooks fire, the rest at the root
hook). What the ranks share is the order this induces on bucket groups
(`GroupEarlier`): a group is complete when its last parameter is. The invariant
says that parameters are handed over in that order (`HandedInOrder`), that
the group about to be launched has just been completed (`LaunchingLast`), how
marks, queue and stream agree (`QueueSound`), that the stream is sorted
(`StreamSorted`), and that two ranks of a process group have executed the same
collectives of their passes or are a pass apart, one at its beginning and the
other at its end (`Lockstep`). `LaunchOrder` follows for ranks that leave
parameters of the same buckets to the root hook (`AgreedUses`). For `NoDeadlock`
take, of the ranks that wait in a circle and are in the earlier pass, one whose
collective at the head of its stream is the least in the common order: whoever it
waits for is in that pass too, and has an earlier one. Passes must not drift
apart, hence `SomeDense`: a bucket is reduced over all ranks, as those without
experts are.

*Planner* (`DBufferLayoutProofs`). The search is a recursion over numbers that
nothing but its own progress bounds, so three things are shown of it. A greedy
placement is side by side: a start that is returned lies at or after the cursor,
keeps blocks whole (`StartsInShard`), and stays in the bucket if the tensor has
single elements or is no larger than a shard (`Modest`, `NextStarts`). Both loops
end: once shards are larger than all tensors together everything fits in the first
(`LargeShardsFit`), so the doubling finds a size (`DoublingEnds`), and the
bisection keeps its best size feasible while its interval shrinks
(`BisectionEnds`); both are instances of one lemma on loops with a measure
(`LoopExists`, `LoopValue`), which also shows that the recursive functions exist.
Shares add up: what the shards up to a position have of a tensor telescopes
(`SharesAddUp`). `PlanIsSound` puts them together for the default order, which is
what the buffers ask for. Its condition `NoLargeBlocks` is needed: a row-wise
tensor larger than a rank's share may overrun the bucket, and without padding the
shard is cut after the plan was made (section 8).

*Buffers of a group* (`DataParallelBufferProofs`). The invariant says of every rank,
step by step, what is in every cell of every buffer it has (`Holds`, with
`Contents` for a sharded or a whole buffer): the element that the layout puts
there, with the contributions of that step in the rank's own share, and whatever
the strategy leaves in the rest. `LaidOut` is the geometry it rests on. It
yields `NoException`, `ShardSizes`, `GatheredTensors`, `SharesGetGradients` and
`LayoutIsSound`, all from `PlansSound`: the layouts of the groups with valid block
sizes are side by side and cut between blocks. `PlannerIsSound` proves that
condition for the tensors of `PlanIsSound`; the run evaluates it for the other
orders, which only direct callers of the planner use, and for `Wide`.

*Parameter groups* (`ParamAndGradBufferProofs`). For every model, `GroupsFormed` says
what the grouping returns: every parameter is in one group and there once, with
parameters of its attributes, a shared embedding alone, and every row divides the
group's factor or is of a shorter tensor; `GroupingSound` follows. One lemma per step: a
sorted set lists each member once (`OrderedAll`); the classes make up the parameters
(`Classes`); while a class is cut, what is in closed buckets and in the open one is what
has been seen, and nothing twice (`Fills`, `BucketsSplit`); so it is of all classes
together (`SplitsAll`); sorting a bucket moves its parameters only (`SortedLists`); and
the factor stays a multiple of each row it took in, since it grows by least common
multiples only (`FactorFits`). Assumptions: `JobsAssumption` and `ModelsAssumption`, by
which a model has a parameter. The model sorts by a relation over positions, because the
provers know nothing of TLC's `SortSeq`.

*Buffers of a model* (same module). The invariant has a ledger: what the
first n groups need of each dtype, for every n. What has been counted is the
ledger's last entry, what has been handed out an earlier one, and a slice lies
between two of them (`SlicedBy`); since the ledger grows, slices are side by side
and the last one ends at the size of the allocation (`GradientsSideBySide`). The
code counts for a sharded helper what it hands out to another buffer, and
`AskedIsNeeded` shows the two sizes are one. That the planner finds each group a size is
proved from what the grouping returns (`GroupsPlanned`). Assumptions: `JobsAssumption`
and `ModelsAssumption`.

*Gathered weights* (same module, `GatheredWeightsCurrent`). The ranks of a process group
are equally far apart (`Spaced`), so that a rank's place in it is a digit of its
number: outer, inner, and among the experts. From that follow the places of every
slice in every buffer (`Lay`, `Geometry`), with two levels of sharding the order
(shard, outer) of `GetLogicalHybridFsdpRank` included. `WeightsKnown` says what is in
each cell: the rank's own view always is of the last step (`ViewHolds`), the rest of
the inner buffer where it was gathered since (`Fresh`), and a gathered bucket
throughout. A step breaks neither since it comes when nothing is gathered, and the
first microbatch after it gathers over the outer group: that is `Rhythm`, which
relates the position in the cycle, `microbatch` and what is resident. Assumption:
`OuterRefreshed`, with two levels nothing is gathered without its outer shards
(section 8 says where the code does so). TLC finds it to hold of the jobs it checks
(`JobsProved`).

*Complete gradients* (same module, `GradientsComplete`). The invariant `GradsKnown` says
whose gradients a cell has, with what share (`Sum`), in a buffer of one of three kinds:
with the rank's own only, as before a reduction (`LocalHolds`); with those of the inner
group, in the part that the reduction leaves to the rank (`SpanHolds`); and with those of
all data-parallel ranks, in its own part (`OwnHolds`). The number of microbatches added
(`Added`) and whether the outer reduction is done (`Outside`) follow from the position in
the cycle (`Passing`). The step that needs most is a reduction: the library sums over a
set by choosing its elements in some order, and `TotalSum` shows that of ranks which have
gradients of disjoint sets of ranks the sum has those of the union; that the sets are
disjoint, and that the inner groups of an outer group make up the data-parallel group,
comes from the digits again (`PeersSpread`). How often a share is divided is followed
through pre-scaling, averages and both reductions (`SharesAre`). Assumption:
`ScaledOnce`, which excludes the ways of training in which the code
divides a gradient twice, not at all or writes over it; sections 7 and 8 have each of
them. TLC finds it to hold of the jobs of `param_and_grad_buffer` (`JobsProved`).

*Only model-checked:* `SmallestShard`, which compares the plan with every other placement;
`ShardsDescribed`; the ragged tensors; and the liveness of the backward pass, since
liveness under fairness is beyond the proof system.
Induction schemes over an operator are beyond it too, so induction is over sets of
numbers (`Induct`, `FiniteInduct` in `FoldProofs`).

## 7. Disagreements with comments and tests

Each is a run that ends in a counterexample; `PROJECT.json` quotes the line.

* `grad_lost_in_place` - the in-place reduce-scatter, the default, writes over
  the gradient shard that already has earlier microbatches (`buffer.py:3879`).
* `expert_grads_rescaled` - experts that each rank of the inner group holds
  alone have an undistributed gradient buffer. It accumulates, but the hooks
  reduce it in every microbatch, and each time the accumulated sum is scaled
  (`grove_fsdp.py:721`, `buffer.py:4513`).

## 8. Further observations

Met while modelling, and not kept as runs. First, in the hooks and the
pipelines:

* With `model_auto_sync`, an evaluation pass between `backward` and `step` leaves
  the non-unit bucket gathered. The step installs new weights in the shard only,
  and the next forward pass takes the bucket for ready (`buffer.py:4452`).
* Without overlap, with auto-synchronisation, unsharded gradients are reduced by
  the hooks and again by `start_grad_sync` (`grove_fsdp.py:1306`).
* With the double buffer the wait for an earlier reduction happens while
  `rs_stream` is current, so the compute stream does not wait, and the next
  unit's gradients may be written to a buffer still to be read (`buffer.py:3754`).
* Two forward passes in flight with auto-synchronisation: the first backward
  pass resets the pipeline, non-unit buckets of the second are freed under it
  (`grove_fsdp.py:862`).
* Non-unit modules have no hook that puts `training_state` back to IDLE, so
  after the first backward pass their forward is treated as recomputation and
  does not prefetch (`grove_fsdp.py:904`).
* The gradient pool runs out when three units each have an unused parameter
  (half-ready buckets hold buffers the limit does not count, `buffer.py:3747`);
  the weight pool does when a stretch of three units is recomputed
  (`buffer.py:887`).
* A first unit whose input needs no gradient has no post-backward hook and stays
  gathered until the next recycling (`grove_fsdp.py:798`).
* `start_param_sync(force_sync=True)` releases nothing it gathers
  (`grove_fsdp.py:1266`); `grove_fsdp_release_non_fsdp_unit_params` is read
  nowhere (`distributed_data_parallel_config.py:187`).
* `async_param_gather=False` waits for the last bucket group only
  (`buffer.py:4345`).
* The comment in `start_param_sync` says buckets are released immediately; they
  are not (`grove_fsdp.py:1264`).

In the layout and the buffers:

* A tensor moved to a block boundary in the last shard is not compared with the
  end of the bucket (`dbuffer.py:378`).
* With sharded optimizer state and unsharded weights, nothing brings the other
  ranks' updated shares to a rank (`dbuffer.py:244`).
* Without sharding the plan is cut after the last element but checked against
  block sizes afterwards, so `no_shard` with blocks may raise.
* The shard is minimal among the alignments tried, which are least common
  multiples of block sizes, not among all: sizes 2 and 3 with blocks 2 and 3 on
  two ranks get a shard of 4 where 3 would do.
* Sorting by bucket makes the order of one rank's leftovers deterministic
  (`buffer.py:3671`), but ranks agree on the order only if they agree on the
  buckets with unused parameters. Otherwise they add gradients of different
  buckets or hang; it does not suffice that they agree on bucket groups.
* A live workspace that is asked for again is handed out uncut
  (`buffer.py:617`), and an idle workspace smaller than a plan raised later is
  handed out for it (`buffer.py:600`); only tests use that allocator. The fixed
  pool compares units by the number of elements, before padding (`buffer.py:844`).

In models and hybrid sharding:

* In a hybrid mesh the DTensor of a matrix gets `Shard(0)` placements and a flat
  local tensor; the check of its chunks fails on the last rank, and the model
  cannot be wrapped (`buffer.py:4755`, 4916). `ShardsDescribed` fails at once if a
  hybrid job of the instance has matrices in it.
* The gradient buffer of a helper is made without a scaling factor
  (`buffer.py:3507`), so fully sharded hybrid training sums gradients where it
  should average them; the instance uses a loss per token there.
* The outer all-gather is issued in the first microbatch only
  (`grove_fsdp.py:480`): a bucket first used in a later one, or gathered by a
  forced synchronisation, has the other outer ranks' old weights. The instance's
  first microbatch uses everything.
* With auto-synchronisation every microbatch ends a cycle, and the outer
  reduction is repeated over sums that were reduced before; the instance has one
  microbatch there.
* With `average_in_collective` the scaling factor of experts is ignored
  (`buffer.py:4505`), and the outer reduction, which averages a loss per token too,
  uses the dense parameters' group for experts (`buffer.py:3924`).
* A check that keeps nested units apart looks at the root module and so never
  applies (`buffer.py:1523`); the first unit that matches wins all the same.
* Tied weights on the meta device: one of two modules keeps its meta parameter;
  without sharding nothing on the meta device is ever reset.
* `reduce_scatter_gradients` fails on frozen groups (`buffer.py:3404`).
* `fully_shard_optimizer` creates optimizer state by a real step without
  gradients (`fully_shard.py:499`): weight decay is applied once, and Adam's
  bias correction counts it.
* With tensor parallelism a parameter's placements are `Shard(0)` while its local
  tensor is flat; `uneven_dtensor_to_full_tensor` refuses ragged shards.

In veScale:

* Redistribution between two ragged placements ignores a change in another mesh
  dimension (`_redistribute.py:82`); `distribute_tensor` applies a ragged
  placement before a later `Shard`, against the comment in `_utils.py`; an
  in-place operator on a partial tensor changes its placements and not its data
  (`_dispatch.py:433`). These are the three `Ways` of RaggedTensor.
* `compute_global_tensor_info` divides by a rank's units, which may be zero; a
  norm of order minus infinity is zero if a rank is empty; units that do not
  divide the elements are not rejected in redistribution.

## 9. Not modelled, and why

Pool registration (`nccl_allocator.py`) is calls to native code; scripts, tests
and benchmarks are not the program; `megatron_fsdp.py` is a copy of the module
hooks that nothing imports. FP8 quantisation, transposes and scales are the numerics of
another library. Of the modelled components, these are left out: FP8 transpose caches,
delayed weight gradients, gradients fused into `main_grad`, custom communication
dtypes and their buffers, hooks called by hand for pipeline schedules, the
coalescing switch, tensor parallelism, strided shards, and most operator rules of
veScale, which are tables of placements rather than state. In
ParamAndGradBuffer main weights have no buffer of their own (DataParallelBuffer
has the copy), a row of one element stands for a vector, and blocks are single
elements. `GradReducePipeline.bucket_status` is written and never read, and is
omitted.

## 10. What could follow

1. `ShardsDescribed`, of which `WeightsKnown` already has the cells that a chunk
   names; what is missing is that the chunks of all ranks make up a tensor.
2. The planner's other orders, and `SmallestShard` for tensors of one block size.
3. FP8 weights with their transposes, as control.
