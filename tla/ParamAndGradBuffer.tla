------------------------- MODULE ParamAndGradBuffer -------------------------
(***************************************************************************)
(* The buffers of a model (ParamAndGradBuffer): built group by group, and  *)
(* used through optimization cycles of several microbatches, on every rank *)
(* of a mesh that may be hybrid (sharded inside, replicated or sharded     *)
(* once more outside).                                                     *)
(*                                                                         *)
(* The ranks run the same program on the same groups, so they move         *)
(* together: an action is a step of all of them.  Every parameter group    *)
(* has a weight and a gradient buffer of the inner (FSDP) group; with the  *)
(* optimizer state sharded over the outer group these are the helper       *)
(* buffers, and the model and main gradient buffers are views of a slice.  *)
(* What a group's buckets are gathered and released for is FsdpHooks'; how *)
(* a collective overlaps with the next one, the pipelines'.                *)
(*                                                                         *)
(* A cell of weights is known by the element it is, whose it is, the       *)
(* initialisation it stems from and the optimizer steps taken.  A cell of  *)
(* gradients has, for every rank and microbatch, the amount of that rank's *)
(* gradient in it.                                                         *)
(***************************************************************************)
EXTENDS ParameterGroups, UnevenDTensor

CONSTANTS
  Jobs,       \* the models, meshes and ways of training that are considered
  MaxSteps    \* bound on optimizer steps

Strategies == {"no_shard", "optim", "optim_grads", "optim_grads_params"}
DTypes == {"fp32", "bf16", "float8"}
None == "none"

\* A job is a model and a mesh as in the modules above, and
\*   strategy, outer_strategy   over the inner and the outer group
\*   main_grads   the dtype of main gradients, or None for the parameters'
\*   meta         the parameters are created on the meta device
\*   per_token, average   calculate_per_token_loss, average_in_collective
\*   inplace      grove_fsdp_inplace_reduce_scatter
\*   auto_sync    model_auto_sync; without it the last microbatch is marked
\*   force        whether cycles may begin with start_param_sync(force_sync=True)
\*   uses         for every microbatch of a cycle, the sets of parameters it may use
ASSUME JobsAssumption ==
  /\ \A j \in Jobs :
       /\ j.strategy \in Strategies /\ j.outer_strategy \in {"no_shard", "optim"}
       /\ j.main_grads \in {None} \cup DTypes
       /\ {j.mesh.outer, j.mesh.shard, j.mesh.ep} \subseteq Nat \ {0} /\ j.mesh.shard % j.mesh.ep = 0
       /\ ~j.mesh.hybrid => j.mesh.outer = 1 /\ j.outer_strategy = "no_shard"
       /\ Len(j.uses) \in Nat \ {0}
  /\ MaxSteps \in Nat

\* the parameters of a model are a sequence of matrices of numbers; there are some
ASSUME ModelsAssumption ==
  \A j \in Jobs :
    /\ Len(j.model.params) \in Nat \ {0} /\ DOMAIN j.model.params = 1 .. Len(j.model.params)
    /\ \A n \in DOMAIN j.model.params :
         LET p == j.model.params[n]
         IN /\ p.rows \in Nat /\ p.row \in Nat \ {0} /\ p.dtype \in DTypes
            /\ {p.expert, p.requires_grad, p.shared_embedding} \subseteq BOOLEAN

VARIABLES
  job,
  pc,           \* what the program does next
  at,           \* the group it does it to
  raised,       \* the exception that ended the program, or None
  groups,       \* the parameter groups and the layout of their buckets
  buffer_size,  \* dtype -> elements asked for in the main gradient buffer
  offset,       \* dtype -> elements handed out
  slices,       \* group -> [dtype, start, size] of its part of that buffer
  value,        \* parameter -> its initialisation, or Meta
  weights,      \* rank -> group -> cells of the inner weight buffer
  gathered,     \* rank -> group -> its bucket of gathered weights, or <<>>
  grads,        \* rank -> group -> cells of the inner gradient buffer
  chunks,       \* group -> item -> rank -> the chunk that its shard is saved as
  states,       \* rank -> the parameters of which the optimizer has a state there
  saved,        \* parameter -> rank -> the chunks that its state is saved as, or <<>>
  steps,        \* optimizer steps taken
  microbatch,   \* microbatch_count
  used          \* what each microbatch since the last step has used

built == <<groups, buffer_size, offset, slices, value, chunks, states, saved>>
trained == <<steps, microbatch, used>>
vars == <<job, pc, at, raised, built, weights, gathered, grads, trained>>

Rank == Ranks(job.mesh)
Param == DOMAIN job.model.params
Group == DOMAIN groups
Hfsdp == job.mesh.hybrid /\ job.outer_strategy # "no_shard"
Meta == -1

FsdpGroup(r, g)  == GetFsdpGroup(job.mesh, r, g.attrs.expert)
OuterGroup(r, g) == GetOuterFsdpGroup(job.mesh, r, g.attrs.expert)
DpGroup(r, g)    == GetDpGroup(job.mesh, r, g.attrs.expert)
\* the group over which the main buffers are laid out, and a rank's place in it
MainGroup(r, g)  == IF Hfsdp THEN DpGroup(r, g) ELSE FsdpGroup(r, g)
MainRank(r, g)   == IF Hfsdp THEN GetLogicalHybridFsdpRank(job.mesh, r, g.attrs.expert)
                    ELSE GroupRank(FsdpGroup(r, g), r)

At(step) == raised = None /\ pc = step

\* on to the next group, or to the next step after the last
Advance(next) ==
  IF at < Len(groups) THEN at' = at + 1 /\ UNCHANGED pc ELSE at' = 1 /\ pc' = next

----------------------------------------------------------------------------
(* The buffers of a group *)

PlanOf(g) ==
  PlanDBufferLayout([i \in DOMAIN g.params |->
                       LET p == job.model.params[g.params[i]] IN [shape |-> <<p.rows, p.row>>, block |-> 1]],
                    Len(MainGroup(0, g)), 1, "default", job.strategy # "no_shard")

BucketSize(g) == Len(MainGroup(0, g)) * g.plan.shard_size

HasWeights == job.strategy # "no_shard"
HasGrads(g) == g.attrs.requires_grad

\* what the strategy distributes, over a group of more than one rank
WeightsDistributed(g) ==
  /\ Len(FsdpGroup(0, g)) > 1
  /\ job.strategy = "optim_grads_params"
GradsDistributed(g, group) ==
  /\ Len(group) > 1
  /\ job.strategy \in {"optim_grads", "optim_grads_params"}

InnerSize(g, distributed) ==
  IF distributed THEN BucketSize(g) \div Len(FsdpGroup(0, g)) ELSE BucketSize(g)
WeightSize(g) == InnerSize(g, WeightsDistributed(g))
GradSize(g)   == InnerSize(g, GradsDistributed(g, FsdpGroup(0, g)))
MainGradSize(g) ==
  IF GradsDistributed(g, MainGroup(0, g)) THEN g.plan.shard_size ELSE BucketSize(g)

MainGradDType(g) ==
  IF job.main_grads # None THEN job.main_grads
  ELSE IF g.attrs.dtype = "float8" THEN "bf16" ELSE g.attrs.dtype

\* where in the bucket the inner buffer of a rank begins
InnerStart(r, g, size) ==
  IF size = BucketSize(g) THEN 0 ELSE GroupRank(FsdpGroup(r, g), r) * size

\* the part of the bucket that a rank's optimizer works on
ShardStart(r, g) == IF HasWeights THEN MainRank(r, g) * g.plan.shard_size ELSE 0
ShardSize(g) == IF HasWeights THEN g.plan.shard_size ELSE BucketSize(g)

\* and where it lies in an inner buffer: the view of a helper buffer is the
\* slice of the rank's place in the outer group
ViewStart(r, g, size) ==
  IF Hfsdp THEN GroupRank(OuterGroup(r, g), r) * g.plan.shard_size
  ELSE ShardStart(r, g) - InnerStart(r, g, size)

Part(cells, start, size) == SubSeq(cells, start + 1, start + size)
Paste(cells, start, part) ==
  [k \in DOMAIN cells |-> IF k > start /\ k <= start + Len(part) THEN part[k - start] ELSE cells[k]]

----------------------------------------------------------------------------
(* Construction *)

Init ==
  /\ job \in Jobs
  /\ pc = "group" /\ at = 1 /\ raised = None
  /\ groups = <<>> /\ slices = <<>>
  /\ buffer_size = [d \in DTypes |-> 0] /\ offset = [d \in DTypes |-> 0]
  /\ value = [n \in Param |-> IF job.meta THEN Meta ELSE 0]
  /\ weights = [r \in Rank |-> <<>>] /\ gathered = [r \in Rank |-> <<>>]
  /\ grads = [r \in Rank |-> <<>>]
  /\ chunks = <<>> /\ states = <<>> /\ saved = <<>>
  /\ steps = 0 /\ microbatch = 0 /\ used = <<>>

\* sharding over the outer group needs full sharding inside
GroupParameters ==
  /\ At("group")
  /\ IF Hfsdp /\ job.strategy # "optim_grads_params"
     THEN raised' = "NotImplementedError" /\ UNCHANGED <<pc, groups>>
     ELSE /\ groups' = GetParameterGroups(job.model, job.strategy)
          /\ pc' = "create" /\ UNCHANGED raised
  /\ UNCHANGED <<job, at, buffer_size, offset, slices, value, chunks, states, saved, weights, gathered, grads, trained>>

\* the view is counted, and not the helper it is a view of
Asked_Mutant(g) == IF HasGrads(g) THEN MainGradSize(g) ELSE 0

\* What a group adds to the buffer for main gradients: its gradient buffer or,
\* in its place, the helper.
Asked(g) == IF ~HasGrads(g) THEN 0 ELSE IF Hfsdp THEN GradSize(g) ELSE MainGradSize(g)

\* a parameter group with the layout of its bucket
Planned(g) ==
  [params |-> g.params, attrs |-> g.attrs, chunk_size_factor |-> g.chunk_size_factor, plan |-> PlanOf(g)]

CreateBuffers ==
  /\ At("create")
  /\ LET g == Planned(groups[at])
     IN /\ groups' = [groups EXCEPT ![at] = g]
        /\ buffer_size' = [buffer_size EXCEPT ![MainGradDType(g)] = @ + Asked(g)]
  /\ Advance("init")
  /\ UNCHANGED <<job, raised, offset, slices, value, chunks, states, saved, weights, gathered, grads, trained>>

NoElement == [param |-> 0, pos |-> 0]

\* the element at a place of the bucket, or padding
ElementAt(g, k) ==
  LET start(i) == g.plan.start[i]
      here == {i \in DOMAIN g.params :
                 start(i) < k /\ k <= start(i) + NumelOf(job.model.params[g.params[i]])}
  IN IF here = {} THEN NoElement
     ELSE LET i == CHOOSE i \in here : TRUE IN [param |-> g.params[i], pos |-> k - start(i)]

\* a rank holds the experts of its own coordinate
Owner(r, g) == IF g.attrs.expert THEN EpRank(job.mesh, r) ELSE 0

Weight(r, g, k, init, step) ==
  [at |-> ElementAt(g, k), owner |-> Owner(r, g), init |-> init, step |-> step]
Unwritten == [at |-> NoElement, owner |-> -1, init |-> Meta, step |-> 0]

\* A parameter on the meta device is reset with its module, which resets all
\* its direct parameters, those of other groups too.
Reset(g, n) ==
  \E q \in Range(g.params) :
    value[q] = Meta /\ job.model.module[q] = job.model.module[n]

\* The weights of a group are copied into its buffers item by item, of a helper
\* buffer only the view.
InitWeights ==
  /\ At("init")
  /\ LET g == groups[at]
         InitOf(k) == LET n == ElementAt(g, k).param IN IF n = 0 THEN 0 ELSE value'[n]
         Cell(r, k) == Weight(r, g, k, InitOf(k), 0)
         Cells(r) ==
           LET shard == [k \in 1 .. ShardSize(g) |-> Cell(r, ShardStart(r, g) + k)]
               start == InnerStart(r, g, WeightSize(g))
           IN IF Hfsdp
              THEN Paste([k \in 1 .. WeightSize(g) |-> Unwritten], ViewStart(r, g, WeightSize(g)), shard)
              ELSE [k \in 1 .. WeightSize(g) |-> Cell(r, start + k)]
     IN /\ value' = [n \in Param |-> IF HasWeights /\ value[n] = Meta /\ Reset(g, n) THEN 1 ELSE value[n]]
        /\ weights' = [r \in Rank |-> Append(weights[r], IF HasWeights THEN Cells(r) ELSE <<>>)]
        /\ gathered' = [r \in Rank |-> Append(gathered[r], <<>>)]
  /\ Advance("alloc")
  /\ UNCHANGED <<job, raised, groups, buffer_size, offset, slices, chunks, states, saved, grads, trained>>

Amounts == Rank \X (1 .. Len(job.uses))
NoGradient(g, size) == [k \in 1 .. size |-> [c \in Amounts |-> 0]]

\* init_data asserts that the slice it is given has the buffer's size
AllocGrads ==
  /\ At("alloc")
  /\ LET g == groups[at]
         d == MainGradDType(g)
         size == Smaller(GradSize(g), buffer_size[d] - offset[d])
     IN IF ~HasGrads(g)
        THEN /\ slices' = Append(slices, [dtype |-> d, start |-> 0, size |-> 0])
             /\ grads' = [r \in Rank |-> Append(grads[r], <<>>)]
             /\ Advance("register") /\ UNCHANGED <<raised, offset>>
        ELSE IF size # GradSize(g)
        THEN raised' = "AssertionError" /\ UNCHANGED <<pc, at, offset, slices, grads>>
        ELSE /\ slices' = Append(slices, [dtype |-> d, start |-> offset[d], size |-> size])
             /\ offset' = [offset EXCEPT ![d] = @ + size]
             /\ grads' = [r \in Rank |-> Append(grads[r], NoGradient(g, size))]
             /\ Advance("register") /\ UNCHANGED raised
  /\ UNCHANGED <<job, groups, buffer_size, value, chunks, states, saved, weights, gathered, trained>>

\* What the optimizer and checkpoints see of a parameter: of a buffer the item's
\* part of every rank's shard, without one the parameter as it is.
LocalItem(r, n, i) ==
  LET g == groups[n]
      size == NumelOf(job.model.params[g.params[i]])
      view == ViewStart(r, g, WeightSize(g)) - ShardStart(r, g)
      start == Larger(g.plan.start[i], ShardStart(r, g))
      end == Smaller(g.plan.start[i] + size, ShardStart(r, g) + ShardSize(g))
  IN IF ~HasWeights THEN [k \in 1 .. size |-> Weight(r, g, g.plan.start[i] + k, value[g.params[i]], 0)]
     ELSE IF start >= end THEN <<>> ELSE Part(weights[r][n], view + start, end - start)

DistParam(n, i) ==
  LET g == groups[n]
      p == job.model.params[g.params[i]]
  IN MakeFsdpDTensor(p, job.mesh, Hfsdp, HasWeights,
       [q \in DOMAIN MainGroup(0, g) |-> LocalSize(g.plan.start[i], NumelOf(p), g.plan.shard_size, q - 1)],
       [r \in Rank |-> IF job.mesh.hybrid THEN <<OuterGroup(r, g), FsdpGroup(r, g)>> ELSE <<FsdpGroup(r, g)>>],
       [r \in Rank |-> LocalItem(r, n, i)])

InitDistributedParams ==
  /\ At("register")
  /\ LET Item == DOMAIN groups[at].params
     IN IF \E i \in Item : ~ValidateUnevenDTensor(DistParam(at, i))
        THEN raised' = "invalid chunk" /\ UNCHANGED <<pc, at, chunks>>
        ELSE /\ chunks' = Append(chunks, [i \in Item |-> GatherAndComputeChunkMetadata(DistParam(at, i))])
             /\ Advance("wrap") /\ UNCHANGED raised
  /\ UNCHANGED <<job, groups, buffer_size, offset, slices, value, states, saved, weights, gathered, grads, trained>>

----------------------------------------------------------------------------
(* The optimizer and its state *)

GroupOf(n) == ParamToParamGroup(groups, n)
ItemOf(n) == CHOOSE i \in DOMAIN groups[GroupOf(n)].params : groups[GroupOf(n)].params[i] = n
ShardOf(n) == DistParam(GroupOf(n), ItemOf(n))
IsExpert(n) == job.model.params[n].expert

\* fully_shard_optimizer takes a first step without gradients, which creates the
\* state of what is not empty.
FullyShardOptimizer ==
  /\ At("wrap")
  /\ states' = [r \in Rank |-> SelectSeq([n \in Param |-> n], LAMBDA n : ShardOf(n).local[r] # <<>>)]
  /\ pc' = "cycle"
  /\ UNCHANGED <<job, at, raised, groups, buffer_size, offset, slices, value, chunks, saved, weights,
                 gathered, grads, trained>>

\* the entries of a state that are tensors: of Adam, both moments
Moments == <<1, 2>>

\* The state dict of a rank with a mock of what is empty there.  The keys of a mock
\* come from a set, in any order.
Extended(r, order) ==
  LET missing == SelectSeq([n \in Param |-> n], LAMBDA n : n \notin Range(states[r]))
      Entries(params, keys) ==
        FlattenSeq([j \in DOMAIN params |-> [m \in DOMAIN keys |-> <<params[j], keys[m]>>]])
      known == \E q \in Rank : states[q] # <<>>
  IN Entries(states[r], Moments) \o (IF known THEN Entries(missing, order) ELSE <<>>)

\* in the order in which they are listed
Visited_Mutant(r, order) == Extended(r, order)

Visited(r, order) ==
  SortSeq(Extended(r, order), LAMBDA a, b : a[1] < b[1] \/ (a[1] = b[1] /\ a[2] < b[2]))

\* The ranks of a mesh gather the sizes of their shards one entry after the other,
\* and take it for granted that they are at the same one.
StateDict ==
  /\ At("cycle")
  /\ \E order \in [Rank -> {<<1, 2>>, <<2, 1>>}] :
       LET Entries(r, expert) == SelectSeq(Visited(r, order[r]), LAMBDA e : IsExpert(e[1]) = expert)
           entries == [r \in Rank |-> [expert \in BOOLEAN |-> Entries(r, expert)]]
           Places(r, n) == {k \in DOMAIN entries[r][IsExpert(n)] : entries[r][IsExpert(n)][k][1] = n}
           Seen(n, k) ==
             [ShardOf(n) EXCEPT !.local = [q \in Rank |-> ShardOf(entries[q][IsExpert(n)][k][1]).local[q]]]
       IN IF \E r, q \in Rank, expert \in BOOLEAN : Len(entries[r][expert]) # Len(entries[q][expert])
          THEN raised' = "hangs" /\ UNCHANGED saved
          ELSE /\ saved' = [n \in Param |-> [r \in Rank |->
                            {GatherAndComputeChunkMetadata(Seen(n, k))[r] : k \in Places(r, n)}]]
               /\ UNCHANGED raised
  /\ UNCHANGED <<job, pc, at, groups, buffer_size, offset, slices, value, chunks, states, weights,
                 gathered, grads, trained>>

----------------------------------------------------------------------------
(* Weights *)

Released == [r \in Rank |-> [n \in Group |-> <<>>]]

\* the inner buffers of a group end to end; an unsharded one is its own bucket
AllGather(n) ==
  [r \in Rank |->
     LET group == FsdpGroup(r, groups[n])
     IN IF WeightsDistributed(groups[n])
        THEN FlattenSeq([i \in DOMAIN group |-> weights'[group[i]][n]]) ELSE weights'[r][n]]

\* the slices of the outer group, each from the rank whose view it is
OuterAllGather(r, n) ==
  LET group == OuterGroup(r, groups[n])
      size == Len(weights[r][n]) \div Len(group)
  IN FlattenSeq([i \in DOMAIN group |-> Part(weights[group[i]][n], (i - 1) * size, size)])

\* buckets that are not resident are gathered, over the outer group first
Gather(needed, outer) ==
  /\ weights' = [r \in Rank |-> [n \in Group |->
                   IF n \in needed /\ outer THEN OuterAllGather(r, n) ELSE weights[r][n]]]
  /\ gathered' = [r \in Rank |-> [n \in Group |->
                    IF n \in needed THEN AllGather(n)[r] ELSE gathered[r][n]]]

\* start_param_sync(force_sync=True) resets the pipeline and gathers everything,
\* within the inner groups
BeginCycle ==
  /\ At("cycle") /\ steps < MaxSteps
  /\ \/ UNCHANGED <<weights, gathered>>
     \/ /\ job.force /\ HasWeights
        /\ weights' = weights
        /\ gathered' = [r \in Rank |-> [n \in Group |-> AllGather(n)[r]]]
  /\ pc' = "forward"
  /\ UNCHANGED <<job, at, raised, built, grads, trained>>

\* a unit is gathered as a whole
Needed(use) ==
  {n \in Group : /\ gathered[0][n] = <<>>
                 /\ \/ Range(groups[n].params) \cap use # {}
                    \/ /\ groups[n].attrs.fsdp_unit_id # NoUnit
                       /\ job.model.units[groups[n].attrs.fsdp_unit_id] \cap use # {}}

\* the outer shards are gathered on every use of a new cycle's first microbatch
GathersOuter == Hfsdp /\ (microbatch = 0 \/ job.auto_sync)

Forward ==
  /\ At("forward")
  /\ \E use \in job.uses[Len(used) + 1] :
       /\ used' = Append(used, use)
       /\ IF HasWeights THEN Gather(Needed(use), GathersOuter) ELSE UNCHANGED <<weights, gathered>>
  /\ pc' = "backward"
  /\ UNCHANGED <<job, at, raised, built, grads, steps, microbatch>>

----------------------------------------------------------------------------
(* Gradients *)

DataParallelSize == Len(GetDpGroup(job.mesh, 0, FALSE))
\* a gradient, so large that every average is a whole number
Unit == DataParallelSize * DataParallelSize

\* the gradient a rank adds to a group's bucket in this microbatch: parameters
\* that were not used have none
Contribution(r, g) ==
  [k \in 1 .. BucketSize(g) |->
     [c \in Amounts |->
        IF c = <<r, Len(used)>> /\ ElementAt(g, k).param \in used[Len(used)] THEN Unit ELSE 0]]

Plus(cells, more) == [k \in DOMAIN cells |-> [c \in Amounts |-> cells[k][c] + more[k][c]]]
Over(cells, n) == [k \in DOMAIN cells |-> [c \in Amounts |-> cells[k][c] \div n]]

\* the scaling factor of a helper buffer is None
ScalingFactor == IF job.per_token \/ Hfsdp THEN None ELSE "1 / N"

GradientReducePreprocessing(cells) ==
  IF ScalingFactor = None \/ job.average THEN cells ELSE Over(cells, DataParallelSize)

SumOver(cells, group, average) ==
  LET total == [k \in DOMAIN cells[group[1]] |->
                  [c \in Amounts |-> MapThenSumSet(LAMBDA q : cells[q][k][c], Range(group))]]
  IN IF average THEN Over(total, Len(group)) ELSE total

\* Reduction over the inner group: a distributed buffer adds (or, in place,
\* takes) its part, an unsharded one keeps the sum of its virtual shard or,
\* without sharding at all, of everything.
ReduceInner(n) ==
  LET g == groups[n]
      size == GradSize(g)
      unreduced == [r \in Rank |->
                      GradientReducePreprocessing(
                        IF size < BucketSize(g) THEN Contribution(r, g)
                        ELSE Plus(grads[r][n], Contribution(r, g)))]
  IN [r \in Rank |->
        LET sum == SumOver(unreduced, FsdpGroup(r, g), job.average /\ ScalingFactor # None)
            shard == BucketSize(g) \div Len(FsdpGroup(r, g))
            start == GroupRank(FsdpGroup(r, g), r) * shard
        IN IF ~HasWeights THEN sum
           ELSE IF size = BucketSize(g) THEN Paste(unreduced[r], start, Part(sum, start, shard))
           ELSE IF job.inplace THEN Part(sum, start, size)
           ELSE Plus(grads[r][n], Part(sum, start, size))]

IsLastMicrobatch == ~job.auto_sync /\ Len(used) = Len(job.uses)
Reduces == IsLastMicrobatch \/ job.auto_sync \/ job.strategy \in {"optim_grads", "optim_grads_params"}
ReducesOuter == job.mesh.hybrid /\ (IsLastMicrobatch \/ job.auto_sync)

Backward ==
  /\ At("backward")
  /\ grads' = [r \in Rank |-> [n \in Group |->
                 IF ~HasGrads(groups[n]) THEN <<>>
                 ELSE IF Reduces THEN ReduceInner(n)[r]
                 ELSE Plus(grads[r][n], Contribution(r, groups[n]))]]
  /\ pc' = IF ReducesOuter THEN "reduce_outer" ELSE "root_post_backward"
  /\ UNCHANGED <<job, at, raised, built, weights, gathered, trained>>

\* the sum arrives at the beginning of a helper
ReduceOuter_Mutant(r, n) ==
  LET group == GetOuterFsdpGroup(job.mesh, r, FALSE)
      sum == SumOver([q \in Rank |-> grads[q][n]], group, job.average)
      size == groups[n].plan.shard_size
  IN IF Hfsdp THEN Paste(grads[r][n], 0, Part(sum, GroupRank(group, r) * size, size)) ELSE sum

\* The outer group of the dense parameters serves for experts too.  Sharded, a
\* rank's view receives the sum of its slice; else all of the inner buffer is
\* summed.
ReduceOuter(r, n) ==
  LET group == GetOuterFsdpGroup(job.mesh, r, FALSE)
      sum == SumOver([q \in Rank |-> grads[q][n]], group, job.average)
      size == groups[n].plan.shard_size
      start == GroupRank(group, r) * size
  IN IF Hfsdp THEN Paste(grads[r][n], start, Part(sum, start, size)) ELSE sum

OuterReduction ==
  /\ At("reduce_outer")
  /\ grads' = [r \in Rank |-> [n \in Group |->
                 IF HasGrads(groups[n]) THEN ReduceOuter(r, n) ELSE <<>>]]
  /\ pc' = "root_post_backward"
  /\ UNCHANGED <<job, at, raised, built, weights, gathered, trained>>

\* Units are released by now.  finish_grad_sync, which auto-synchronisation
\* calls here and the optimizer's step after the last microbatch, also resets
\* the pipeline and begins a new cycle.
RootPostBackward ==
  /\ At("root_post_backward")
  /\ IF IsLastMicrobatch \/ job.auto_sync
     THEN gathered' = Released /\ microbatch' = 0
     ELSE /\ gathered' = [r \in Rank |-> [n \in Group |->
                            IF groups[n].attrs.fsdp_unit_id = NoUnit THEN gathered[r][n] ELSE <<>>]]
          /\ microbatch' = microbatch + 1
  /\ pc' = IF Len(used) = Len(job.uses) THEN "step" ELSE "forward"
  /\ UNCHANGED <<job, at, raised, built, weights, grads, steps, used>>

\* The optimizer's step, with the copy of main weights to model weights, and
\* zero_grad: every rank moves on the part that is its own.
OptimizerStep ==
  /\ At("step")
  /\ weights' = [r \in Rank |-> [n \in Group |->
                   LET g == groups[n]
                       start == ViewStart(r, g, WeightSize(g))
                       moved == [k \in DOMAIN weights[r][n] |->
                                   [weights[r][n][k] EXCEPT !.step = @ + 1]]
                   IN IF HasWeights /\ HasGrads(g)
                      THEN Paste(weights[r][n], start, Part(moved, start, ShardSize(g)))
                      ELSE weights[r][n]]]
  /\ grads' = [r \in Rank |-> [n \in Group |-> NoGradient(groups[n], Len(grads[r][n]))]]
  /\ steps' = steps + 1 /\ used' = <<>>
  /\ pc' = "cycle"
  /\ UNCHANGED <<job, at, raised, built, gathered, microbatch>>

Next ==
  \/ GroupParameters \/ CreateBuffers \/ InitWeights \/ AllocGrads \/ InitDistributedParams
  \/ FullyShardOptimizer \/ StateDict
  \/ BeginCycle \/ Forward \/ Backward \/ OuterReduction \/ RootPostBackward \/ OptimizerStep

Spec == Init /\ [][Next]_vars

----------------------------------------------------------------------------
(* Properties *)

\* _get_parameter_groups: every parameter is in one bucket, with parameters of
\* the same dtype, unit, expertness and requires_grad only; a shared embedding is
\* alone in a bucket that is sharded; the collectives of two buckets are issued
\* together for both or for neither; and every row divides the chunk factor or
\* is of a tensor shorter than it.
GroupsSound ==
  pc = "create" /\ at = 1 =>
    /\ \A n \in Param : Cardinality({i \in Group : n \in Range(groups[i].params)}) = 1
    /\ \A i \in Group : IsInjective(groups[i].params)
    /\ \A i \in Group, n, k \in Param :
         n \in Range(groups[i].params) /\ k \in Range(groups[i].params) =>
           /\ ParamAttrs(job.model, n) = groups[i].attrs
           /\ job.model.params[n].requires_grad = job.model.params[k].requires_grad
           /\ FsdpUnitId(job.model, n) = FsdpUnitId(job.model, k)
           /\ job.model.params[n].shared_embedding /\ HasWeights => n = k
           /\ \/ groups[i].chunk_size_factor % job.model.params[n].row = 0
              \/ NumelOf(job.model.params[n]) < groups[i].chunk_size_factor
    /\ \A i, j \in Group :
         j \in BucketToBucketGroup(groups, i)
           => BucketToBucketGroup(groups, j) = BucketToBucketGroup(groups, i)

\* The main gradients of all groups lie side by side in the buffer of their
\* dtype: disjoint, inside it, and nothing is left over, whether a group's
\* buffer is a view of a helper or not.
GradSlices ==
  /\ raised # "AssertionError"
  /\ pc \in {"cycle", "forward", "backward"} =>
       /\ offset = buffer_size
       /\ \A i, j \in Group :
            i < j /\ slices[i].dtype = slices[j].dtype /\ slices[j].size > 0
              => slices[i].start + slices[i].size <= slices[j].start
       /\ \A i \in Group : slices[i].start + slices[i].size <= buffer_size[slices[i].dtype]

\* all_gather_and_wait_parameters_ready: when a module computes, its gathered
\* buckets hold on every rank every element, in its place, of the rank's own
\* experts, initialised, and as of the last optimizer step.  Stated for sharded
\* weights: unsharded ones are not gathered at all.
WeightsCurrent ==
  pc = "backward" /\ job.strategy = "optim_grads_params" =>
    \A r \in Rank, n \in Group :
      /\ Range(groups[n].params) \cap used[Len(used)] # {} => gathered[r][n] # <<>>
      /\ gathered[r][n] # <<>> =>
           \A k \in 1 .. BucketSize(groups[n]) :
             LET e == ElementAt(groups[n], k)
             IN e # NoElement =>
                  gathered[r][n][k] =
                    Weight(r, groups[n], k, IF job.meta THEN 1 ELSE 0,
                           IF HasGrads(groups[n]) THEN steps ELSE 0)

\* update_uneven_dtensor_chunk_metadata: between cycles the chunks that the ranks
\* would save, as they were described at construction, are pieces of the weights
\* of the last step, each element at its own place, and every element is in the
\* chunk of just one of the ranks that shard it.  The optimizer's state is described
\* as its parameters are, though each rank has a state of other parameters (the
\* state-dict hook of fully_shard.py).  What split_dtensor cuts off is described as
\* well, and without ragged shards every rank gathers the tensor.
ShardsDescribed ==
  /\ raised \notin {"invalid chunk", "hangs"}
  /\ saved # <<>> => \A n \in Param, r \in Rank : saved[n][r] = {chunks[GroupOf(n)][ItemOf(n)][r]}
  /\ pc = "cycle" /\ HasWeights =>
       \A n \in Group : \A i \in DOMAIN groups[n].params :
         LET g == groups[n]
             d == DistParam(n, i)
             chunk == chunks[n][i]
             Whole(r) == [k \in 1 .. d.rows * d.row |->
                            Weight(r, g, g.plan.start[i] + k, IF job.meta THEN 1 ELSE 0,
                                   IF HasGrads(g) THEN steps ELSE 0)]
             Sound(e, c, start) ==
               /\ \A r \in Rank : e.local[r] = Part(Whole(r), start + c[r].offset, c[r].size)
               /\ \A r \in Rank, k \in 1 .. e.rows * e.row :
                    Cardinality({q \in Range(MainGroup(r, g)) :
                      \E w \in WriteItems(e, c, q) : w.offset < k /\ k <= w.offset + w.size}) = 1
         IN /\ Sound(d, chunk, 0)
            /\ ~IsRagged(d) =>
                 /\ \A r \in Rank : UnevenDTensorToFullTensor(d, chunk, r, Unwritten) = Whole(r)
                 /\ \A size \in 1 .. d.rows : \A point \in SplitPoints(d.rows, size) :
                      LET e == SplitDTensor(d, chunk, size, point)
                      IN Sound(e, GatherAndComputeChunkMetadata(e), point)

\* At the step, the gradient of every element of a rank's part holds that of
\* each rank with the parameter and each microbatch that used it, once, and
\* all of them divided by the number of data-parallel ranks or, with a loss per
\* token, by none: through accumulation, inner and outer reduction.
GradientComplete ==
  pc = "step" =>
    \A r \in Rank, n \in {i \in Group : HasGrads(groups[i])} :
      LET g == groups[n]
          view == ViewStart(r, g, GradSize(g))
          share == IF job.per_token THEN Unit ELSE Unit \div DataParallelSize
      IN \A k \in 1 .. ShardSize(g) :
           LET e == ElementAt(g, ShardStart(r, g) + k)
           IN e # NoElement =>
                \A q \in Rank, b \in DOMAIN used :
                  grads[r][n][view + k][<<q, b>>] =
                    IF q \in Range(DpGroup(r, g)) /\ e.param \in used[b] THEN share ELSE 0
----------------------------------------------------------------------------
(* What theorems assume of the jobs *)

\* With the optimizer's state sharded over the outer group, weights of an earlier
\* step are left where they are not gathered anew: by a forced synchronisation, or
\* without auto_sync after a first microbatch that does not use them.
OuterRefreshed ==
  \A j \in Jobs :
    j.mesh.hybrid /\ j.outer_strategy # "no_shard" =>
      /\ ~j.force
      /\ j.auto_sync \/ \A use \in j.uses[1] : DOMAIN j.model.params \subseteq use

\* Gradients are added up and divided once.  Where they are not: helper buffers
\* have no scaling factor; the outer reduction averages a loss per token too; the
\* inner one averages experts over fewer ranks than the dense parameters; and with
\* several microbatches, an outer or a virtual shard is reduced again by
\* auto-synchronisation, a shard overwritten in place, and a shard of an inner group
\* of one rank divided again.
ScaledOnce ==
  \A j \in Jobs :
    LET each == j.strategy \in {"optim_grads", "optim_grads_params"}
    IN /\ j.mesh.hybrid /\ j.outer_strategy # "no_shard" => j.per_token
       /\ j.mesh.hybrid /\ j.average => ~j.per_token
       /\ j.average /\ ~j.per_token =>
            j.mesh.ep = 1 \/ \A n \in DOMAIN j.model.params : ~j.model.params[n].expert
       /\ \/ Len(j.uses) = 1
          \/ /\ j.auto_sync => each /\ ~j.mesh.hybrid
             /\ each => /\ ~j.inplace
                        /\ \/ j.mesh.shard > j.mesh.ep \/ j.per_token \/ j.average
                           \/ j.mesh.outer * j.mesh.shard = 1
=============================================================================
