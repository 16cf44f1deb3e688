------------------------- MODULE DataParallelBuffer -------------------------
(***************************************************************************)
(* The persistent buffers of one parameter group on every rank of its      *)
(* data-parallel group (DataParallelBuffer and DistributedBuffer), through *)
(* one training step: the weights are laid out and stored, gathered,       *)
(* given gradients that are reduced over the ranks, updated, copied back,  *)
(* and gathered again.                                                     *)
(*                                                                         *)
(* A buffer is a sequence of cells.  A cell is known by where its value    *)
(* comes from: the element of the tensor, and the ranks whose gradients    *)
(* have gone into it.  The ranks run the same program, each at its own     *)
(* pace; a collective happens once every rank has reached it.              *)
(***************************************************************************)
EXTENDS DBufferLayout

CONSTANTS Jobs   \* the parameter groups and configurations that are considered

Strategies == {"no_shard", "optim", "optim_grads", "optim_grads_params"}

\* A parameter group, the number of ranks, the sharding strategy, whether
\* there is a main weight buffer, and the planner's options (the buffers ask for
\* the default order; the others are for direct callers of the planner).
Job == [elements : Seq([shape : Seq(Nat), block : Nat]), ranks : Nat \ {0},
        strategy : Strategies, main_weights : BOOLEAN, unit : Nat, order : TensorOrders]

ASSUME JobAssumption == Jobs \subseteq Job

VARIABLES
  job,      \* the parameter group at hand
  pc,       \* rank -> what it does next
  raised,   \* the exception that ended the program, or "none"
  plan,     \* rank -> its layout
  data,     \* rank -> buffer -> cells
  bucket,   \* rank -> the gathered bucket of a sharded model weight buffer
  param     \* rank -> item -> the weights of a module that has no weight buffer

vars == <<job, pc, raised, plan, data, bucket, param>>

Rank == 0 .. job.ranks - 1
Item == DOMAIN job.elements
Buffers == {"model", "main", "grad"}

HasBuffer(buf) ==
  CASE buf = "model" -> job.strategy # "no_shard"
    [] buf = "main"  -> job.main_weights
    [] buf = "grad"  -> TRUE

IsDataDistributed(buf) ==
  /\ job.ranks > 1
  /\ CASE buf = "model" -> job.strategy = "optim_grads_params"
       [] buf = "main"  -> job.strategy # "no_shard"
       [] buf = "grad"  -> job.strategy \in {"optim_grads", "optim_grads_params"}

ItemSize(i) == Size(job.elements[i])
BucketSize(r) == job.ranks * plan[r].shard_size
DataSize(r, buf) == IF IsDataDistributed(buf) THEN plan[r].shard_size ELSE BucketSize(r)

----------------------------------------------------------------------------
(* Cells and slices *)

Empty == [item |-> 0, pos |-> 0, from |-> {}]
Cell(i, k, from) == [item |-> i, pos |-> k, from |-> from]
Tensor(i, from) == [k \in 1 .. ItemSize(i) |-> Cell(i, k, from)]

\* torch clips a slice that runs past the end
Slice(s, start, end) == SubSeq(s, start + 1, Smaller(end, Len(s)))
Write(s, start, t) == [k \in DOMAIN s |-> IF k > start /\ k <= start + Len(t) THEN t[k - start] ELSE s[k]]

\* a part of every item written, item by item; where parts overlap the last stays
WriteEach(cells, start, part) ==
  [k \in DOMAIN cells |->
     LET here == {i \in Item : start[i] < k /\ k <= start[i] + Len(part[i])}
     IN IF here = {} THEN cells[k] ELSE part[Max(here)][k - start[Max(here)]]]

\* the end of the shard is overlooked
GetItemSliceInShard_Mutant(r, i) ==
  LET item_start  == plan[r].start[i]
      item_end    == item_start + ItemSize(i)
      shard_start == r * plan[r].shard_size
      shard_end   == shard_start + plan[r].shard_size
  IN IF item_start > shard_end \/ item_end < shard_start THEN <<0, 0>>
     ELSE <<Larger(item_start, shard_start) - item_start, item_end - item_start>>

\* the slice of an item that lies in the shard of a rank, relative to the item
GetItemSliceInShard(r, i) ==
  LET item_start  == plan[r].start[i]
      item_end    == item_start + ItemSize(i)
      shard_start == r * plan[r].shard_size
      shard_end   == shard_start + plan[r].shard_size
  IN IF item_start > shard_end \/ item_end < shard_start THEN <<0, 0>>
     ELSE <<Larger(item_start, shard_start) - item_start,
            Smaller(item_end, shard_end) - item_start>>

\* the position in the shard is taken for the position in the buffer
GetItemLocalShardIndex_Mutant(r, buf, i) ==
  LET slice  == GetItemSliceInShard(r, i)
      offset == plan[r].start[i] - r * plan[r].shard_size
  IN IF slice[1] = slice[2] THEN <<0, 0>> ELSE <<offset + slice[1], offset + slice[2]>>

\* where that slice lies in the buffer; an unsharded buffer holds the whole
\* bucket and its shard is virtual
GetItemLocalShardIndex(r, buf, i) ==
  LET slice  == GetItemSliceInShard(r, i)
      offset == plan[r].start[i] - r * plan[r].shard_size
                + IF IsDataDistributed(buf) THEN 0 ELSE r * plan[r].shard_size
  IN IF slice[1] = slice[2] THEN <<0, 0>> ELSE <<offset + slice[1], offset + slice[2]>>

GetItemLocalIndex(r, buf, i) ==
  IF IsDataDistributed(buf) THEN GetItemLocalShardIndex(r, buf, i)
  ELSE <<plan[r].start[i], plan[r].start[i] + ItemSize(i)>>

ItemIndex(r, buf, i, only_shard) ==
  IF only_shard THEN GetItemLocalShardIndex(r, buf, i) ELSE GetItemLocalIndex(r, buf, i)

GetItem(r, buf, i, only_shard) ==
  LET index == ItemIndex(r, buf, i, only_shard) IN Slice(data[r][buf], index[1], index[2])

GetItemFromBucket(r, cells, i) == Slice(cells, plan[r].start[i], plan[r].start[i] + ItemSize(i))
GetShardFromBucket(r, cells) == Slice(cells, r * plan[r].shard_size, (r + 1) * plan[r].shard_size)

\* the shard a rank contributes to a gather, or receives from a reduction
ShardStart(r, buf) == IF IsDataDistributed(buf) THEN 0 ELSE r * plan[r].shard_size
GetShardFromLocalBuffer(r, buf) ==
  Slice(data[r][buf], ShardStart(r, buf), ShardStart(r, buf) + plan[r].shard_size)

\* every rank stores the beginning of an item
SetItem_Mutant(r, buf, i, tensor) ==
  LET slice == GetItemSliceInShard(r, i)
  IN IF IsDataDistributed(buf) THEN Slice(tensor, 0, slice[2] - slice[1]) ELSE tensor

\* what is stored of an item: the part of it that belongs in the buffer
SetItem(r, buf, i, tensor) ==
  LET slice == GetItemSliceInShard(r, i)
  IN IF IsDataDistributed(buf) THEN Slice(tensor, slice[1], slice[2]) ELSE tensor

\* what the modules of a rank compute with
ParamData(r, i) ==
  IF ~HasBuffer("model") THEN param[r][i]
  ELSE GetItemFromBucket(r, IF IsDataDistributed("model") THEN bucket[r] ELSE data[r]["model"], i)

----------------------------------------------------------------------------
(* The program of a rank *)

Init ==
  /\ job \in Jobs
  /\ pc = [r \in Rank |-> "plan"]
  /\ raised = "none"
  /\ plan = [r \in Rank |-> [tensor_order |-> <<>>, start |-> <<>>, shard_size |-> 0]]
  /\ data = [r \in Rank |-> [buf \in Buffers |-> <<>>]]
  /\ bucket = [r \in Rank |-> <<>>]
  /\ param = [r \in Rank |-> [i \in Item |-> Tensor(i, {})]]

At(r, step) == raised = "none" /\ pc[r] = step
Goto(r, step) == pc' = [pc EXCEPT ![r] = step]
Raise(what) == raised' = what /\ UNCHANGED <<job, pc, plan, data, bucket, param>>

Plan(r) ==
  /\ At(r, "plan")
  /\ \/ ~ItemsAreValid(job.elements) /\ Raise("invalid")
     \/ /\ ItemsAreValid(job.elements)
        /\ \E new \in {PlanDBufferLayout(job.elements, job.ranks, job.unit, job.order,
                                         job.strategy # "no_shard")} :
             IF ~LocalUnitsAreWhole(job.elements, new, job.ranks) THEN Raise("blocks")
             ELSE /\ plan' = [plan EXCEPT ![r] = new]
                  /\ Goto(r, "init")
                  /\ UNCHANGED <<job, raised, data, bucket, param>>

\* Every item is stored in the weight buffers, and the parameters become views
\* of the bucket; a view that is cut short cannot take the parameter's shape.
InitBuffers(r) ==
  LET Blank(buf) == [k \in 1 .. DataSize(r, buf) |-> Empty]
      Filled(buf) == WriteEach(Blank(buf), [i \in Item |-> GetItemLocalIndex(r, buf, i)[1]],
                               [i \in Item |-> SetItem(r, buf, i, Tensor(i, {}))])
      whole == [k \in 1 .. BucketSize(r) |-> Empty]
  IN
  /\ At(r, "init")
  /\ IF \E i \in Item : Len(GetItemFromBucket(r, whole, i)) # ItemSize(i) THEN Raise("size")
     ELSE /\ data' = [data EXCEPT ![r] = [buf \in Buffers |->
                        IF ~HasBuffer(buf) THEN <<>> ELSE IF buf = "grad" THEN Blank(buf) ELSE Filled(buf)]]
          /\ Goto(r, "gather")
          /\ UNCHANGED <<job, raised, plan, bucket, param>>

\* A sharded weight buffer is gathered into a bucket: the shards of all ranks, of
\* one size, one after the other.
GatherParams(step, next) ==
  LET size == plan[0].shard_size
      gathered == [k \in 1 .. BucketSize(0) |->
                     GetShardFromLocalBuffer((k - 1) \div size, "model")[((k - 1) % size) + 1]]
  IN
  /\ IsDataDistributed("model")
  /\ \A r \in Rank : At(r, step)
  /\ bucket' = [r \in Rank |-> gathered]
  /\ pc' = [r \in Rank |-> next]
  /\ UNCHANGED <<job, raised, plan, data, param>>

\* An unsharded weight buffer is its own bucket, and gathering it copies it onto
\* itself, with no collective; without a weight buffer nothing is gathered.
KeepParams(r, step, next) ==
  /\ ~IsDataDistributed("model")
  /\ At(r, step)
  /\ Goto(r, next)
  /\ UNCHANGED <<job, raised, plan, data, bucket, param>>

\* The gradients of a rank go into the bucket of the gradient buffer: a
\* communication bucket if it is sharded, its own data if not.  The cells of
\* the communication bucket travel with the reduction.
ReduceGrads ==
  LET Contribution(r) ==
        WriteEach([k \in 1 .. BucketSize(r) |-> Empty], plan[r].start,
                  [i \in Item |-> Tensor(i, {r})])
      Sum(k) == LET cells == {Contribution(r)[k] : r \in Rank}
                IN IF \A c, d \in cells : c.item = d.item /\ c.pos = d.pos
                   THEN [(CHOOSE c \in cells : TRUE) EXCEPT !.from = UNION {c.from : c \in cells}]
                   ELSE Empty
      sum == [k \in 1 .. BucketSize(0) |-> Sum(k)]
      Reduced(r) ==
        IF job.strategy = "no_shard" THEN sum
        ELSE IF IsDataDistributed("grad") THEN GetShardFromBucket(r, sum)
        ELSE Write(Contribution(r), ShardStart(r, "grad"), GetShardFromBucket(r, sum))
  IN
  /\ \A r \in Rank : At(r, "reduce")
  /\ data' = [r \in Rank |-> [data[r] EXCEPT !["grad"] = Reduced(r)]]
  /\ pc' = [r \in Rank |-> "step"]
  /\ UNCHANGED <<job, raised, plan, bucket, param>>

\* the optimizer adds each gradient cell to the weight cell beside it
Update(weights, grads) ==
  [k \in DOMAIN weights |->
     IF weights[k].item = grads[k].item /\ weights[k].pos = grads[k].pos
     THEN [weights[k] EXCEPT !.from = @ \cup grads[k].from] ELSE Empty]

\* The optimizer's parameters and gradients are the rank's shards, virtual
\* ones of an unsharded buffer; without sharding they are whole.
OptimizerStep(r) ==
  LET sharded == job.strategy # "no_shard"
      buf == IF HasBuffer("main") THEN "main" ELSE "model"
      New(i) == Update(GetItem(r, buf, i, sharded), GetItem(r, "grad", i, sharded))
      Start(i) == ItemIndex(r, buf, i, sharded)[1]
  IN
  /\ At(r, "step")
  /\ IF HasBuffer(buf)
     THEN /\ data' = [data EXCEPT ![r][buf] =
                        WriteEach(@, [i \in Item |-> Start(i)], [i \in Item |-> New(i)])]
          /\ UNCHANGED param
     ELSE /\ param' = [param EXCEPT ![r] = [i \in Item |-> Update(@[i], GetItem(r, "grad", i, FALSE))]]
          /\ UNCHANGED data
  /\ Goto(r, "install")
  /\ UNCHANGED <<job, raised, plan, bucket>>

CopyMainWeightsToModelWeights(r) ==
  LET only_shard == IsDataDistributed("model") \/ IsDataDistributed("main")
      Main(i) == GetItem(r, "main", i, only_shard)
      Start(i) == ItemIndex(r, "model", i, only_shard)[1]
  IN
  /\ At(r, "install")
  /\ IF ~HasBuffer("main") THEN UNCHANGED <<data, param>>
     ELSE IF HasBuffer("model")
     THEN /\ data' = [data EXCEPT ![r]["model"] =
                        WriteEach(@, [i \in Item |-> Start(i)], [i \in Item |-> Main(i)])]
          /\ UNCHANGED param
     ELSE param' = [param EXCEPT ![r] = [i \in Item |-> Main(i)]] /\ UNCHANGED data
  /\ Goto(r, "regather")
  /\ UNCHANGED <<job, raised, plan, bucket>>

Next ==
  \/ \E r \in Rank : \/ Plan(r) \/ InitBuffers(r) \/ KeepParams(r, "gather", "reduce")
                      \/ OptimizerStep(r) \/ CopyMainWeightsToModelWeights(r)
                      \/ KeepParams(r, "regather", "done")
  \/ GatherParams("gather", "reduce")
  \/ ReduceGrads
  \/ GatherParams("regather", "done")

Spec == Init /\ [][Next]_vars

----------------------------------------------------------------------------
(* Properties *)

Planned(r) == pc[r] # "plan"

\* Every element of every tensor is on exactly one rank, and every rank holds
\* whole blocks: no two tensors overlap, the shares of the ranks add up to the
\* tensor, and cuts respect block sizes (the planner's promise to RaggedShard).
LayoutSound ==
  \A r \in Rank : Planned(r) =>
    LET Start(i) == plan[r].start[i]
        Share(i, q) == LocalSize(Start(i), ItemSize(i), plan[r].shard_size, q)
    IN /\ \A i, j \in Item : i # j => Start(i) + ItemSize(i) <= Start(j) \/ Start(j) + ItemSize(j) <= Start(i)
       /\ \A i \in Item : MapThenSumSet(LAMBDA q : Share(i, q), Rank) = ItemSize(i)
       /\ \A i \in Item, q \in Rank : Share(i, q) % job.elements[i].block = 0

\* No smaller shard, at any alignment the planner tries, has room for the
\* tensors in the chosen order, wherever they are put: neither placing tensors
\* greedily nor searching by bisection costs memory.
SmallestShard ==
  \A r \in Rank : Planned(r) /\ job.strategy # "no_shard" =>
    LET ordered == [j \in Item |-> job.elements[plan[r].tensor_order[j]]]
    IN \A a \in Alignments(ordered, job.unit), k \in 1 .. plan[r].shard_size :
         k * a < plan[r].shard_size /\ k * a * job.ranks >= TotalSize(ordered)
           => ~CanBePlaced(ordered, k * a, job.ranks)

\* Elements with valid block sizes are laid out and installed without an
\* exception: the planner accepts its own layout, and every parameter's view of
\* the bucket has the parameter's size.
NoError == raised \in {"none", "invalid"}

\* What the optimizer gets as a rank's shard of a tensor has the size the
\* RaggedShard placement of the tensor announces, in every buffer.
ShardsMatchPlacement ==
  \A r \in Rank, buf \in Buffers :
    HasBuffer(buf) /\ job.strategy # "no_shard" /\ pc[r] \notin {"plan", "init"} =>
      \A i \in Item : Len(GetItem(r, buf, i, TRUE)) =
                      LocalSize(plan[r].start[i], ItemSize(i), plan[r].shard_size, r)

\* What a rank gathers is whole: the weights as they were set, and after the
\* step weights every element of which has every rank's gradient.  Nothing is
\* lost or misplaced on the way through shards and buckets.
GatheredWhole ==
  IsDataDistributed("model") =>
    \A r \in Rank, i \in Item :
      /\ pc[r] = "reduce" => ParamData(r, i) = Tensor(i, {})
      /\ pc[r] = "done" => ParamData(r, i) = Tensor(i, Rank)

\* Under every strategy, a rank's own share of each tensor has every rank's
\* gradient once the step is installed: reduction, optimizer and copy agree on
\* where it lies, in sharded buffers and in the virtual shards of unsharded ones.
ShareUpdated ==
  \A r \in Rank, i \in Item : pc[r] \in {"regather", "done"} =>
    LET slice == GetItemSliceInShard(r, i)
        whole == Tensor(i, Rank)
    IN IF HasBuffer("model") THEN GetItem(r, "model", i, TRUE) = Slice(whole, slice[1], slice[2])
       ELSE param[r][i] = whole
============================================================================
