---------------------------- MODULE UnevenDTensor ----------------------------
(***************************************************************************)
(* The DTensors that the optimizer and checkpoints see of a parameter, and *)
(* the chunk metadata that says where in the tensor the shard of each rank *)
(* lies (make_fsdp_dtensor and uneven_dtensor.py), without tensor          *)
(* parallelism.                                                            *)
(*                                                                         *)
(* A DTensor is                                                            *)
(*   rows, row   its shape; a row of one element stands for a vector;      *)
(*   groups      rank -> its group in each dimension of the device mesh;   *)
(*   placements  one for each dimension of the mesh;                       *)
(*   shard_order the order of the dimensions, <<>> when the mesh has none; *)
(*   units       the local units of a Ragged placement, rank by rank;      *)
(*   flat        whether local tensors are flat;                           *)
(*   local       rank -> the elements of its local tensor.                 *)
(* All shards are along the first dimension.                               *)
(***************************************************************************)
EXTENDS DBufferLayout, DistributedIndex

Placements == {"Replicate", "Shard", "Ragged"}

GetFsdpTensorSpec(mesh, outer_shard, sharded) ==
  [placements  |-> IF ~sharded THEN <<"Replicate">>
                   ELSE IF ~mesh.hybrid THEN <<"Ragged">>
                   ELSE IF outer_shard THEN <<"Shard", "Shard">> ELSE <<"Replicate", "Shard">>,
   shard_order |-> IF sharded /\ mesh.hybrid /\ outer_shard THEN <<2, 1>> ELSE <<>>]

\* The local tensor of a sharded parameter is flat, whatever its placement: the
\* buffers announce local units in a hybrid mesh too.
MakeFsdpDTensor(param, mesh, outer_shard, sharded, units, groups, local) ==
  GetFsdpTensorSpec(mesh, outer_shard, sharded)
    @@ [rows |-> param.rows, row |-> param.row, units |-> units, groups |-> groups,
        flat |-> sharded, local |-> local]

Members(d) == DOMAIN d.local
Position(d, dim, r) == GroupRank(d.groups[r][dim], r) + 1
LocalSizeOf(d, r) == IF d.flat THEN Len(d.local[r]) ELSE Len(d.local[r]) \div d.row

\* the order is followed as it stands
CutOrder_Mutant(d) == IF d.shard_order = <<>> THEN [k \in DOMAIN d.placements |-> k] ELSE d.shard_order

\* the mesh dimensions in the order in which sizes add up, the last to cut first
CutOrder(d) == IF d.shard_order = <<>> THEN [k \in DOMAIN d.placements |-> k] ELSE Reverse(d.shard_order)

SumOfSeq(s) == FoldSeq(LAMBDA n, sum : n + sum, 0, s)

----------------------------------------------------------------------------
(* Where the shards lie *)

\* a shard of no units tells nothing about their size
UnitSize(d, r) ==
  LET unit == d.units[Position(d, 1, r)]
      ratio == IF unit = 0 THEN 0 ELSE Len(d.local[r]) \div unit
  IN IF ratio = 0 THEN (d.rows * d.row) \div SumOfSeq(d.units) ELSE ratio

RaggedIsWhole(d, r) ==
  LET unit == d.units[Position(d, 1, r)] IN unit = 0 \/ Len(d.local[r]) % unit = 0

\* how far the ranks before this one in a dimension of the mesh reach
Before(d, dim, r, sizes) ==
  LET group == d.groups[r][dim]
  IN FoldSeq(LAMBDA q, sum : sizes[q] + sum, 0, SubSeq(group, 1, Position(d, dim, r) - 1))

\* Offsets and sizes through the mesh dimensions: along each, a rank learns the
\* sizes of its group, as they have accumulated so far.
GatherAndComputeChunkMetadata(d) ==
  LET Along(state, dim) ==
        CASE d.placements[dim] = "Replicate" -> state
          [] d.placements[dim] = "Shard" ->
               [r \in Members(d) |->
                  [offset |-> state[r].offset + Before(d, dim, r, [q \in Members(d) |-> state[q].size]),
                   size |-> FoldSeq(LAMBDA q, sum : state[q].size + sum, 0, d.groups[r][dim])]]
          [] d.placements[dim] = "Ragged" ->
               [r \in Members(d) |->
                  [offset |-> state[r].offset
                              + SumOfSeq(SubSeq(d.units, 1, Position(d, dim, r) - 1)) * UnitSize(d, r),
                   size |-> SumOfSeq(d.units) * UnitSize(d, r)]]
      start == [r \in Members(d) |-> [offset |-> 0, size |-> LocalSizeOf(d, r)]]
      final == FoldLeft(Along, start, CutOrder(d))
  IN [r \in Members(d) |-> [offset |-> final[r].offset, size |-> LocalSizeOf(d, r)]]

IsRagged(d) == "Ragged" \in Range(d.placements)

\* the ranks whose findings reach a rank through one reduction for each sharded
\* dimension
Reached(d, r) ==
  LET Along(ranks, dim) ==
        IF d.placements[dim] # "Shard" THEN ranks
        ELSE UNION {Range(d.groups[q][dim]) : q \in ranks}
  IN FoldLeft(Along, {r}, [k \in DOMAIN d.placements |-> k])

\* A ragged shard must lie in the flattened tensor; others within the first
\* dimension, and some must touch its ends.
ValidateUnevenDTensor(d) ==
  LET chunk == GatherAndComputeChunkMetadata(d)
      End(r) == chunk[r].offset + chunk[r].size
  IN IF IsRagged(d) THEN \A r \in Members(d) : RaggedIsWhole(d, r) /\ End(r) <= d.rows * d.row
     ELSE \A r \in Members(d) :
            /\ End(r) <= d.rows
            /\ \E q \in Reached(d, r) : chunk[q].offset = 0
            /\ \E q \in Reached(d, r) : End(q) = d.rows

----------------------------------------------------------------------------
(* What is made of them *)

\* the chunks a rank writes into a checkpoint: none of an empty shard
WriteItems(d, chunk, r) == IF d.local[r] = <<>> THEN {} ELSE {chunk[r]}

\* The shards that one rank gathers, dimension by dimension, each put at its
\* offset; where none is, the tensor stays 0.
UnevenDTensorToFullTensor(d, chunk, r, zero) ==
  [k \in 1 .. d.rows * d.row |->
     LET width == IF d.flat THEN 1 ELSE d.row
         there == {q \in Reached(d, r) :
                     chunk[q].offset * width < k /\ k <= chunk[q].offset * width + Len(d.local[q])}
     IN IF there = {} THEN zero
        ELSE LET q == CHOOSE q \in there : TRUE IN d.local[q][k - chunk[q].offset * width]]

\* where a tensor of this length is cut into parts of a size
SplitPoints(length, size) == {n \in 0 .. length - 1 : n % size = 0}

\* A part that begins at a point is on each rank what its shard has of it, and a
\* DTensor with the placements of the whole.
SplitDTensor(d, chunk, size, point) ==
  LET end == Smaller(point + size, d.rows)
      Piece(r) ==
        LET start == Larger(point, chunk[r].offset)
            stop  == Smaller(end, chunk[r].offset + chunk[r].size)
        IN IF start >= stop THEN <<>>
           ELSE SubSeq(d.local[r], start - chunk[r].offset + 1, stop - chunk[r].offset)
  IN [d EXCEPT !.rows = end - point, !.local = [r \in Members(d) |-> Piece(r)]]
=============================================================================
