---------------------------- MODULE DBufferLayout ----------------------------
(***************************************************************************)
(* The planner of dbuffer.py: where the tensors of a bucket go in the      *)
(* contiguous buffer that the ranks of a data-parallel group share.  Every *)
(* rank owns a shard of the same size, and a tensor may only be cut where  *)
(* a whole number of its blocks lies on either side.                       *)
(*                                                                         *)
(* An element is a tensor to place, [shape |-> its dimensions, block |->   *)
(* its block size]; a layout places a sequence of elements.  All           *)
(* operators are functions of their arguments, as the code is.             *)
(***************************************************************************)
EXTENDS Integers, Sequences, FiniteSets, FiniteSetsExt, SequencesExt

Numel(shape) == FoldSeq(LAMBDA n, m : n * m, 1, shape)
Size(element) == Numel(element.shape)
TotalSize(elements) == FoldSeq(LAMBDA e, n : Size(e) + n, 0, elements)

CeilDiv(n, m) == (n + m - 1) \div m
Larger(n, m)  == IF n > m THEN n ELSE m
Smaller(n, m) == IF n < m THEN n ELSE m
\* the least common multiple of two positive numbers
Lcm(n, m) == CHOOSE k \in 1 .. n * m :
               /\ k % n = 0 /\ k % m = 0
               /\ \A j \in 1 .. k - 1 : j % n # 0 \/ j % m # 0

\* a block size must be positive and divide its tensor
ItemsAreValid(elements) ==
  \A j \in DOMAIN elements : elements[j].block > 0 /\ Size(elements[j]) % elements[j].block = 0

NoStart == -1

TensorBoundaryIsValid_Mutant(start, size, block, shard_size) == TRUE

\* every shard boundary inside the tensor is a whole number of blocks from its start
TensorBoundaryIsValid(start, size, block, shard_size) ==
  \A k \in (start \div shard_size) + 1 .. (start + size) \div shard_size :
    k * shard_size < start + size => (k * shard_size - start) % block = 0

\* where a tensor may start in shard i, at or after the cursor
StartInShard(i, cursor, size, block, shard_size) ==
  LET shard_end == (i + 1) * shard_size
      base      == Larger(cursor, i * shard_size)
      lower     == Larger(base, shard_end - size + 1)
      candidate == lower + ((shard_end - lower) % block)
  IN IF base + size <= shard_end THEN base
     ELSE IF candidate < shard_end /\ TensorBoundaryIsValid(candidate, size, block, shard_size)
          THEN candidate ELSE NoStart

NextValidTensorStart(cursor, size, block, shard_size, ranks) ==
  LET Start(i) == StartInShard(i, cursor, size, block, shard_size)
      shards   == {i \in cursor \div shard_size .. ranks - 1 : Start(i) # NoStart}
  IN IF cursor + size > shard_size * ranks \/ shards = {} THEN NoStart
     ELSE Start(Min(shards))

\* the cursor is left one element early
CheckValidShardSize_Mutant(elements, shard_size, ranks) ==
  LET start[j \in DOMAIN elements] ==
        IF j > 1 /\ start[j - 1] = NoStart THEN NoStart
        ELSE LET cursor == IF j = 1 THEN 0 ELSE start[j - 1] + Size(elements[j - 1]) - 1
             IN NextValidTensorStart(cursor, Size(elements[j]), elements[j].block,
                                     shard_size, ranks)
  IN start

\* the starts of the elements, placed one after the other; NoStart from the
\* first that has no place
CheckValidShardSize(elements, shard_size, ranks) ==
  LET start[j \in DOMAIN elements] ==
        IF j > 1 /\ start[j - 1] = NoStart THEN NoStart
        ELSE LET cursor == IF j = 1 THEN 0 ELSE start[j - 1] + Size(elements[j - 1])
             IN NextValidTensorStart(cursor, Size(elements[j]), elements[j].block,
                                     shard_size, ranks)
  IN start

Fits(elements, shard_size, ranks) ==
  \A j \in DOMAIN elements : CheckValidShardSize(elements, shard_size, ranks)[j] # NoStart

\* the search stops with one candidate left
MinimalFeasibleShardSize_Mutant(elements, ranks, alignment) ==
  LET Feasible(k) == Fits(elements, k * alignment, ranks)
      low == Larger(1, CeilDiv(CeilDiv(TotalSize(elements), ranks), alignment))
      doubled[k \in Nat] == IF Feasible(k) THEN k ELSE doubled[2 * k]
      high == doubled[low]
      search[s \in [lo : 1 .. high + 1, hi : 0 .. high, best : 1 .. high]] ==
        LET mid == (s.lo + s.hi) \div 2
        IN IF s.lo >= s.hi THEN s.best
           ELSE IF Feasible(mid) THEN search[[s EXCEPT !.hi = mid - 1, !.best = mid]]
           ELSE search[[s EXCEPT !.lo = mid + 1]]
  IN search[[lo |-> low, hi |-> high, best |-> high]] * alignment

\* doubling until the elements fit, then binary search for the smallest multiple
\* of the alignment
MinimalFeasibleShardSize(elements, ranks, alignment) ==
  LET Feasible(k) == Fits(elements, k * alignment, ranks)
      low == Larger(1, CeilDiv(CeilDiv(TotalSize(elements), ranks), alignment))
      doubled[k \in Nat] == IF Feasible(k) THEN k ELSE doubled[2 * k]
      high == doubled[low]
      search[s \in [lo : 1 .. high + 1, hi : 0 .. high, best : 1 .. high]] ==
        LET mid == (s.lo + s.hi) \div 2
        IN IF s.lo > s.hi THEN s.best
           ELSE IF Feasible(mid) THEN search[[s EXCEPT !.hi = mid - 1, !.best = mid]]
           ELSE search[[s EXCEPT !.lo = mid + 1]]
  IN search[[lo |-> low, hi |-> high, best |-> high]] * alignment

\* the collective unit joined with ever more of the block sizes, smallest first
Alignments(elements, unit) ==
  LET blocks == {elements[j].block : j \in DOMAIN elements}
  IN {FoldSet(Lcm, Larger(1, unit), {c \in blocks : c <= b}) : b \in blocks}

Algorithm1ShardSize(elements, ranks, unit) ==
  IF elements = <<>> THEN 0
  ELSE Min({MinimalFeasibleShardSize(elements, ranks, a) : a \in Alignments(elements, unit)})

\* element positions in the order of a key, ties by position
SortedBy(elements, Less(_, _)) ==
  SetToSortSeq(DOMAIN elements,
    LAMBDA i, j : Less(elements[i], elements[j]) \/ (~Less(elements[j], elements[i]) /\ i < j))

LexLess(s, t) ==
  \/ \E k \in DOMAIN s \cap DOMAIN t : s[k] < t[k] /\ \A j \in 1 .. k - 1 : s[j] = t[j]
  \/ Len(s) < Len(t) /\ \A j \in DOMAIN s : s[j] = t[j]

TensorOrders == {"default", "block_size", "shape", "size", "best"}

OrderedItemVariants(elements, order) ==
  LET default == [i \in DOMAIN elements |-> i]
      blocks  == SortedBy(elements, LAMBDA e, f : e.block < f.block)
      shapes  == SortedBy(elements, LAMBDA e, f : LexLess(e.shape, f.shape))
      sizes   == SortedBy(elements, LAMBDA e, f : Size(e) < Size(f))
  IN CASE order = "default"    -> {default}
       [] order = "block_size" -> {blocks}
       [] order = "shape"      -> {shapes}
       [] order = "size"       -> {sizes}
       [] order = "best"       -> {default, blocks, shapes}

\* elements of a tensor in the shard of a rank
LocalSize(start, size, shard_size, rank) ==
  Larger(0, Smaller(start + size, (rank + 1) * shard_size) - Larger(start, rank * shard_size))

Ordered(elements, tensor_order) == [j \in DOMAIN tensor_order |-> elements[tensor_order[j]]]

\* the order with the smallest shard, of several the least
SelectedVariant(elements, ranks, unit, order) ==
  LET candidates == {[tensor_order |-> o,
                      shard_size |-> Algorithm1ShardSize(Ordered(elements, o), ranks, unit)] :
                       o \in OrderedItemVariants(elements, order)}
  IN CHOOSE c \in candidates : \A d \in candidates :
       \/ c.shard_size < d.shard_size
       \/ c.shard_size = d.shard_size /\ ~LexLess(d.tensor_order, c.tensor_order)

\* Where each element of a selected order starts, and the size of a shard;
\* without padding the bucket is cut after the last element.
Layout(elements, ranks, selected, pad_bucket) ==
  LET offsets == CheckValidShardSize(Ordered(elements, selected.tensor_order),
                                     selected.shard_size, ranks)
      start   == [i \in DOMAIN elements |->
                    offsets[CHOOSE j \in DOMAIN elements : selected.tensor_order[j] = i]]
      max_end == Max({start[i] + Size(elements[i]) : i \in DOMAIN elements})
  IN [tensor_order |-> selected.tensor_order, start |-> start,
      shard_size |-> IF pad_bucket \/ elements = <<>> THEN selected.shard_size
                     ELSE CeilDiv(max_end, ranks)]

\* The plan all ranks make; bucket_size is ranks * shard_size.
PlanDBufferLayout(elements, ranks, unit, order, pad_bucket) ==
  Layout(elements, ranks, SelectedVariant(elements, ranks, unit, order), pad_bucket)

\* every rank holds whole blocks of every tensor, or the planner raises
LocalUnitsAreWhole(elements, plan, ranks) ==
  \A i \in DOMAIN elements, r \in 0 .. ranks - 1 :
    LocalSize(plan.start[i], Size(elements[i]), plan.shard_size, r) % elements[i].block = 0

----------------------------------------------------------------------------
(* Reference definitions *)

\* A placement of the elements in their order: one after the other, within
\* the bucket, and cut at whole blocks only.
IsPlacement(start, elements, shard_size, ranks) ==
  /\ \A j \in DOMAIN elements :
       /\ start[j] + Size(elements[j]) <= ranks * shard_size
       /\ \A k \in 1 .. ranks - 1 :
            start[j] < k * shard_size /\ k * shard_size < start[j] + Size(elements[j])
              => (k * shard_size - start[j]) % elements[j].block = 0
  /\ \A j \in DOMAIN elements : j > 1 => start[j] >= start[j - 1] + Size(elements[j - 1])

CanBePlaced(elements, shard_size, ranks) ==
  \E start \in [DOMAIN elements -> 0 .. ranks * shard_size] :
    IsPlacement(start, elements, shard_size, ranks)
============================================================================
