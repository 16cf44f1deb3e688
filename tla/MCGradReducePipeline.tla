------------------------ MODULE MCGradReducePipeline ------------------------
(* Grouped layout: bucket 0 belongs to no unit; unit 1 has bucket 1, unit 2    *)
(* the group of buckets 2 and 3, unit 3 bucket 4.  Pooled layout: three units  *)
(* of one bucket with two parameters each, which the fixed pool serves.        *)
EXTENDS GradReducePipeline, TLC

GroupedBucketOf == [p \in Param |-> <<0, 1, 1, 2, 3, 4, 4>>[p + 1]]
GroupedUnitOf == [b \in Bucket |-> <<0, 1, 2, 2, 3>>[b + 1]]
GroupedGroupOf == [b \in Bucket |-> <<<<0>>, <<1>>, <<2, 3>>, <<2, 3>>, <<4>>>>[b + 1]]
GroupedUnits == {1, 3}

PooledBucketOf == [p \in Param |-> <<0, 1, 1, 2, 2, 3, 3>>[p + 1]]
PooledUnitOf == [b \in Bucket |-> b]
PooledGroupOf == [b \in Bucket |-> <<b>>]
PooledUnits == {1, 2, 3}

MCBucketSize == [b \in Bucket |-> Cardinality(ParamsOf(b))]
\* the embedding is tied to the head
MCTied == {0}

\* hooks in any order, and in the reverse order of the units
AnyOrder == [p \in Param |-> {}]
UnitOrder == [p \in Param |-> {q \in Param : UnitOf[BucketOf[q]] > UnitOf[BucketOf[p]]}]

AllUsed == {Param}
\* every parameter is used, or one of a two-parameter bucket is not
SomeUnused == {Param, Param \ {2}, Param \ {4}}

Way(sharded, inplace, overlap, auto_sync, marks_last, microbatches) ==
  [sharded |-> sharded, inplace |-> inplace, overlap |-> overlap,
   auto_sync |-> auto_sync, marks_last |-> marks_last, microbatches |-> microbatches]

\* sharded gradients that are accumulated, by hand or after each microbatch
Accumulating == {Way(TRUE, FALSE, TRUE, auto, FALSE, 2) : auto \in BOOLEAN}
\* unsharded gradients, reduced on the last microbatch, each microbatch, or
\* once without overlap
Unsharded == {Way(FALSE, FALSE, TRUE, FALSE, TRUE, 2), Way(FALSE, FALSE, TRUE, TRUE, FALSE, 1),
              Way(FALSE, FALSE, FALSE, FALSE, FALSE, 2)}
InPlace(microbatches) == Way(TRUE, TRUE, TRUE, FALSE, FALSE, microbatches)

\* the ways of training in which every gradient is reduced once
Sound == Accumulating \cup Unsharded \cup {InPlace(1)}
InPlaceTwice == {InPlace(2)}
============================================================================
