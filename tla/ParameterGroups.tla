--------------------------- MODULE ParameterGroups ---------------------------
(***************************************************************************)
(* How the parameters of a model are put into buckets, and the buckets     *)
(* into the groups whose collectives are issued together                   *)
(* (_get_parameter_groups).                                                *)
(*                                                                         *)
(* A model is                                                              *)
(*   params  its parameters in the order of named_parameters(): [dtype,    *)
(*           expert, requires_grad, shared_embedding, rows, row], row the  *)
(*           elements of a row and rows their number;                      *)
(*   units   the parameters of each module that is an instance of a unit   *)
(*           class, in the order of modules(): an outer one before those   *)
(*           nested in it, and a tied parameter in several;                *)
(*   module  the module each parameter is a direct parameter of;           *)
(*   suggested_bucket_size                                                 *)
(* Parameters, units and buckets are known by their positions.             *)
(***************************************************************************)
EXTENDS DBufferLayout

NoUnit == 0

NumelOf(p) == p.rows * p.row

\* A finite set in the order of a relation, each member after those before it.
\* The provers do not know SortSeq, which SetToSortSeq is made of.
InTheOrderOf(set, before) ==
  [k \in 1 .. Cardinality(set) |->
     CHOOSE x \in set : Cardinality({y \in set : <<y, x>> \in before}) = k - 1]
InAscendingOrder(set) == InTheOrderOf(set, {pair \in set \X set : pair[1] < pair[2]})

\* The first registered unit that has the parameter.  Every instance is
\* registered, nested ones too: the test for nesting asks about the root, which
\* is nested in none.  An outer unit is registered before the ones inside it.
FsdpUnitId(model, n) ==
  LET owners == {u \in DOMAIN model.units : n \in model.units[u]}
  IN IF owners = {} THEN NoUnit ELSE Min(owners)

\* the flag is not among the attributes
ParamAttrs_Mutant(model, n) ==
  [dtype |-> model.params[n].dtype, expert |-> model.params[n].expert,
   fsdp_unit_id |-> FsdpUnitId(model, n)]

ParamAttrs(model, n) ==
  [dtype |-> model.params[n].dtype, expert |-> model.params[n].expert,
   requires_grad |-> model.params[n].requires_grad, fsdp_unit_id |-> FsdpUnitId(model, n)]

\* Step 1: parameters of equal attributes, in the order of their first ones
GroupByAttributes(model) ==
  LET Alike(n) == {k \in DOMAIN model.params : ParamAttrs(model, k) = ParamAttrs(model, n)}
      IsFirst(n) == \A k \in Alike(n) : n <= k
      firsts == InAscendingOrder({n \in DOMAIN model.params : IsFirst(n)})
  IN [c \in DOMAIN firsts |-> InAscendingOrder(Alike(firsts[c]))]

RequiresNewBucket(model, strategy, n) ==
  model.params[n].shared_embedding /\ strategy # "no_shard"

IsFull(model, bucket) ==
  /\ FsdpUnitId(model, bucket[1]) = NoUnit
  /\ model.suggested_bucket_size > 0
  /\ FoldSeq(LAMBDA n, sum : NumelOf(model.params[n]) + sum, 0, bucket)
       >= model.suggested_bucket_size

Closed(bucket) == IF bucket = <<>> THEN <<>> ELSE <<bucket>>

\* Step 2: a group is cut where a parameter needs a bucket of its own and,
\* outside units, where a bucket is full
BucketsOf(model, strategy, group) ==
  LET Place(filling, n) ==
        LET bucket == Append(filling.bucket, n)
        IN IF RequiresNewBucket(model, strategy, n)
           THEN [full |-> filling.full \o Closed(filling.bucket) \o << <<n>> >>, bucket |-> <<>>]
           ELSE IF IsFull(model, bucket)
           THEN [full |-> Append(filling.full, bucket), bucket |-> <<>>]
           ELSE [filling EXCEPT !.bucket = bucket]
      filled == FoldLeft(Place, [full |-> <<>>, bucket |-> <<>>], group)
  IN filled.full \o Closed(filled.bucket)

\* Step 3: the longest rows first.  No bucket is split: a row length that does
\* not fit joins the factor.
SortedByRow(model, bucket) ==
  LET Row(i) == model.params[bucket[i]].row
      Ahead(i, j) == Row(i) > Row(j) \/ (Row(i) = Row(j) /\ i < j)
      Item == DOMAIN bucket
      order == InTheOrderOf(Item, {pair \in Item \X Item : Ahead(pair[1], pair[2])})
  IN [i \in DOMAIN order |-> bucket[order[i]]]

ChunkSizeFactor(model, bucket) ==
  LET Join(factor, n) ==
        LET p == model.params[n]
        IN IF \/ p.row = factor
              \/ factor % p.row = 0 /\ NumelOf(p) % factor = 0
              \/ NumelOf(p) < factor
           THEN factor ELSE Lcm(factor, p.row)
  IN FoldLeft(Join, model.params[bucket[1]].row, bucket)

\* the parameter groups: one bucket each
GetParameterGroups(model, strategy) ==
  LET classes == GroupByAttributes(model)
      buckets == FlattenSeq([c \in DOMAIN classes |-> BucketsOf(model, strategy, classes[c])])
  IN [b \in DOMAIN buckets |->
        LET params == SortedByRow(model, buckets[b])
        IN [params |-> params, attrs |-> ParamAttrs(model, buckets[b][1]),
            chunk_size_factor |-> ChunkSizeFactor(model, params)]]

ParamToParamGroup(groups, n) == CHOOSE b \in DOMAIN groups : n \in Range(groups[b].params)

\* Step 4: the buckets whose collectives are issued with those of a bucket
BucketToBucketGroup(groups, b) ==
  IF groups[b].attrs.fsdp_unit_id = NoUnit THEN {b}
  ELSE {c \in DOMAIN groups :
          /\ groups[c].attrs.fsdp_unit_id = groups[b].attrs.fsdp_unit_id
          /\ groups[c].attrs.expert = groups[b].attrs.expert}
=============================================================================
