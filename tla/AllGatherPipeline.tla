------------------------- MODULE AllGatherPipeline -------------------------
(***************************************************************************)
(* The parameter all-gather pipeline of one rank (AllGatherPipeline of     *)
(* param_and_grad_buffer.py) under the ZeRO-3 strategy                     *)
(* "optim_grads_params": which buckets of unsharded weights are resident,  *)
(* in flight, or marked for lazy release, and what their storage holds.    *)
(*                                                                         *)
(* Every action is one call of the pipeline's interface.  PipelineClient   *)
(* makes any call in any order; FsdpHooks composes the same actions into   *)
(* the module hooks.  Definitions whose name ends in _Mutant are faulty    *)
(* versions of the definition that follows, which the properties detect.   *)
(***************************************************************************)
EXTENDS Integers, FiniteSets, FiniteSetsExt

CONSTANTS
  NumBuckets,       \* buckets are numbered 0 .. NumBuckets-1
  UnitOf,           \* bucket -> its FSDP unit, or NoUnit
  NoUnit,           \* fsdp_unit_id is None
  GroupOf,          \* bucket -> the bucket group its collectives are issued with
  BucketSize,       \* bucket -> elements of the unsharded bucket
  HasTranspose,     \* bucket -> whether a transpose weight buffer exists
  PrefetchSize,     \* suggested_AG_prefetch_size
  FsdpDoubleBuffer, \* ddp_config.fsdp_double_buffer
  DoubleBufUnits,   \* units served by the fixed pool
  PoolSize,         \* UB_BUFFER_NUM, buffer groups of the fixed pool
  MaxVersion        \* bound on optimizer steps, for model checking

Bucket == 0 .. NumBuckets - 1

ASSUME PipelineAssumption ==
  /\ NumBuckets \in Nat \ {0}
  /\ GroupOf \in [Bucket -> SUBSET Bucket]
  /\ \A b \in Bucket :
       /\ b \in GroupOf[b]
       /\ \A c \in GroupOf[b] : UnitOf[c] = UnitOf[b]
  /\ BucketSize \in [Bucket -> Nat]
  /\ HasTranspose \in [Bucket -> BOOLEAN]
  /\ PrefetchSize \in Nat
  /\ FsdpDoubleBuffer \in BOOLEAN
  /\ NoUnit \notin DoubleBufUnits
  /\ PoolSize \in Nat
  /\ MaxVersion \in Nat

\* A bucket has a second key, for the backward pass, only when its weights
\* are also kept transposed.
KeyOf(b, bwd) == <<b, HasTranspose[b] /\ bwd>>
Key == {KeyOf(b, bwd) : b \in Bucket, bwd \in BOOLEAN}

Status == {"EMPTY", "COMMUNICATING", "READY_TO_USE"}
Order  == {"FORWARD_PASS_ORDER", "BACKWARD_PASS_ORDER"}
NoData == -1
Errors == {"none", "ValueError", "AssertionError"}

VARIABLES
  bucket_status,          \* key -> Status
  bucket_can_be_released, \* key -> marked for lazy release
  param_gather_event_map, \* keys whose all-gather has not been waited for
  contents,               \* key -> weight version in its storage, or NoData
  shard_version,          \* version of this rank's persistent weight shard
  raised                  \* the exception that ended the run, if any

pipelineVars == <<bucket_status, bucket_can_be_released, param_gather_event_map,
                  contents, shard_version, raised>>

----------------------------------------------------------------------------
(* Prefetch: which buckets one all_gather_params call asks for.            *)

\* The bucket at which the search for more work continues: the first gap
\* above the lowest, or below the highest, bucket already in A.
NextBucketId(A, order) ==
  IF order = "FORWARD_PASS_ORDER"
  THEN Min({b \in Min(A) + 1 .. NumBuckets : b \notin A})
  ELSE Max({b \in -1 .. Max(A) - 1 : b \notin A})

SizeOf(A) == MapThenSumSet(LAMBDA b : BucketSize[b], A)

\* Units that occupy the double buffer once c is fetched along with A.
DoubleBuffered(req, A) ==
  ({UnitOf[b] : b \in req} \cap DoubleBufUnits) \cup {UnitOf[b] : b \in A \ req}

MayPrefetch_BoundMutant(req, A, c) == c \in Bucket /\ SizeOf(A \ req) <= PrefetchSize
MayPrefetch_Mutant(req, A, c) == c \in Bucket /\ SizeOf(A \ req) < PrefetchSize
MayPrefetch(req, A, c) ==
  /\ c \in Bucket
  /\ SizeOf(A \ req) < PrefetchSize
  /\ FsdpDoubleBuffer => Cardinality(DoubleBuffered(req, A \cup {c})) <= 2

\* The buckets that "ag_buckets" is extended with, group by group, until a
\* limit is reached.
Prefetched(req, order) ==
  LET extend[n \in 0 .. NumBuckets] ==
        IF n = 0 THEN req
        ELSE LET A == extend[n - 1]
                 c == NextBucketId(A, order)
             IN  IF MayPrefetch(req, A, c) THEN A \cup GroupOf[c] ELSE A
  IN  extend[NumBuckets] \ req

----------------------------------------------------------------------------
(* The storage the buckets are allocated from.                             *)

Pooled(k) == FsdpDoubleBuffer /\ UnitOf[k[1]] \in DoubleBufUnits

\* Position of a bucket among the buckets of its unit: buffers of the fixed
\* pool are shared by the buckets at the same offset.
Offset(b) == Cardinality({c \in 0 .. b - 1 : UnitOf[c] = UnitOf[b]})

\* FixedPoolAllocator.allocate finds an idle buffer for every live key.
FitsPool(live) ==
  \A k \in live : Pooled(k) =>
    Cardinality({j \in live : /\ Pooled(j)
                              /\ j[2] = k[2]
                              /\ Offset(j[1]) = Offset(k[1])}) <= PoolSize

----------------------------------------------------------------------------
Fail(error) ==
  /\ raised' = error
  /\ UNCHANGED <<bucket_status, bucket_can_be_released, param_gather_event_map,
                 contents, shard_version>>

\* What all_gather_params leaves when it launches the keys in "launched":
\* the lazily released keys are recycled first, and every flag is cleared.
Launch(launched, flagged) ==
  LET live == launched \cup {k \in Key \ flagged : bucket_status[k] # "EMPTY"}
  IN  IF ~FitsPool(live) THEN Fail("AssertionError")
      ELSE /\ bucket_status' =
                [k \in Key |-> IF k \in launched THEN "COMMUNICATING"
                               ELSE IF k \in flagged THEN "EMPTY"
                               ELSE bucket_status[k]]
           /\ contents' = [k \in Key |-> IF k \in launched THEN shard_version
                                         ELSE IF k \in flagged THEN NoData
                                         ELSE contents[k]]
           /\ param_gather_event_map' = (param_gather_event_map \ flagged) \cup launched
           /\ bucket_can_be_released' = [k \in Key |-> FALSE]
           /\ UNCHANGED <<shard_version, raised>>

\* The buckets to gather: a bucket that is resident or in flight is not
\* gathered again.
Launchable_Mutant(wanted, bwd) == {k \in Key : \E b \in wanted : k = KeyOf(b, bwd)}
Launchable(wanted, bwd) ==
  {k \in Key : bucket_status[k] = "EMPTY" /\ \E b \in wanted : k = KeyOf(b, bwd)}

\* The buckets to recycle: a request takes its buckets' lazy release back.
Flagged_Mutant(requested) == {k \in Key : bucket_can_be_released[k]}
Flagged(requested) == {k \in Key : bucket_can_be_released[k] /\ k \notin requested}

AllGatherParams(req, prefetch, order, bwd) ==
  LET requested == {KeyOf(b, bwd) : b \in req}
      launched  == Launchable(req \cup IF prefetch THEN Prefetched(req, order) ELSE {}, bwd)
      flagged   == Flagged(requested)
  IN  IF req = {} THEN UNCHANGED pipelineVars
      ELSE IF FsdpDoubleBuffer
              /\ Cardinality({UnitOf[b] : b \in req} \cap DoubleBufUnits) > 2
      THEN Fail("ValueError")
      ELSE IF launched = {}
      THEN /\ bucket_can_be_released' =
                [k \in Key |-> k \notin requested /\ bucket_can_be_released[k]]
           /\ UNCHANGED <<bucket_status, param_gather_event_map, contents,
                          shard_version, raised>>
      ELSE Launch(launched, flagged)

\* wait_bucket_ready for every bucket of a parameter list.
WaitBucketsReady(req, bwd) ==
  LET keys == {KeyOf(b, bwd) : b \in req}
  IN  IF \E k \in keys : bucket_status[k] = "EMPTY" THEN Fail("ValueError")
      ELSE /\ bucket_status' = [k \in Key |-> IF k \in keys THEN "READY_TO_USE"
                                              ELSE bucket_status[k]]
           /\ param_gather_event_map' = param_gather_event_map \ keys
           /\ UNCHANGED <<bucket_can_be_released, contents, shard_version, raised>>

\* release_bucket, deferred: only buckets that hold something are marked.
MarkReleasable(req, bwd) ==
  /\ bucket_can_be_released' =
       [k \in Key |-> \/ bucket_can_be_released[k]
                      \/ /\ bucket_status[k] # "EMPTY"
                         /\ \E b \in req : k = KeyOf(b, bwd)]
  /\ UNCHANGED <<bucket_status, param_gather_event_map, contents, shard_version, raised>>

\* release_bucket, immediate: a gather in flight is waited for, then freed.
\* The lazy-release flag is left as it is.
Free_EventMutant(keys) ==
  /\ bucket_status' = [k \in Key |-> IF k \in keys THEN "EMPTY" ELSE bucket_status[k]]
  /\ contents' = [k \in Key |-> IF k \in keys THEN NoData ELSE contents[k]]
  /\ UNCHANGED param_gather_event_map
Free_LeakMutant(keys) ==
  /\ bucket_status' = [k \in Key |-> IF k \in keys THEN "EMPTY" ELSE bucket_status[k]]
  /\ param_gather_event_map' = param_gather_event_map \ keys
  /\ UNCHANGED contents
Free(keys) ==
  /\ bucket_status' = [k \in Key |-> IF k \in keys THEN "EMPTY" ELSE bucket_status[k]]
  /\ contents' = [k \in Key |-> IF k \in keys THEN NoData ELSE contents[k]]
  /\ param_gather_event_map' = param_gather_event_map \ keys

ReleaseBuckets(req, bwd) ==
  /\ Free({KeyOf(b, bwd) : b \in req})
  /\ UNCHANGED <<bucket_can_be_released, shard_version, raised>>

\* _root_pre_backward marks the forward key of every unit's bucket, empty or not.
MarkUnitsReleasable ==
  /\ bucket_can_be_released' =
       [k \in Key |-> \/ bucket_can_be_released[k]
                      \/ \E b \in Bucket : UnitOf[b] # NoUnit /\ k = KeyOf(b, FALSE)]
  /\ UNCHANGED <<bucket_status, param_gather_event_map, contents, shard_version, raised>>

\* reset: pending gathers are waited for, then every key is marked and recycled.
Reset_Mutant ==
  /\ Free({k \in Key : bucket_status[k] = "COMMUNICATING"})
  /\ bucket_can_be_released' = [k \in Key |-> FALSE]
  /\ UNCHANGED <<shard_version, raised>>
Reset ==
  /\ Free(Key)
  /\ bucket_can_be_released' = [k \in Key |-> FALSE]
  /\ UNCHANGED <<shard_version, raised>>

\* start_param_sync without overlap: every bucket is gathered on its own and
\* waited for; none is released again.  The pipeline was reset just before,
\* and a bucket that is marked is recycled only while another is gathered.
GatherEverything ==
  LET keys     == {KeyOf(b, FALSE) : b \in Bucket}
      launched == {k \in keys : bucket_status[k] = "EMPTY"}
      live     == launched \cup {k \in Key : bucket_status[k] # "EMPTY"}
  IN  /\ \A k \in Key : ~bucket_can_be_released[k]
      /\ IF ~FitsPool(live) THEN Fail("AssertionError")
         ELSE /\ bucket_status' = [k \in Key |-> IF k \in keys THEN "READY_TO_USE"
                                                 ELSE bucket_status[k]]
              /\ contents' = [k \in Key |-> IF k \in launched THEN shard_version
                                            ELSE contents[k]]
              /\ param_gather_event_map' = param_gather_event_map \ keys
              /\ UNCHANGED <<bucket_can_be_released, shard_version, raised>>

\* install_optimized_model_weights after an optimizer step: only the
\* persistent shard changes, gathered buckets are not touched.
InstallWeights ==
  /\ shard_version < MaxVersion
  /\ shard_version' = shard_version + 1
  /\ UNCHANGED <<bucket_status, bucket_can_be_released, param_gather_event_map,
                 contents, raised>>

----------------------------------------------------------------------------
PipelineInit ==
  /\ bucket_status = [k \in Key |-> "EMPTY"]
  /\ bucket_can_be_released = [k \in Key |-> FALSE]
  /\ param_gather_event_map = {}
  /\ contents = [k \in Key |-> NoData]
  /\ shard_version = 0
  /\ raised = "none"
============================================================================
