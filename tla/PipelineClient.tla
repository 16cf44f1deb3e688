--------------------------- MODULE PipelineClient ---------------------------
(***************************************************************************)
(* The all-gather pipeline under its most general client: any sequence of  *)
(* calls, of which the client remembers only what it is entitled to use.   *)
(*                                                                         *)
(* "held" is the contract between the hooks and the pipeline: a key is     *)
(* held from the all_gather_params call that names it until the client     *)
(* releases it, marks it for lazy release, or resets the pipeline.         *)
(***************************************************************************)
EXTENDS AllGatherPipeline

VARIABLE held

clientVars == <<pipelineVars, held>>

Keys(req, bwd) == {KeyOf(b, bwd) : b \in req}
UnitBuckets == {b \in Bucket : UnitOf[b] # NoUnit}

Gather(req, prefetch, order, bwd) ==
  /\ AllGatherParams(req, prefetch, order, bwd)
  /\ held' = IF raised' = "none" THEN held \cup Keys(req, bwd) ELSE held

Wait(req, bwd) == WaitBucketsReady(req, bwd) /\ UNCHANGED held

Release(req, bwd) ==
  /\ ReleaseBuckets(req, bwd)
  /\ held' = held \ Keys(req, bwd)

ReleaseLazily(req, bwd) ==
  /\ MarkReleasable(req, bwd)
  /\ held' = held \ Keys(req, bwd)

ReleaseUnits ==
  /\ MarkUnitsReleasable
  /\ held' = held \ Keys(UnitBuckets, FALSE)

ResetAll == Reset /\ held' = {}

GatherAll ==
  /\ GatherEverything
  /\ held' = IF raised' = "none" THEN held \cup Keys(Bucket, FALSE) ELSE held

Install == InstallWeights /\ UNCHANGED held

ClientInit == PipelineInit /\ held = {}

\* Any call at any time; but a client waits only for what it holds.
ClientNext ==
  /\ raised = "none"
  /\ \/ \E req \in SUBSET Bucket, bwd \in BOOLEAN :
          \/ \E prefetch \in BOOLEAN, order \in Order : Gather(req, prefetch, order, bwd)
          \/ Keys(req, bwd) \subseteq held /\ Wait(req, bwd)
          \/ Release(req, bwd)
          \/ ReleaseLazily(req, bwd)
     \/ ReleaseUnits
     \/ ResetAll
     \/ GatherAll
     \/ Install

ClientSpec == ClientInit /\ [][ClientNext]_clientVars
----------------------------------------------------------------------------
\* The variables keep the types the code gives them.
TypeOK ==
  /\ bucket_status \in [Key -> Status]
  /\ bucket_can_be_released \in [Key -> BOOLEAN]
  /\ param_gather_event_map \subseteq Key
  /\ contents \in [Key -> {NoData} \cup Nat]
  /\ shard_version \in Nat
  /\ raised \in Errors
  /\ held \subseteq Key

\* An event is recorded for exactly the gathers in flight, so that no wait
\* looks up a missing entry of param_gather_event_map and no gather is lost.
EventIffCommunicating ==
  param_gather_event_map = {k \in Key : bucket_status[k] = "COMMUNICATING"}

\* Storage is allocated exactly while a bucket is not empty: nothing leaks and
\* nothing in flight or in use has lost its storage.
StorageIffNotEmpty ==
  \A k \in Key : contents[k] = NoData <=> bucket_status[k] = "EMPTY"

\* What a client holds is never recycled behind its back, whatever other
\* buckets are gathered, prefetched, marked or recycled in between.
HeldResident ==
  \A k \in held : bucket_status[k] # "EMPTY" /\ ~bucket_can_be_released[k]

\* A bucket another call has gathered keeps its contents until it is dropped:
\* no call overwrites a resident bucket in place.
NoOverwrite ==
  [][\A k \in Key : bucket_status[k] # "EMPTY" /\ bucket_status'[k] # "EMPTY"
                      => contents'[k] = contents[k]]_clientVars
============================================================================
